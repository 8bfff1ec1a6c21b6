---------------------------- MODULE ServicesProofs ----------------------------
(***************************************************************************)
(* What holds of the program around the game for any number of instances,  *)
(* migrations, matches, seeds and workers, however often they die.         *)
(***************************************************************************)
EXTENDS Services, FiniteSetTheorems, WellFoundedInduction, TLAPS

-------------------------------------------------------------------------------
(* The parts count as this module does.                                      *)

\* Boot's cardinality is the one the library's facts are about.
LEMMA BootCounts == \A T : B!Cardinality(T) = Cardinality(T)
BY DEF B!Cardinality, Cardinality

\* So is Pool's.
LEMMA PoolCounts == \A T : P!Cardinality(T) = Cardinality(T)
BY DEF P!Cardinality, Cardinality

-------------------------------------------------------------------------------
(* Boot: whose turn it is, and what is left to apply.                        *)

BootPCs == {"parse", "before", "open", "lock", "list", "apply", "unlock", "close", "after", "exited"}

BootTypes ==
  /\ db \in [table : BOOLEAN, versions : Seq(Nat)] /\ Len(db.versions) <= Total
  /\ lock \in Instances \cup {"free"}
  /\ lingers \in [Instances -> {"none", "waiting", "open"}]
  /\ bpc \in [Instances -> BootPCs]
  /\ pending \in [Instances -> Seq(Nat)]
  /\ failed \in [Instances -> BOOLEAN]
  /\ bexit \in [Instances -> {"none", "success", "failure"}]

\* The versions applied are the first ones, in order.
Prefix == \A k \in 1 .. Len(db.versions) : db.versions[k] = k

\* Between the lock and the unlock an instance holds the lock; only the dead
\* leave a session behind.
Holds == \A i \in Instances : /\ bpc[i] \in {"list", "apply"} => lock = i
                              /\ lingers[i] # "none" => bpc[i] = "exited"

\* Who applies has exactly the rest of the list before it.
RestPending ==
  \A i \in Instances : bpc[i] = "apply" =>
    /\ Len(pending[i]) = Total - Len(db.versions)
    /\ \A k \in 1 .. Len(pending[i]) : pending[i][k] = Len(db.versions) + k

\* Who is past applying without an error leaves nothing to apply.
Through ==
  \A i \in Instances :
    (bpc[i] \in {"unlock", "close"} /\ ~failed[i]) \/ bpc[i] = "after" \/ bexit[i] = "success" =>
      Len(db.versions) = Total

BootInv == BootTypes /\ Prefix /\ Holds /\ RestPending /\ Through

\* The sequence of numbers after L, up to n.
After(L, n) == [k \in 1 .. n - L |-> L + k]

\* When the first L migrations are applied, what is pending is the rest.
LEMMA PendingIsRest ==
  ASSUME BootTypes, Prefix
  PROVE  B!Pending(db.versions) = After(Len(db.versions), Total)
<1> DEFINE L       == Len(db.versions)
           missing == {k \in 1 .. Total : \A j \in 1 .. L : db.versions[j] # k}
<1>1. L \in Nat /\ L <= Total /\ Total \in Nat
  BY ServicesAssumption DEF BootTypes
<1>2. missing = L + 1 .. Total
  BY <1>1 DEF Prefix
<1> DEFINE rank(k) == B!Cardinality({m \in missing : m <= k})
<1>3. B!Pending(db.versions) = [n \in 1 .. B!Cardinality(missing) |-> CHOOSE k \in missing : rank(k) = n]
  BY Zenon DEF B!Pending
<1> HIDE DEF L, missing
<1>4. B!Cardinality(missing) = Total - L
  <2>1. L + 1 \in Int /\ Total \in Int
    BY <1>1
  <2>2. Cardinality(L + 1 .. Total) = IF L + 1 > Total THEN 0 ELSE Total - (L + 1) + 1
    BY <2>1, FS_Interval
  <2> QED BY <1>1, <1>2, <2>2, BootCounts
<1>5. ASSUME NEW k \in missing
      PROVE  rank(k) = k - L
  <2>1. k \in Int /\ L + 1 \in Int /\ L + 1 <= k /\ k <= Total
    BY <1>1, <1>2
  <2>2. {m \in missing : m <= k} = L + 1 .. k
    BY <1>1, <1>2, <2>1
  <2>3. Cardinality(L + 1 .. k) = IF L + 1 > k THEN 0 ELSE k - (L + 1) + 1
    BY <2>1, FS_Interval
  <2>4. k - (L + 1) + 1 = k - L /\ ~(L + 1 > k)
    BY <1>1, <2>1
  <2> QED BY <2>2, <2>3, <2>4, BootCounts
<1> HIDE DEF rank
<1>6. ASSUME NEW n \in 1 .. Total - L
      PROVE  (CHOOSE k \in missing : rank(k) = n) = L + n
  <2>1. L + n \in missing /\ L + n - L = n
    BY <1>1, <1>2
  <2>2. rank(L + n) = n
    <3>1. PICK k \in missing : k = L + n
      BY <2>1
    <3>2. rank(k) = k - L
      BY <1>5
    <3>3. k - L = n
      BY <1>1, <3>1
    <3> QED BY <3>1, <3>2, <3>3
  <2>3. ASSUME NEW k \in missing, rank(k) = n
        PROVE  k = L + n
    <3>1. k - L = n
      BY <1>5, <2>3
    <3>2. k \in Nat
      BY <1>1, <1>2
    <3> QED BY <1>1, <3>1, <3>2
  <2> QED BY <2>1, <2>2, <2>3
<1> QED BY <1>3, <1>4, <1>6 DEF After, L

\* An instance that applies one takes the next in order.
LEMMA AppliesNext ==
  ASSUME BootInv, NEW i \in Instances, bpc[i] = "apply", pending[i] # <<>>
  PROVE  LET L == Len(db.versions) IN
         /\ L \in Nat /\ L < Total /\ B!Applied(i) \in [table : BOOLEAN, versions : Seq(Nat)]
         /\ Len(B!Applied(i).versions) = L + 1
         /\ \A k \in 1 .. L + 1 : B!Applied(i).versions[k] = k
         /\ Tail(pending[i]) \in Seq(Nat) /\ Len(Tail(pending[i])) = Total - (L + 1)
         /\ \A k \in 1 .. Len(Tail(pending[i])) : Tail(pending[i])[k] = L + 1 + k
<1> DEFINE L == Len(db.versions)
           v == db.versions
           p == pending[i]
<1>1. /\ L \in Nat /\ Total \in Nat /\ v \in Seq(Nat) /\ p \in Seq(Nat) /\ p # <<>> /\ Len(p) \in Nat
      /\ \A k \in 1 .. L : v[k] = k
  BY ServicesAssumption DEF BootInv, BootTypes, Prefix
<1>2. Len(p) = Total - L /\ \A k \in 1 .. Len(p) : p[k] = L + k
  BY DEF BootInv, RestPending
<1>3. B!Applied(i) = [table |-> db.table, versions |-> Append(v, Head(p))] /\ db.table \in BOOLEAN
  <2>1. PICK a, h : a = db /\ h = Head(p)
    OBVIOUS
  <2>2. a \in [table : BOOLEAN, versions : Seq(Nat)]
    BY <2>1 DEF BootInv, BootTypes
  <2>3. [a EXCEPT !.versions = Append(@, h)] = [table |-> a.table, versions |-> Append(a.versions, h)]
    BY <2>2, SMTT(30)
  <2>4. B!Applied(i) = [a EXCEPT !.versions = Append(@, h)]
    BY <2>1 DEF B!Applied
  <2>5. a.table \in BOOLEAN
    BY <2>2, Zenon
  <2> QED BY <2>1, <2>3, <2>4, <2>5
<1>4. B!Applied(i).versions = Append(v, Head(p))
  BY <1>3
<1> HIDE DEF p, v
<1>5. Head(p) = L + 1 /\ Len(p) >= 1
  <2> HIDE DEF L
  <2>1. Len(p) >= 1 /\ Head(p) = p[1]
    BY <1>1
  <2>2. p[1] = L + 1
    BY <1>1, <1>2, <2>1
  <2> QED BY <2>1, <2>2
<1>6. /\ Append(v, Head(p)) \in Seq(Nat) /\ Len(Append(v, Head(p))) = L + 1
      /\ \A k \in 1 .. L + 1 : Append(v, Head(p))[k] = k
  BY <1>1, <1>5 DEF v
<1>7. /\ Tail(p) \in Seq(Nat) /\ Len(Tail(p)) = Len(p) - 1 /\ Len(p) - 1 = Total - (L + 1)
      /\ \A k \in 1 .. Len(p) - 1 : Tail(p)[k] = p[k + 1]
  <2>1. /\ Tail(p) \in Seq(Nat) /\ Len(Tail(p)) = Len(p) - 1
        /\ \A k \in 1 .. Len(p) - 1 : Tail(p)[k] = p[k + 1]
    BY <1>1
  <2>2. Len(p) - 1 = Total - (L + 1)
    <3> HIDE DEF L
    <3> QED BY <1>1, <1>2
  <2> QED BY <2>1, <2>2
<1>8. \A k \in 1 .. Len(p) - 1 : p[k + 1] = L + 1 + k
  <2>1. ASSUME NEW k \in 1 .. Len(p) - 1
        PROVE  k + 1 \in 1 .. Len(p) /\ L + (k + 1) = L + 1 + k
    <3> HIDE DEF L
    <3> QED BY <1>1
  <2> QED BY <1>2, <2>1
<1>9. L < Total
  BY <1>1, <1>2, <1>5
<1>10. /\ Tail(p) \in Seq(Nat) /\ Len(Tail(p)) = Total - (L + 1)
       /\ \A k \in 1 .. Len(Tail(p)) : Tail(p)[k] = L + 1 + k
  BY <1>7, <1>8
<1>11. B!Applied(i) \in [table : BOOLEAN, versions : Seq(Nat)]
  BY <1>3, <1>6
<1> HIDE DEF L
<1> QED BY <1>1, <1>4, <1>6, <1>9, <1>10, <1>11 DEF p, L

\* No process, nothing applied.
LEMMA BootBegins == B!Init => BootInv
<1> SUFFICES ASSUME B!Init PROVE BootInv
  OBVIOUS
<1>1. db.versions = <<>> /\ Len(db.versions) = 0 /\ \A i \in Instances : bpc[i] = "parse" /\ bexit[i] = "none"
  BY DEF B!Init, B!NoDatabase
<1>2. BootTypes
  <2>1. db \in [table : BOOLEAN, versions : Seq(Nat)]
    BY DEF B!Init, B!NoDatabase
  <2> QED BY <1>1, <2>1, ServicesAssumption DEF B!Init, BootTypes, BootPCs
<1>3. Prefix /\ RestPending /\ Through
  BY <1>1 DEF Prefix, RestPending, Through
<1>4. Holds
  BY <1>1 DEF Holds, B!Init
<1> QED BY <1>2, <1>3, <1>4 DEF BootInv

\* What one instance does leaves every other where it was,
Frame(i) ==
  \A j \in Instances \ {i} :
    /\ bpc'[j] = bpc[j] /\ pending'[j] = pending[j] /\ failed'[j] = failed[j]
    /\ bexit'[j] = bexit[j] /\ lingers'[j] = lingers[j]
    /\ lock = j => lock' = j

\* touches the versions only under its own lock, and only adds the next one,
Grows(i) ==
  /\ db'.versions = db.versions \/ lock = i
  /\ Prefix' /\ Len(db'.versions) >= Len(db.versions)

\* and leaves it where it may be.
Own(i) ==
  /\ bpc'[i] \in {"list", "apply"} => lock' = i
  /\ lingers'[i] # "none" => bpc'[i] = "exited"
  /\ bpc'[i] = "apply" => /\ Len(pending'[i]) = Total - Len(db'.versions)
                          /\ \A k \in 1 .. Len(pending'[i]) : pending'[i][k] = Len(db'.versions) + k
  /\ (bpc'[i] \in {"unlock", "close"} /\ ~failed'[i]) \/ bpc'[i] = "after" \/ bexit'[i] = "success" =>
       Len(db'.versions) = Total

\* That is all it takes for the others to hold too.
LEMMA OthersHold ==
  ASSUME BootInv, BootTypes', NEW i \in Instances, Frame(i), Grows(i), Own(i)
  PROVE  BootInv'
<1>0. Total \in Nat /\ Len(db.versions) \in Nat /\ Len(db.versions) <= Total
      /\ Len(db'.versions) \in Nat /\ Len(db'.versions) <= Total /\ Len(db'.versions) >= Len(db.versions)
  BY ServicesAssumption DEF BootInv, BootTypes, Grows
<1>1. Holds'
  <2> SUFFICES ASSUME NEW j \in Instances
               PROVE  /\ bpc'[j] \in {"list", "apply"} => lock' = j
                      /\ lingers'[j] # "none" => bpc'[j] = "exited"
    BY DEF Holds
  <2>1. CASE j = i
    BY <2>1 DEF Own
  <2>2. CASE j # i
    BY <2>2 DEF BootInv, Holds, Frame
  <2> QED BY <2>1, <2>2
<1>2. RestPending'
  <2> SUFFICES ASSUME NEW j \in Instances, bpc'[j] = "apply"
               PROVE  /\ Len(pending'[j]) = Total - Len(db'.versions)
                      /\ \A k \in 1 .. Len(pending'[j]) : pending'[j][k] = Len(db'.versions) + k
    BY DEF RestPending
  <2>1. CASE j = i
    BY <2>1 DEF Own
  <2>2. CASE j # i
    <3>1. bpc[j] = "apply" /\ lock = j /\ pending'[j] = pending[j]
      BY <2>2 DEF BootInv, Holds, Frame
    <3>2. db'.versions = db.versions
      BY <2>2, <3>1 DEF Grows
    <3> QED BY <3>1, <3>2 DEF BootInv, RestPending
  <2> QED BY <2>1, <2>2
<1>3. Through'
  <2> SUFFICES ASSUME NEW j \in Instances,
                      (bpc'[j] \in {"unlock", "close"} /\ ~failed'[j]) \/ bpc'[j] = "after" \/ bexit'[j] = "success"
               PROVE  Len(db'.versions) = Total
    BY DEF Through
  <2>1. CASE j = i
    BY <2>1 DEF Own
  <2>2. CASE j # i
    <3>1. Len(db.versions) = Total
      BY <2>2 DEF BootInv, Through, Frame
    <3> QED BY <1>0, <3>1
  <2> QED BY <2>1, <2>2
<1> QED BY <1>1, <1>2, <1>3 DEF BootInv, Grows

\* What leaves the database alone adds nothing.
LEMMA SameVersions ==
  ASSUME BootInv, NEW i \in Instances, db'.versions = db.versions
  PROVE  Grows(i)
BY DEF BootInv, BootTypes, Grows, Prefix

\* A migration under way when its instance fails or dies is applied or not.
LEMMA MayCommit ==
  ASSUME BootInv, NEW i \in Instances, bpc[i] = "apply", pending[i] # <<>>, db' \in {db, B!Applied(i)}
  PROVE  /\ Grows(i) /\ db' \in [table : BOOLEAN, versions : Seq(Nat)]
         /\ Len(db'.versions) <= Total /\ Len(db.versions) < Total
<1> DEFINE L == Len(db.versions)
           v == B!Applied(i).versions
<1>1. /\ L \in Nat /\ L < Total /\ B!Applied(i) \in [table : BOOLEAN, versions : Seq(Nat)]
      /\ Len(v) = L + 1 /\ \A k \in 1 .. L + 1 : v[k] = k
  BY AppliesNext
<1>2. Total \in Nat /\ lock = i /\ db \in [table : BOOLEAN, versions : Seq(Nat)] /\ L <= Total
  BY ServicesAssumption DEF BootInv, BootTypes, Holds
<1>3. CASE db' = db
  BY <1>1, <1>2, <1>3, SameVersions
<1>4. CASE db' = B!Applied(i)
  <2>1. db'.versions = v /\ Len(db.versions) = L
    BY <1>4
  <2> HIDE DEF L, v
  <2>2. Prefix' /\ Len(db'.versions) >= L /\ Len(db'.versions) <= Total
    BY <1>1, <1>2, <2>1 DEF Prefix
  <2> QED BY <1>1, <1>2, <1>4, <2>1, <2>2 DEF Grows
<1> QED BY <1>3, <1>4

\* The session that a dead instance leaves, by where it was.
PickLinger(i) ==
  lingers' = [lingers EXCEPT ![i] = CASE bpc[i] = "lock" -> "waiting"
                                      [] lock = i        -> "open"
                                      [] OTHER           -> "none"]

\* Every step of an instance, and every end of a session, keeps the order.
LEMMA BootMoves ==
  ASSUME BootInv, NEW i \in Instances,
         B!Step(i) \/ B!Crash(i) \/ B!GrantedToDead(i) \/ B!SessionReaped(i) \/ B!Restart(i)
  PROVE  BootInv'
<1>0. /\ Total \in Nat /\ Len(db.versions) \in Nat /\ BootTypes /\ Prefix
      /\ db \in [table : BOOLEAN, versions : Seq(Nat)] /\ "free" \notin Instances
      /\ bpc[i] \in {"list", "apply"} => lock = i
      /\ lingers[i] # "none" => bpc[i] = "exited"
      /\ (bpc[i] \in {"unlock", "close"} /\ ~failed[i]) \/ bpc[i] = "after" \/ bexit[i] = "success" =>
           Len(db.versions) = Total
  BY ServicesAssumption DEF BootInv, BootTypes, Holds, Through
<1> USE DEF B!Goto, B!Exit, B!Fails, B!Unlocked
<1>1. CASE B!Parse(i)
  <2>1. BootTypes' /\ Frame(i)
    BY <1>0, <1>1 DEF B!Parse, BootTypes, BootPCs, Frame
  <2>2. Own(i)
    BY <1>0, <1>1 DEF B!Parse, Own, BootTypes
  <2> QED BY <1>1, <2>1, <2>2, OthersHold, SameVersions DEF B!Parse
<1>2. CASE B!CountBefore(i)
  <2>1. BootTypes' /\ Frame(i)
    BY <1>0, <1>2 DEF B!CountBefore, BootTypes, BootPCs, Frame
  <2>2. Own(i)
    BY <1>0, <1>2 DEF B!CountBefore, Own, BootTypes
  <2> QED BY <1>2, <2>1, <2>2, OthersHold, SameVersions DEF B!CountBefore
<1>3. CASE B!OpenSingleConnection(i)
  <2>1. BootTypes' /\ Frame(i)
    BY <1>0, <1>3 DEF B!OpenSingleConnection, BootTypes, BootPCs, Frame
  <2>2. Own(i)
    BY <1>0, <1>3 DEF B!OpenSingleConnection, Own, BootTypes
  <2> QED BY <1>3, <2>1, <2>2, OthersHold, SameVersions DEF B!OpenSingleConnection
<1>4. CASE B!AcquireLock(i)
  <2>1. BootTypes' /\ Frame(i)
    BY <1>0, <1>4 DEF B!AcquireLock, BootTypes, BootPCs, Frame
  <2>2. Own(i)
    BY <1>0, <1>4 DEF B!AcquireLock, Own, BootTypes
  <2> QED BY <1>4, <2>1, <2>2, OthersHold, SameVersions DEF B!AcquireLock
<1>5. CASE B!ReleaseMigrationLock(i)
  <2>1. BootTypes' /\ Frame(i)
    BY <1>0, <1>5 DEF B!ReleaseMigrationLock, BootTypes, BootPCs, Frame
  <2>2. Own(i)
    BY <1>0, <1>5 DEF B!ReleaseMigrationLock, Own, BootTypes
  <2> QED BY <1>5, <2>1, <2>2, OthersHold, SameVersions DEF B!ReleaseMigrationLock
<1>6. CASE B!CloseConnection(i)
  <2>1. BootTypes'
    <3>1. pending' \in [Instances -> Seq(Nat)]
      BY <1>0, <1>6 DEF B!CloseConnection, BootTypes
    <3> QED BY <1>0, <1>6, <3>1 DEF B!CloseConnection, BootTypes, BootPCs
  <2>3. Frame(i)
    BY <1>0, <1>6 DEF B!CloseConnection, BootTypes, Frame
  <2>2. Own(i)
    BY <1>0, <1>6 DEF B!CloseConnection, Own, BootTypes
  <2> QED BY <1>6, <2>1, <2>2, <2>3, OthersHold, SameVersions DEF B!CloseConnection
<1>7. CASE B!CountAfter(i)
  <2>1. BootTypes' /\ Frame(i)
    BY <1>0, <1>7 DEF B!CountAfter, BootTypes, BootPCs, Frame
  <2>2. Own(i)
    BY <1>0, <1>7 DEF B!CountAfter, Own, BootTypes
  <2> QED BY <1>7, <2>1, <2>2, OthersHold, SameVersions DEF B!CountAfter
<1>8. CASE B!GrantedToDead(i)
  <2>1. BootTypes' /\ Frame(i)
    BY <1>0, <1>8 DEF B!GrantedToDead, B!local, BootTypes, BootPCs, Frame
  <2>2. Own(i)
    BY <1>0, <1>8 DEF B!GrantedToDead, B!local, Own, BootTypes
  <2> QED BY <1>8, <2>1, <2>2, OthersHold, SameVersions DEF B!GrantedToDead
<1>9. CASE B!SessionReaped(i)
  <2>1. BootTypes' /\ Frame(i)
    BY <1>0, <1>9 DEF B!SessionReaped, B!local, BootTypes, BootPCs, Frame
  <2>2. Own(i)
    BY <1>0, <1>9 DEF B!SessionReaped, B!local, Own, BootTypes
  <2> QED BY <1>9, <2>1, <2>2, OthersHold, SameVersions DEF B!SessionReaped
<1>10. CASE B!Restart(i)
  <2>1. BootTypes' /\ Frame(i)
    BY <1>0, <1>10 DEF B!Restart, BootTypes, BootPCs, Frame
  <2>2. Own(i)
    BY <1>0, <1>10 DEF B!Restart, Own, BootTypes
  <2> QED BY <1>10, <2>1, <2>2, OthersHold, SameVersions DEF B!Restart
<1>11. CASE B!ListApplied(i)
  <2>0. bpc[i] = "list" /\ lock = i
    BY <1>0, <1>11 DEF B!ListApplied
  <2>1. CASE db' = [db EXCEPT !.table = TRUE] /\ pending' = [pending EXCEPT ![i] = B!Pending(db.versions)]
             /\ bpc' = [bpc EXCEPT ![i] = "apply"] /\ UNCHANGED <<failed, deaths>>
    <3> DEFINE L == Len(db.versions)
    <3>1. /\ L <= Total /\ After(L, Total) \in Seq(Nat) /\ Len(After(L, Total)) = Total - L
          /\ \A k \in 1 .. Total - L : After(L, Total)[k] = L + k
      <4>1. L \in Nat /\ Total \in Nat /\ L <= Total
        BY <1>0 DEF BootTypes
      <4> HIDE DEF L
      <4> QED BY <4>1 DEF After
    <3>2. pending' = [pending EXCEPT ![i] = After(L, Total)]
      BY <1>0, <2>1, PendingIsRest
    <3>3. db' \in [table : BOOLEAN, versions : Seq(Nat)] /\ db'.versions = db.versions
      BY <1>0, <2>1
    <3> HIDE DEF L
    <3>4. /\ UNCHANGED <<lock, lingers, dsn, before, bexit, failed>>
          /\ bpc' = [bpc EXCEPT ![i] = "apply"]
      BY <1>11, <2>1 DEF B!ListApplied
    <3>5. BootTypes'
      <4>1. pending' \in [Instances -> Seq(Nat)]
        BY <1>0, <3>1, <3>2 DEF BootTypes
      <4>2. Len(db'.versions) <= Total
        BY <3>1, <3>3 DEF L
      <4> QED BY <1>0, <3>3, <3>4, <4>1, <4>2 DEF BootTypes, BootPCs
    <3>6. Frame(i)
      BY <1>0, <3>2, <3>4 DEF BootTypes, Frame
    <3>7. Own(i)
      <4>1. pending'[i] = After(L, Total) /\ bpc'[i] = "apply" /\ lock' = i /\ lingers'[i] = lingers[i]
            /\ bexit'[i] = bexit[i]
        BY <1>0, <2>0, <3>2, <3>4 DEF BootTypes
      <4>2. Len(db'.versions) = L
        BY <3>3 DEF L
      <4>3. lingers'[i] # "none" => bpc'[i] = "exited"
        BY <1>0, <2>0, <4>1
      <4>4. bexit'[i] = "success" => L = Total
        BY <1>0, <4>1 DEF L
      <4> QED BY <3>1, <4>1, <4>2, <4>3, <4>4 DEF Own
    <3> QED BY <3>3, <3>5, <3>6, <3>7, OthersHold, SameVersions
  <2>2. CASE B!MigrationError(i) /\ UNCHANGED <<db, pending>>
    <3>1. BootTypes' /\ Frame(i)
      BY <1>0, <1>11, <2>2 DEF B!ListApplied, B!MigrationError, BootTypes, BootPCs, Frame
    <3>2. Own(i)
      BY <1>0, <1>11, <2>2 DEF B!ListApplied, B!MigrationError, Own, BootTypes
    <3> QED BY <2>2, <3>1, <3>2, OthersHold, SameVersions
  <2> QED BY <1>11, <2>1, <2>2 DEF B!ListApplied
<1>12. CASE B!ApplyOne(i)
  <2>0. bpc[i] = "apply" /\ lock = i /\ UNCHANGED <<lock, lingers, dsn, before, bexit>>
    BY <1>0, <1>12 DEF B!ApplyOne
  <2>1. CASE pending[i] = <<>>
    <3>1. bpc' = [bpc EXCEPT ![i] = "unlock"] /\ UNCHANGED <<db, pending, failed, deaths>>
      BY <1>12, <2>1 DEF B!ApplyOne
    <3>2. Len(db.versions) = Total
      <4>1. Len(pending[i]) = Total - Len(db.versions) /\ Len(pending[i]) = 0
        BY <2>0, <2>1 DEF BootInv, RestPending
      <4> QED BY <1>0, <4>1
    <3>3. BootTypes' /\ Frame(i)
      BY <1>0, <2>0, <3>1 DEF BootTypes, BootPCs, Frame
    <3>4. Own(i)
      BY <1>0, <2>0, <3>1, <3>2 DEF Own, BootTypes
    <3> QED BY <3>1, <3>3, <3>4, OthersHold, SameVersions
  <2>2. CASE pending[i] # <<>> /\ db' = B!Applied(i) /\ pending' = [pending EXCEPT ![i] = Tail(@)]
             /\ UNCHANGED <<bpc, failed, deaths>>
    <3> DEFINE L == Len(db.versions)
               v == B!Applied(i).versions
               t == Tail(pending[i])
    <3>1. /\ L \in Nat /\ L < Total /\ B!Applied(i) \in [table : BOOLEAN, versions : Seq(Nat)]
          /\ Len(v) = L + 1 /\ \A k \in 1 .. L + 1 : v[k] = k
          /\ t \in Seq(Nat) /\ Len(t) = Total - (L + 1)
          /\ \A k \in 1 .. Len(t) : t[k] = L + 1 + k
      BY <2>0, <2>2, AppliesNext
    <3>2. pending' = [pending EXCEPT ![i] = t] /\ db'.versions = v /\ Len(db.versions) = L
      BY <2>2
    <3> HIDE DEF L, v, t
    <3>3. BootTypes' /\ Frame(i)
      <4>1. L + 1 <= Total
        BY <1>0, <3>1
      <4>2. pending' \in [Instances -> Seq(Nat)]
        BY <1>0, <3>1, <3>2 DEF BootTypes
      <4>3. db' \in [table : BOOLEAN, versions : Seq(Nat)] /\ Len(db'.versions) <= Total
        BY <2>2, <3>1, <3>2, <4>1
      <4>4. UNCHANGED <<lock, lingers, bpc, failed, bexit>>
        BY <2>0, <2>2
      <4>5. BootTypes'
        BY <1>0, <4>2, <4>3, <4>4 DEF BootTypes
      <4>6. Frame(i)
        BY <1>0, <3>2, <4>4 DEF BootTypes, Frame
      <4> QED BY <4>5, <4>6
    <3>4. Grows(i)
      <4>1. Prefix'
        BY <3>1, <3>2 DEF Prefix
      <4> QED BY <2>0, <3>1, <3>2, <4>1 DEF Grows
    <3>5. Own(i)
      <4>1. pending'[i] = t /\ Len(db'.versions) = L + 1 /\ bpc'[i] = "apply" /\ lock' = i
            /\ lingers'[i] = lingers[i] /\ bexit'[i] = bexit[i]
        BY <1>0, <2>0, <2>2, <3>1, <3>2 DEF BootTypes
      <4>2. bexit[i] # "success"
        <5>1. L # Total
          BY <1>0, <3>1
        <5> QED BY <1>0, <3>2, <5>1
      <4>3. lingers[i] = "none"
        BY <1>0, <2>0
      <4> QED BY <3>1, <4>1, <4>2, <4>3 DEF Own
    <3> QED BY <3>3, <3>4, <3>5, OthersHold
  <2>3. CASE pending[i] # <<>> /\ B!MigrationError(i) /\ db' \in {db, B!Applied(i)} /\ UNCHANGED pending
    <3>1. /\ Grows(i) /\ db' \in [table : BOOLEAN, versions : Seq(Nat)] /\ Len(db'.versions) <= Total
          /\ Len(db.versions) < Total
      BY <2>0, <2>3, MayCommit
    <3>2. /\ failed' = [failed EXCEPT ![i] = TRUE] /\ bpc' = [bpc EXCEPT ![i] = "unlock"]
          /\ UNCHANGED <<lock, lingers, bexit, pending>>
      BY <2>0, <2>3 DEF B!MigrationError
    <3>3. BootTypes' /\ Frame(i)
      BY <1>0, <3>1, <3>2 DEF BootTypes, BootPCs, Frame
    <3>4. Own(i)
      <4>1. /\ bpc'[i] = "unlock" /\ failed'[i] = TRUE /\ lingers'[i] = lingers[i] /\ bexit'[i] = bexit[i]
        BY <1>0, <3>2 DEF BootTypes
      <4>2. bexit[i] # "success" /\ lingers[i] = "none"
        BY <1>0, <2>0, <3>1
      <4> QED BY <4>1, <4>2 DEF Own
    <3> QED BY <3>1, <3>3, <3>4, OthersHold
  <2> QED BY <1>12, <2>1, <2>2, <2>3 DEF B!ApplyOne
<1>13. CASE B!Crash(i)
  <2>1. /\ bpc' = [bpc EXCEPT ![i] = "exited"] /\ bexit' = [bexit EXCEPT ![i] = "failure"]
        /\ UNCHANGED <<lock, dsn, before, pending, failed>>
        /\ PickLinger(i)
    BY <1>13 DEF B!Crash, PickLinger
  <2>2. lingers' \in [Instances -> {"none", "waiting", "open"}]
    BY <1>0, <2>1 DEF BootTypes, PickLinger
  <2>3. /\ Grows(i) /\ db' \in [table : BOOLEAN, versions : Seq(Nat)] /\ Len(db'.versions) <= Total
    <3>1. CASE UNCHANGED db
      BY <1>0, <3>1, SameVersions DEF BootTypes
    <3>2. CASE bpc[i] = "apply" /\ pending[i] # <<>> /\ db' = B!Applied(i)
      BY <1>0, <3>2, MayCommit
    <3> QED BY <1>13, <3>1, <3>2 DEF B!Crash
  <2>4. BootTypes' /\ Frame(i)
    BY <1>0, <2>1, <2>2, <2>3 DEF BootTypes, BootPCs, Frame, PickLinger
  <2>5. Own(i)
    BY <1>0, <2>1 DEF BootTypes, Own
  <2> QED BY <2>3, <2>4, <2>5, OthersHold
<1> QED BY <1>1, <1>2, <1>3, <1>4, <1>5, <1>6, <1>7, <1>8, <1>9, <1>10, <1>11, <1>12, <1>13 DEF B!Step

\* A step of another part leaves it all alone.
LEMMA BootStutters == BootInv /\ UNCHANGED bootVars => BootInv'
<1> SUFFICES ASSUME BootInv, UNCHANGED bootVars PROVE BootInv'
  OBVIOUS
<1> QED BY DEF bootVars, BootInv, BootTypes, Prefix, Holds, RestPending, Through

\* Whatever boots, dies or lingers.
LEMMA BootHolds == Spec => []BootInv
<1>1. Init => BootInv
  BY BootBegins DEF Init
<1>2. BootInv /\ [Next]_vars => BootInv'
  <2> SUFFICES ASSUME BootInv, [Next]_vars PROVE BootInv'
    OBVIOUS
  <2>1. CASE InBoot(B!Next)
    <3>1. PICK i \in Instances : B!Step(i) \/ B!Crash(i) \/ B!GrantedToDead(i) \/ B!SessionReaped(i) \/ B!Restart(i)
      BY <2>1 DEF InBoot, B!Next
    <3> QED BY <3>1, BootMoves
  <2>2. CASE UNCHANGED bootVars
    BY <2>2, BootStutters
  <2> QED BY <2>1, <2>2 DEF Next, InMatches, InSweep, InPool, vars
<1> QED BY <1>1, <1>2, PTL DEF Spec

\* However many instances boot at once, and wherever one fails or dies: the
\* migrations that took effect are the first ones, each once and in order
\* (migrate.go's advisory lock over goose's version table).
THEOREM MigrationsInOrder == Spec => []AppliedInOrder
<1>1. BootInv => AppliedInOrder
  <2> SUFFICES ASSUME BootInv PROVE AppliedInOrder
    OBVIOUS
  <2> DEFINE L == Len(db.versions)
  <2>1. L \in Nat /\ L <= Total /\ Total \in Nat /\ \A k \in 1 .. L : db.versions[k] = k
    BY ServicesAssumption DEF BootInv, BootTypes, Prefix
  <2>2. db.versions = [k \in 1 .. L |-> db.versions[k]]
    BY DEF BootInv, BootTypes
  <2> HIDE DEF L
  <2>3. SubSeq(B!Versions, 1, L) = [k \in 1 .. L |-> k]
    BY <2>1 DEF B!Versions
  <2> QED BY <2>1, <2>2, <2>3 DEF AppliedInOrder, B!AppliedInOrder, L
<1> QED BY <1>1, BootHolds, PTL

\* A process that exits with success leaves the whole schema behind, however
\* the others fared (run's counts, before and after, of what Migrate did).
THEOREM SuccessMeansMigrated == Spec => []MigratedInFull
<1>1. BootInv => MigratedInFull
  <2> SUFFICES ASSUME BootInv, NEW i \in Instances, bexit[i] = "success" PROVE db.versions = B!Versions
    BY DEF MigratedInFull, B!SuccessIsComplete
  <2>1. Len(db.versions) = Total /\ db.versions \in Seq(Nat) /\ \A k \in 1 .. Len(db.versions) : db.versions[k] = k
    BY DEF BootInv, BootTypes, Prefix, Through
  <2> QED BY <2>1 DEF B!Versions
<1> QED BY <1>1, BootHolds, PTL

-------------------------------------------------------------------------------
(* Matches: what a transaction holds, and what a reader can find.            *)

Whos     == UNION {{r[i] : i \in DOMAIN r} : r \in Rosters}
Rows     == Seq([seat : Nat, who : Whos, hash : Nat])
Payloads == [v : {1}, config : Configs] \cup [v : {0}]
Answered == [kind : {"none", "error"}] \cup [kind : {"created"}, id : Nat, tokens : Seq(Nat)]
Told     == [kind : {"none", "absent"}] \cup [kind : {"loaded"}, cfg : Configs, roster : Rosters]

MatchTypes ==
  /\ begun \in Nat /\ drawn \in Nat
  /\ asked \in [1 .. begun -> [cfg : Configs, roster : Rosters]]
  /\ stored \in [DOMAIN stored -> [payload : Payloads, rows : Rows]] /\ DOMAIN stored \subseteq 1 .. begun
  /\ creator \in [Creators -> [pc : {"idle", "match", "seats"}, cfg : Configs \cup {"none"},
                               roster : Rosters \cup {<<>>}, tx : [id : Nat, payload : Payloads, rows : Rows],
                               tokens : Seq(Nat), answer : Answered]]
  /\ loader \in [Loaders -> [pc : {"idle", "seats"}, id : Int, payload : Payloads, answer : Told]]

\* A stored match is one that was let in, whole.
Whole(id) ==
  LET a == asked[id] r == stored[id].rows IN
  /\ ~ M!Refuses(a.cfg, a.roster)
  /\ stored[id].payload = [v |-> 1, config |-> a.cfg]
  /\ Len(r) = Len(a.roster) /\ \A i \in 1 .. Len(r) : r[i].seat = i - 1 /\ r[i].who = a.roster[i]
StoredFit == \A id \in DOMAIN stored : Whole(id)

\* What has been written of an open match is the beginning of what was asked.
Open(k) ==
  /\ k.pc # "idle" => k.cfg \in Configs /\ k.roster \in Rosters /\ ~ M!Refuses(k.cfg, k.roster)
  /\ k.pc = "match" => k.tokens = <<>>
  /\ k.pc = "seats" =>
       /\ k.tx.id \in 1 .. begun /\ k.tx.id \notin DOMAIN stored
       /\ asked[k.tx.id] = [cfg |-> k.cfg, roster |-> k.roster]
       /\ k.tx.payload = [v |-> 1, config |-> k.cfg]
       /\ Len(k.tx.rows) <= Len(k.roster) /\ Len(k.tokens) = Len(k.tx.rows)
       /\ \A i \in 1 .. Len(k.tx.rows) :
            /\ k.tx.rows[i].seat = i - 1 /\ k.tx.rows[i].who = k.roster[i]
            /\ k.tx.rows[i].hash = k.tokens[i]
OpenFit == \A c \in Creators : Open(creator[c])

\* No two matches have a token in common, and every token was drawn.
Apart(r, s) == \A i \in 1 .. Len(r) : \A j \in 1 .. Len(s) : r[i].hash # s[j].hash
Drawn(r) == \A i \in 1 .. Len(r) : r[i].hash < drawn
Stored(id) == stored[id].rows
Writing(c) == creator[c].pc = "seats"
Written(c) == creator[c].tx.rows
TokensApart ==
  /\ \A id \in DOMAIN stored : /\ Drawn(Stored(id))
                               /\ \A jd \in DOMAIN stored \ {id} : Apart(Stored(id), Stored(jd))
                               /\ \A c \in Creators : Writing(c) => Apart(Written(c), Stored(id))
  /\ \A c \in Creators : Writing(c) =>
       /\ Drawn(Written(c))
       /\ \A d \in Creators \ {c} : Writing(d) => /\ creator[c].tx.id # creator[d].tx.id
                                                  /\ Apart(Written(c), Written(d))

\* A creator that was answered has the tokens of a stored match.
AnswersFit ==
  \A c \in Creators : LET a == creator[c].answer IN
    a.kind = "created" => /\ a.id \in DOMAIN stored
                          /\ Len(a.tokens) = Len(Stored(a.id))
                          /\ \A i \in 1 .. Len(a.tokens) : a.tokens[i] = Stored(a.id)[i].hash

\* A loader between its statements has the row of a stored match.
LoadersFit ==
  \A l \in Loaders : LET k == loader[l] IN
    /\ k.pc = "seats" => k.id \in DOMAIN stored /\ k.payload = stored[k.id].payload
    /\ k.answer.kind = "loaded" => /\ k.id \in 1 .. begun
                                   /\ asked[k.id] = [cfg |-> k.answer.cfg, roster |-> k.answer.roster]

MatchInv == MatchTypes /\ StoredFit /\ OpenFit /\ TokensApart /\ AnswersFit /\ LoadersFit

\* Nothing asked, nothing stored.
LEMMA MatchesBegin == M!Init => MatchInv
<1> SUFFICES ASSUME M!Init PROVE MatchInv
  OBVIOUS
<1>1. /\ stored = <<>> /\ asked = <<>> /\ begun = 0 /\ drawn = 0 /\ DOMAIN stored = {} /\ DOMAIN asked = {}
      /\ \A c \in Creators : /\ creator[c].pc = "idle" /\ creator[c].answer.kind = "none"
      /\ \A l \in Loaders : loader[l].pc = "idle" /\ loader[l].answer.kind = "none"
  BY DEF M!Init, M!Idle, M!IdleLoader, M!NoAnswer
<1>2. MatchTypes
  <2>1. asked \in [1 .. 0 -> [cfg : Configs, roster : Rosters]]
    BY <1>1
  <2>2. stored \in [DOMAIN stored -> [payload : Payloads, rows : Rows]]
    BY <1>1
  <2>3. M!Idle \in [pc : {"idle", "match", "seats"}, cfg : Configs \cup {"none"},
                     roster : Rosters \cup {<<>>}, tx : [id : Nat, payload : Payloads, rows : Rows],
                     tokens : Seq(Nat), answer : Answered]
    <3>1. <<>> \in Rows /\ <<>> \in Seq(Nat) /\ [v |-> 0] \in Payloads /\ [kind |-> "none"] \in Answered
      BY DEF Rows, Payloads, Answered
    <3> QED BY <3>1 DEF M!Idle, M!NoTx, M!NoAnswer
  <2>4. M!IdleLoader \in [pc : {"idle", "seats"}, id : Int, payload : Payloads, answer : Told]
    <3>1. [v |-> 0] \in Payloads /\ [kind |-> "none"] \in Told
      BY DEF Payloads, Told
    <3> QED BY <3>1 DEF M!IdleLoader, M!NoAnswer
  <2> QED BY <1>1, <2>1, <2>2, <2>3, <2>4 DEF M!Init, MatchTypes
<1>3. StoredFit /\ OpenFit /\ TokensApart /\ AnswersFit /\ LoadersFit
  BY <1>1 DEF StoredFit, OpenFit, Open, TokensApart, Writing, AnswersFit, LoadersFit
<1> QED BY <1>2, <1>3 DEF MatchInv

Creator == [pc : {"idle", "match", "seats"}, cfg : Configs \cup {"none"}, roster : Rosters \cup {<<>>},
            tx : [id : Nat, payload : Payloads, rows : Rows], tokens : Seq(Nat), answer : Answered]

\* What a sequence is of.
LEMMA ElementOf ==
  ASSUME NEW T, NEW s \in Seq(T), NEW i \in 1 .. Len(s)
  PROVE  s[i] \in T
OBVIOUS

\* A creator is its fields.
LEMMA CreatorRecord ==
  ASSUME MatchTypes, NEW c \in Creators
  PROVE  creator[c] = [pc |-> creator[c].pc, cfg |-> creator[c].cfg, roster |-> creator[c].roster,
                       tx |-> creator[c].tx, tokens |-> creator[c].tokens, answer |-> creator[c].answer]
BY DEF MatchTypes

\* The match a creator writes, as it may be: its tokens drawn, and nobody else's.
Fresh(c) ==
  Writing(c) =>
    /\ Drawn(Written(c))
    /\ \A id \in DOMAIN stored : Apart(Written(c), Stored(id))
    /\ \A d \in Creators \ {c} : Writing(d) => /\ creator[c].tx.id # creator[d].tx.id
                                               /\ Apart(Written(c), Written(d))

\* What one creator does to the match it writes keeps every other.
LEMMA CreatorMoves ==
  ASSUME MatchInv, NEW c \in Creators,
         creator'[c] \in Creator, creator' = [creator EXCEPT ![c] = creator'[c]],
         UNCHANGED <<stored, loader>>,
         drawn' \in Nat, drawn <= drawn', begun' \in Nat, begun <= begun',
         asked' \in [1 .. begun' -> [cfg : Configs, roster : Rosters]],
         \A id \in 1 .. begun : asked'[id] = asked[id],
         Open(creator[c])', Fresh(c)',
         creator'[c].answer.kind = "created" => creator'[c].answer = creator[c].answer
  PROVE  MatchInv'
<1>0. PICK k \in Creator : k = creator'[c]
  OBVIOUS
<1>1. /\ begun \in Nat /\ drawn \in Nat /\ DOMAIN stored \subseteq 1 .. begun
      /\ DOMAIN stored \subseteq 1 .. begun' /\ 1 .. begun \subseteq 1 .. begun'
      /\ creator' \in [Creators -> Creator] /\ creator'[c] = k
      /\ \A d \in Creators \ {c} : creator'[d] = creator[d]
  <2>1. begun \in Nat /\ drawn \in Nat /\ DOMAIN stored \subseteq 1 .. begun /\ creator \in [Creators -> Creator]
    BY DEF MatchInv, MatchTypes, Creator
  <2>2. creator' = [creator EXCEPT ![c] = k]
    BY <1>0
  <2> QED BY <2>1, <2>2
<1>2. MatchTypes'
  BY <1>1 DEF MatchInv, MatchTypes, Creator
<1>3. StoredFit'
  <2>1. \A id \in DOMAIN stored : asked'[id] = asked[id]
    BY <1>1
  <2> SUFFICES ASSUME NEW id \in DOMAIN stored PROVE Whole(id)'
    BY DEF StoredFit
  <2>2. Whole(id) /\ asked'[id] = asked[id] /\ stored'[id] = stored[id]
    BY <2>1 DEF MatchInv, StoredFit
  <2> QED BY <2>2 DEF Whole
<1>4. OpenFit'
  <2> SUFFICES ASSUME NEW d \in Creators, d # c PROVE Open(creator[d])'
    BY DEF OpenFit
  <2>1. Open(creator[d]) /\ creator'[d] = creator[d]
    BY <1>1 DEF MatchInv, OpenFit
  <2>2. creator[d].pc = "seats" => asked'[creator[d].tx.id] = asked[creator[d].tx.id]
    BY <2>1 DEF Open
  <2>3. creator[d].pc = "seats" => creator[d].tx.id \in 1 .. begun'
    BY <1>1, <2>1 DEF Open
  <2> QED BY <2>1, <2>2, <2>3 DEF Open
<1>5. TokensApart'
  <2>1. \A d \in Creators \ {c} : Writing(d)' = Writing(d) /\ Written(d)' = Written(d)
    BY <1>1 DEF Writing, Written
  <2>2. Writing(c)' = (k.pc = "seats") /\ Written(c)' = k.tx.rows
    BY <1>1 DEF Writing, Written
  <2>3. /\ \A id \in DOMAIN stored : Stored(id)' = Stored(id) /\ Stored(id) \in Rows
        /\ \A d \in Creators : Written(d) \in Rows
    BY DEF Stored, Written, MatchInv, MatchTypes
  <2>9. k.pc = "seats" =>
         /\ Drawn(Written(c))' /\ \A id \in DOMAIN stored : Apart(k.tx.rows, Stored(id))
         /\ \A d \in Creators \ {c} : Writing(d)' => k.tx.id # creator'[d].tx.id /\ Apart(k.tx.rows, Written(d)')
    <3>1. DOMAIN stored' = DOMAIN stored /\ \A id \in DOMAIN stored : Stored(id)' = Stored(id)
      BY <2>3
    <3>2. k.pc = "seats" =>
            /\ Drawn(Written(c))' /\ \A id \in DOMAIN stored' : Apart(Written(c), Stored(id))'
            /\ \A d \in Creators \ {c} : Writing(d)' => /\ creator'[c].tx.id # creator'[d].tx.id
                                                        /\ Apart(Written(c), Written(d))'
      BY <2>2 DEF Fresh
    <3>3. \A id : Apart(Written(c), Stored(id))' = Apart(k.tx.rows, Stored(id)')
      BY <2>2 DEF Apart
    <3>4. \A d : Apart(Written(c), Written(d))' = Apart(k.tx.rows, Written(d)')
      BY <2>2 DEF Apart
    <3> QED BY <1>1, <3>1, <3>2, <3>3, <3>4
  <2>4. ASSUME NEW r \in Rows, Drawn(r) PROVE Drawn(r)'
    <3>1. \A i \in 1 .. Len(r) : r[i].hash \in Nat /\ r[i].hash < drawn
      <4>1. \A i \in 1 .. Len(r) : r[i] \in [seat : Nat, who : Whos, hash : Nat]
        BY <2>4, ElementOf, Zenon DEF Rows
      <4>2. \A i \in 1 .. Len(r) : r[i].hash \in Nat
        BY <4>1
      <4> QED BY <2>4, <4>2 DEF Drawn
    <3> QED BY <1>1, <3>1 DEF Drawn
  <2>5. ASSUME NEW id \in DOMAIN stored
        PROVE  /\ Drawn(Stored(id))'
               /\ \A jd \in DOMAIN stored \ {id} : Apart(Stored(id), Stored(jd))
               /\ \A d \in Creators : Writing(d)' => Apart(Written(d)', Stored(id))
    <3>1. Drawn(Stored(id)) /\ \A jd \in DOMAIN stored \ {id} : Apart(Stored(id), Stored(jd))
      BY <2>5 DEF MatchInv, TokensApart
    <3>2. ASSUME NEW d \in Creators, Writing(d)' PROVE Apart(Written(d)', Stored(id))
      <4>1. CASE d = c
        <5>1. Writing(d)' = (k.pc = "seats") /\ Written(d)' = k.tx.rows
          BY <2>2, <4>1
        <5> QED BY <2>9, <3>2, <5>1
      <4>2. CASE d # c
        BY <2>1, <3>2, <4>2 DEF MatchInv, TokensApart
      <4> QED BY <4>1, <4>2
    <3>3. Drawn(Stored(id))'
      BY <2>3, <2>4, <3>1 DEF Drawn
    <3> QED BY <3>1, <3>2, <3>3
  <2>6. ASSUME NEW d \in Creators, Writing(d)'
        PROVE  /\ Drawn(Written(d))'
               /\ \A e \in Creators \ {d} : Writing(e)' => /\ creator'[d].tx.id # creator'[e].tx.id
                                                           /\ Apart(Written(d)', Written(e)')
    <3>1. CASE d = c
      <4>1. Drawn(Written(d))'
        BY <2>2, <2>6, <3>1 DEF Fresh, Drawn
      <4>2. ASSUME NEW e \in Creators \ {c}, Writing(e)'
            PROVE k.tx.id # creator'[e].tx.id /\ Apart(k.tx.rows, Written(e)')
        BY <2>2, <2>6, <2>9, <3>1, <4>2
      <4> QED BY <1>1, <2>2, <3>1, <4>1, <4>2
    <3>2. CASE d # c
      <4>1. /\ Writing(d) /\ Drawn(Written(d))
            /\ \A e \in Creators \ {d} : Writing(e) => /\ creator[d].tx.id # creator[e].tx.id
                                                       /\ Apart(Written(d), Written(e))
        BY <2>1, <2>6, <3>2 DEF MatchInv, TokensApart
      <4>2. Drawn(Written(d))'
        BY <2>1, <2>3, <2>4, <3>2, <4>1 DEF Drawn
      <4>3. ASSUME NEW e \in Creators \ {d}, Writing(e)'
            PROVE creator'[d].tx.id # creator'[e].tx.id /\ Apart(Written(d)', Written(e)')
        <5>1. CASE e # c
          BY <1>1, <2>1, <3>2, <4>1, <4>3, <5>1
        <5>2. CASE e = c
          <6>1. k.tx.id # creator'[d].tx.id /\ Apart(k.tx.rows, Written(d)')
            BY <2>2, <2>6, <2>9, <3>2, <4>3, <5>2
          <6> QED BY <1>1, <2>2, <5>2, <6>1 DEF Apart
        <5> QED BY <5>1, <5>2
      <4> QED BY <4>2, <4>3
    <3> QED BY <3>1, <3>2
  <2>7. DOMAIN stored' = DOMAIN stored
    OBVIOUS
  <2>8. \A id \in DOMAIN stored : /\ Stored(id)' = Stored(id)
    BY <2>3
  <2> QED BY <2>5, <2>6, <2>7, <2>8 DEF TokensApart
<1>6. AnswersFit'
  <2> SUFFICES ASSUME NEW d \in Creators, creator'[d].answer.kind = "created"
               PROVE  LET a == creator'[d].answer IN
                      /\ a.id \in DOMAIN stored /\ Len(a.tokens) = Len(stored[a.id].rows)
                      /\ \A i \in 1 .. Len(a.tokens) : a.tokens[i] = stored[a.id].rows[i].hash
    BY DEF AnswersFit, Stored
  <2>1. creator'[d].answer = creator[d].answer
    BY <1>0, <1>1
  <2> QED BY <2>1 DEF MatchInv, AnswersFit, Stored
<1>7. LoadersFit'
  BY <1>1 DEF MatchInv, LoadersFit
<1> QED BY <1>2, <1>3, <1>4, <1>5, <1>6, <1>7 DEF MatchInv

\* What is let in is encoded as itself.
LEMMA LetIn ==
  ASSUME NEW cfg, NEW roster, ~ M!Refuses(cfg, roster)
  PROVE  M!EncodeConfig(cfg) = [v |-> 1, config |-> cfg] /\ M!DecodeConfigV1(cfg) /\ M!Validate(cfg, Len(roster))
BY DEF M!Refuses, M!EncodeConfig

\* A creator starts idle.
LEMMA IdleIs == M!Idle \in Creator /\ M!Idle.pc = "idle"
<1>1. /\ <<>> \in Rows /\ <<>> \in Seq(Nat) /\ [v |-> 0] \in Payloads /\ [kind |-> "none"] \in Answered
  BY DEF Rows, Payloads, Answered
<1> QED BY <1>1 DEF M!Idle, M!NoTx, M!NoAnswer, Creator

\* An idle creator is one, whatever it was answered.
LEMMA IdleFits ==
  ASSUME NEW a \in Answered
  PROVE  [M!Idle EXCEPT !.answer = a] \in Creator /\ [M!Idle EXCEPT !.answer = a].pc = "idle"
         /\ [M!Idle EXCEPT !.answer = a].answer = a
BY IdleIs DEF Creator

\* A call begins: its match is refused, or is its own to write.
LEMMA BeginKeeps ==
  ASSUME MatchInv, NEW c \in Creators, NEW cfg \in Configs, NEW roster \in Rosters, M!Begin(c, cfg, roster)
  PROVE  MatchInv'
<1>0. /\ UNCHANGED <<stored, asked, begun, drawn, loader>>
      /\ begun \in Nat /\ drawn \in Nat /\ asked \in [1 .. begun -> [cfg : Configs, roster : Rosters]]
      /\ creator \in [Creators -> Creator]
  BY DEF MatchInv, MatchTypes, M!Begin, Creator
<1>1. CASE M!Refuses(cfg, roster)
  <2> DEFINE k == [M!Idle EXCEPT !.answer = [kind |-> "error"]]
  <2>1. [kind |-> "error"] \in Answered
    BY DEF Answered
  <2>2. k \in Creator /\ k.pc = "idle" /\ k.answer.kind = "error"
    BY <2>1, IdleFits
  <2>3. creator' = [creator EXCEPT ![c] = k]
    BY <1>1 DEF M!Begin
  <2> HIDE DEF k
  <2>4. creator'[c] = k
    BY <1>0, <2>3
  <2>5. Open(creator[c])'
    BY <2>2, <2>4 DEF Open
  <2>6. Fresh(c)'
    BY <2>2, <2>4 DEF Fresh, Writing
  <2>7. begun' \in Nat /\ begun <= begun' /\ drawn' \in Nat /\ drawn <= drawn'
    BY <1>0
  <2> QED BY <1>0, <2>2, <2>3, <2>4, <2>5, <2>6, <2>7, CreatorMoves
<1>2. CASE ~ M!Refuses(cfg, roster)
  <2> DEFINE k == [M!Idle EXCEPT !.pc = "match", !.cfg = cfg, !.roster = roster]
  <2>1. /\ k.pc = "match" /\ k.cfg = cfg /\ k.roster = roster /\ k.tokens = <<>> /\ k.answer = M!NoAnswer
    BY DEF M!Idle
  <2>2. k \in Creator
    BY IdleIs DEF Creator
  <2>3. creator' = [creator EXCEPT ![c] = k]
    BY <1>2 DEF M!Begin
  <2> HIDE DEF k
  <2>4. k.answer.kind = "none" /\ creator'[c] = k
    BY <1>0, <2>1, <2>3 DEF M!NoAnswer
  <2>5. Open(creator[c])'
    BY <1>2, <2>1, <2>4 DEF Open
  <2>6. Fresh(c)'
    BY <2>1, <2>4 DEF Fresh, Writing
  <2>7. begun' \in Nat /\ begun <= begun' /\ drawn' \in Nat /\ drawn <= drawn'
    BY <1>0
  <2> QED BY <1>0, <2>2, <2>3, <2>4, <2>5, <2>6, <2>7, CreatorMoves
<1> QED BY <1>1, <1>2

\* A rollback leaves what the other calls wrote.
LEMMA AbortKeeps ==
  ASSUME MatchInv, NEW c \in Creators, M!Abort(c)
  PROVE  MatchInv'
<1>0. /\ UNCHANGED <<stored, asked, begun, drawn, loader>>
      /\ begun \in Nat /\ drawn \in Nat /\ asked \in [1 .. begun -> [cfg : Configs, roster : Rosters]]
      /\ creator \in [Creators -> Creator]
  BY DEF MatchInv, MatchTypes, M!Abort, Creator
<1> DEFINE k == [M!Idle EXCEPT !.answer = [kind |-> "error"]]
<1>1. [kind |-> "error"] \in Answered
  BY DEF Answered
<1>2. k \in Creator /\ k.pc = "idle" /\ k.answer.kind = "error"
  BY <1>1, IdleFits
<1>3. creator' = [creator EXCEPT ![c] = k]
  BY DEF M!Abort
<1> HIDE DEF k
<1>4. creator'[c] = k
  BY <1>0, <1>3
<1>5. Open(creator[c])'
  BY <1>2, <1>4 DEF Open
<1>6. Fresh(c)'
  BY <1>2, <1>4 DEF Fresh, Writing
<1>7. begun' \in Nat /\ begun <= begun' /\ drawn' \in Nat /\ drawn <= drawn'
  BY <1>0
<1> QED BY <1>0, <1>2, <1>3, <1>4, <1>5, <1>6, <1>7, CreatorMoves

\* The row of the match is written inside the transaction.
LEMMA InsertMatchKeeps ==
  ASSUME MatchInv, NEW c \in Creators, M!InsertMatch(c)
  PROVE  MatchInv'
<1>o. PICK o : o = creator[c]
  OBVIOUS
<1>n. PICK n : n = begun + 1
  OBVIOUS
<1> DEFINE tx  == [id |-> n, payload |-> M!EncodeConfig(o.cfg), rows |-> <<>>]
           q   == [cfg |-> o.cfg, roster |-> o.roster]
<1>0. /\ UNCHANGED <<stored, drawn, loader>> /\ begun' = n /\ begun \in Nat /\ drawn \in Nat
      /\ n \in Nat /\ begun <= n /\ n \notin 1 .. begun /\ 1 .. n = (1 .. begun) \cup {n}
      /\ DOMAIN stored \subseteq 1 .. begun
  BY <1>n DEF MatchInv, MatchTypes, M!InsertMatch
<1>1. /\ o.pc = "match" /\ Open(o) /\ o \in Creator /\ creator \in [Creators -> Creator]
      /\ asked \in [1 .. begun -> [cfg : Configs, roster : Rosters]]
  BY <1>o DEF MatchInv, MatchTypes, OpenFit, M!InsertMatch, Creator
<1>2. /\ o.cfg \in Configs /\ o.roster \in Rosters /\ ~ M!Refuses(o.cfg, o.roster) /\ o.tokens = <<>>
  BY <1>1 DEF Open
<1>3. M!EncodeConfig(o.cfg) = [v |-> 1, config |-> o.cfg] /\ [v |-> 1, config |-> o.cfg] \in Payloads
  BY <1>2, LetIn DEF Payloads
<1>4. PICK k : k = [[o EXCEPT !.pc = "seats"] EXCEPT !.tx = tx]
  OBVIOUS
<1>5. creator' = [creator EXCEPT ![c] = k] /\ asked' = M!With(asked, n, q)
  BY <1>o, <1>n, <1>1, <1>4 DEF M!InsertMatch
<1>6. /\ k \in Creator /\ k.pc = "seats" /\ k.tx = tx /\ k.cfg = o.cfg /\ k.roster = o.roster
      /\ k.tokens = o.tokens /\ k.answer = o.answer
  <2>1. tx \in [id : Nat, payload : Payloads, rows : Rows]
    BY <1>0, <1>3 DEF Rows
  <2> HIDE DEF tx
  <2> QED BY <1>1, <1>4, <2>1 DEF Creator
<1>7. q \in [cfg : Configs, roster : Rosters]
  BY <1>2
<1> HIDE DEF q
<1>8. /\ asked' \in [1 .. n -> [cfg : Configs, roster : Rosters]] /\ asked'[n] = q
      /\ \A id \in 1 .. begun : asked'[id] = asked[id]
  <2>1. asked' = [z \in 1 .. n |-> IF z = n THEN q ELSE asked[z]]
    <3>1. DOMAIN asked = 1 .. begun
      BY <1>1
    <3> QED BY <1>0, <1>5, <3>1 DEF M!With
  <2>2. \A id \in 1 .. begun : id # n /\ id \in 1 .. n
    BY <1>0
  <2>3. n \in 1 .. n
    BY <1>0
  <2>4. \A z \in 1 .. n : z = n \/ asked[z] \in [cfg : Configs, roster : Rosters]
    BY <1>0, <1>1
  <2> QED BY <1>7, <2>1, <2>2, <2>3, <2>4
<1>9. /\ k.tx.id = n /\ k.tx.rows = <<>> /\ k.tx.payload = [v |-> 1, config |-> o.cfg]
  BY <1>3, <1>6
<1> HIDE DEF tx
<1>10. creator'[c] = k /\ n \in 1 .. n /\ n \notin DOMAIN stored
  BY <1>0, <1>1, <1>5
<1>11. Open(creator[c])'
  <2>1. Len(o.roster) \in Nat
    BY <1>2, ServicesAssumption
  <2>2. Len(k.tx.rows) <= Len(k.roster) /\ Len(k.tokens) = Len(k.tx.rows) /\ Len(k.tx.rows) = 0
    BY <1>2, <1>6, <1>9, <2>1
  <2>3. asked'[k.tx.id] = [cfg |-> k.cfg, roster |-> k.roster]
    BY <1>6, <1>8, <1>9 DEF q
  <2> QED BY <1>0, <1>2, <1>6, <1>9, <1>10, <2>2, <2>3 DEF Open
<1>12. Fresh(c)'
  <2>1. Len(k.tx.rows) = 0
    BY <1>9
  <2>2. \A d \in Creators \ {c} : creator'[d] = creator[d] /\ Open(creator[d])
    BY <1>1, <1>5 DEF MatchInv, OpenFit
  <2>3. ASSUME NEW d \in Creators \ {c}, creator'[d].pc = "seats"
        PROVE  n # creator'[d].tx.id
    <3>1. creator[d].pc = "seats" /\ Open(creator[d]) /\ creator'[d].tx.id = creator[d].tx.id
      BY <2>2, <2>3
    <3>2. creator[d].tx.id \in 1 .. begun
      BY <3>1 DEF Open
    <3> QED BY <1>0, <3>1, <3>2
  <2> QED BY <1>9, <1>10, <2>1, <2>3 DEF Fresh, Drawn, Apart, Writing, Written
<1>13. begun' \in Nat /\ begun <= begun' /\ drawn' \in Nat /\ drawn <= drawn'
       /\ asked' \in [1 .. begun' -> [cfg : Configs, roster : Rosters]]
  BY <1>0, <1>8
<1> QED BY <1>o, <1>0, <1>5, <1>6, <1>8, <1>10, <1>11, <1>12, <1>13, CreatorMoves

\* So is the row of each seat, with a token of its own.
LEMMA InsertSeatKeeps ==
  ASSUME MatchInv, NEW c \in Creators, M!InsertSeat(c)
  PROVE  MatchInv'
<1>o. PICK o : o = creator[c]
  OBVIOUS
<1>r. PICK rows : rows = o.tx.rows
  OBVIOUS
<1>n. PICK n : n = Len(rows) + 1
  OBVIOUS
<1>h. PICK h : h = drawn
  OBVIOUS
<1> DEFINE row == [seat |-> n - 1, who |-> o.roster[n], hash |-> h]
<1>0. /\ UNCHANGED <<stored, asked, begun, loader>> /\ drawn' = h + 1 /\ h \in Nat /\ drawn' \in Nat /\ h < drawn'
      /\ begun \in Nat /\ asked \in [1 .. begun -> [cfg : Configs, roster : Rosters]]
      /\ creator \in [Creators -> Creator] /\ o \in Creator
  BY <1>h, <1>o DEF MatchInv, MatchTypes, M!InsertSeat, Creator
<1>1. /\ o.pc = "seats" /\ Open(o) /\ rows \in Rows /\ Len(rows) \in Nat /\ n \in Nat /\ n <= Len(o.roster)
      /\ o.roster \in Rosters /\ Len(o.roster) \in Nat /\ o.tokens \in Seq(Nat) /\ Len(o.tokens) = Len(rows)
  <2>1. o.pc = "seats" /\ Open(o) /\ n <= Len(o.roster)
    BY <1>o, <1>r, <1>n DEF MatchInv, OpenFit, M!InsertSeat
  <2>2. rows \in Rows /\ o.tokens \in Seq(Nat)
    BY <1>0, <1>r DEF Creator
  <2>3. Len(rows) \in Nat
    BY <2>2 DEF Rows
  <2>4. o.roster \in Rosters /\ Len(o.tokens) = Len(rows)
    BY <1>r, <2>1 DEF Open
  <2>5. Len(o.roster) \in Nat
    BY <2>4, ServicesAssumption
  <2> QED BY <1>n, <2>1, <2>2, <2>3, <2>4, <2>5
<1>2. row \in [seat : Nat, who : Whos, hash : Nat] /\ row.seat = n - 1 /\ row.who = o.roster[n] /\ row.hash = h
  <2>1. n \in 1 .. Len(o.roster) /\ n - 1 \in Nat
    BY <1>n, <1>1
  <2>2. n \in DOMAIN o.roster
    BY <1>1, <2>1, ServicesAssumption
  <2>3. o.roster[n] \in Whos
    BY <1>1, <2>2 DEF Whos
  <2> QED BY <1>0, <2>1, <2>3
<1>3. PICK x : x = [o.tx EXCEPT !.rows = Append(rows, row)]
  OBVIOUS
<1> HIDE DEF row
<1>4. PICK k : k = [[o EXCEPT !.tx.rows = Append(rows, row)] EXCEPT !.tokens = Append(o.tokens, h)]
  OBVIOUS
<1>5. creator' = [creator EXCEPT ![c] = k]
  <2>1. creator' = [creator EXCEPT ![c] = [[o EXCEPT !.tx.rows = Append(rows, row)] EXCEPT !.tokens = Append(o.tokens, h)]]
    BY <1>o, <1>r, <1>n, <1>h, <1>0 DEF M!InsertSeat, row, Creator
  <2> QED BY <1>4, <2>1
<1>6. Append(rows, row) \in Rows /\ Append(o.tokens, h) \in Seq(Nat) /\ Len(Append(rows, row)) = n
      /\ Len(Append(o.tokens, h)) = n
  BY <1>0, <1>1, <1>2, <1>n DEF Rows
<1>7. /\ k \in Creator /\ k.pc = "seats" /\ k.tx.id = o.tx.id /\ k.tx.payload = o.tx.payload
      /\ k.tx.rows = Append(rows, row) /\ k.cfg = o.cfg /\ k.roster = o.roster
      /\ k.tokens = Append(o.tokens, h) /\ k.answer = o.answer
  BY <1>0, <1>1, <1>4, <1>6 DEF Creator
<1>8. creator'[c] = k /\ \A d \in Creators \ {c} : creator'[d] = creator[d]
  BY <1>0, <1>5
<1>9. Open(creator[c])'
  <2>1. \A i \in 1 .. n : /\ k.tx.rows[i].seat = i - 1 /\ k.tx.rows[i].who = k.roster[i]
                          /\ k.tx.rows[i].hash = k.tokens[i]
    <3> SUFFICES ASSUME NEW i \in 1 .. n
                 PROVE  /\ k.tx.rows[i].seat = i - 1 /\ k.tx.rows[i].who = k.roster[i]
                        /\ k.tx.rows[i].hash = k.tokens[i]
      OBVIOUS
    <3>1. CASE i = n
      <4>0. PICK t \in Seq(Nat) : t = o.tokens
        BY <1>1
      <4>2. n = Len(t) + 1
        BY <1>1, <1>n, <4>0
      <4>3. Append(t, h)[n] = h
        BY <4>2
      <4>4. Append(rows, row)[n] = row
        BY <1>1, <1>n DEF Rows
      <4>1. Append(rows, row)[n] = row /\ Append(o.tokens, h)[n] = h
        BY <4>0, <4>3, <4>4
      <4> QED BY <1>2, <1>7, <3>1, <4>1
    <3>2. CASE i # n
      <4>1. i \in 1 .. Len(rows)
        BY <1>1, <1>n, <3>2
      <4>2. Append(rows, row)[i] = rows[i] /\ Append(o.tokens, h)[i] = o.tokens[i]
        BY <1>1, <4>1 DEF Rows
      <4>3. rows[i].seat = i - 1 /\ rows[i].who = o.roster[i] /\ rows[i].hash = o.tokens[i]
        BY <1>r, <1>1, <4>1 DEF Open
      <4> QED BY <1>7, <4>2, <4>3
    <3> QED BY <3>1, <3>2
  <2>2. Len(k.tx.rows) = n /\ Len(k.tokens) = n
    BY <1>6, <1>7
  <2> QED BY <1>0, <1>1, <1>7, <1>8, <2>1, <2>2 DEF Open
<1>10. Fresh(c)'
  <2>1. /\ Writing(c) /\ Written(c) = rows /\ Drawn(rows)
        /\ \A id \in DOMAIN stored : /\ Apart(rows, Stored(id)) /\ Drawn(Stored(id))
        /\ \A d \in Creators \ {c} : Writing(d) => /\ o.tx.id # creator[d].tx.id /\ Drawn(Written(d))
                                                   /\ Apart(rows, Written(d))
    BY <1>o, <1>r, <1>1 DEF MatchInv, TokensApart, Writing, Written
  <2>2. ASSUME NEW s \in Rows, Drawn(s), Apart(rows, s)
        PROVE  Apart(Append(rows, row), s)
    <3>1. \A j \in 1 .. Len(s) : s[j] \in [seat : Nat, who : Whos, hash : Nat]
      BY <2>2, ElementOf, Zenon DEF Rows
    <3>2. \A j \in 1 .. Len(s) : s[j].hash \in Nat /\ s[j].hash < h
      BY <1>h, <2>2, <3>1 DEF Drawn
    <3>3. \A j \in 1 .. Len(s) : h # s[j].hash
      BY <1>0, <3>2
    <3>4. \A i \in 1 .. n : i = n \/ i \in 1 .. Len(rows)
      BY <1>1, <1>n
    <3>5. Append(rows, row)[n] = row /\ \A i \in 1 .. Len(rows) : Append(rows, row)[i] = rows[i]
      BY <1>1, <1>n DEF Rows
    <3> QED BY <1>2, <1>6, <2>2, <3>3, <3>4, <3>5 DEF Apart
  <2>3. Drawn(Append(rows, row))'
    <3>1. \A i \in 1 .. Len(rows) : rows[i] \in [seat : Nat, who : Whos, hash : Nat]
      BY <1>1, ElementOf, Zenon DEF Rows
    <3>2. \A i \in 1 .. Len(rows) : rows[i].hash \in Nat /\ rows[i].hash < h
      BY <1>h, <2>1, <3>1 DEF Drawn
    <3>3. \A i \in 1 .. Len(rows) : rows[i].hash < h + 1
      BY <1>0, <3>2
    <3>4. Append(rows, row)[n] = row /\ \A i \in 1 .. Len(rows) : Append(rows, row)[i] = rows[i]
      BY <1>1, <1>n DEF Rows
    <3>5. \A i \in 1 .. n : i = n \/ i \in 1 .. Len(rows)
      BY <1>1, <1>n
    <3>6. \A i \in 1 .. n : Append(rows, row)[i].hash < h + 1
      BY <1>0, <1>2, <3>3, <3>4, <3>5
    <3>7. (Append(rows, row))' = Append(rows, row)
      BY DEF row
    <3> QED BY <1>0, <1>6, <3>6, <3>7 DEF Drawn
  <2>4. /\ \A id \in DOMAIN stored : Stored(id) \in Rows
        /\ \A d \in Creators : Written(d) \in Rows
    BY <1>0 DEF Stored, Written, MatchInv, MatchTypes, Creator
  <2>5. Writing(c)' /\ Written(c)' = Append(rows, row) /\ creator'[c].tx.id = o.tx.id
    BY <1>7, <1>8 DEF Writing, Written
  <2>6. \A id \in DOMAIN stored : Apart(Append(rows, row), Stored(id))
    BY <2>1, <2>2, <2>4
  <2>7. \A d \in Creators \ {c} : Writing(d) => Apart(Append(rows, row), Written(d))
    BY <2>1, <2>2, <2>4
  <2>8. /\ \A d \in Creators \ {c} : (Writing(d)' <=> Writing(d)) /\ Written(d)' = Written(d)
                                     /\ creator'[d].tx.id = creator[d].tx.id
        /\ \A id : Stored(id)' = Stored(id)
    BY <1>0, <1>8 DEF Writing, Written, Stored
  <2>9. /\ \A id : Apart(Written(c), Stored(id))' = Apart(Append(rows, row), Stored(id))
        /\ \A d \in Creators \ {c} : Apart(Written(c), Written(d))' = Apart(Append(rows, row), Written(d))
    BY <2>5, <2>8 DEF Apart
  <2>10. Drawn(Written(c))'
    BY <2>3, <2>5 DEF Drawn, row
  <2> QED BY <1>0, <2>1, <2>5, <2>6, <2>7, <2>8, <2>9, <2>10 DEF Fresh
<1>11. begun' \in Nat /\ begun <= begun' /\ drawn' \in Nat /\ drawn <= drawn'
  BY <1>h, <1>0
<1> QED BY <1>o, <1>0, <1>5, <1>7, <1>8, <1>9, <1>10, <1>11, CreatorMoves

\* At the commit the match is stored, whole, and answered.
LEMMA CommitKeeps ==
  ASSUME MatchInv, NEW c \in Creators, M!Commit(c)
  PROVE  MatchInv'
<1>o. PICK o : o = creator[c]
  OBVIOUS
<1>t. PICK t : t = o.tx
  OBVIOUS
<1> DEFINE e == [payload |-> t.payload, rows |-> t.rows]
<1>0. /\ UNCHANGED <<asked, begun, drawn, loader>> /\ begun \in Nat /\ drawn \in Nat
      /\ asked \in [1 .. begun -> [cfg : Configs, roster : Rosters]]
      /\ creator \in [Creators -> Creator] /\ o \in Creator
      /\ stored \in [DOMAIN stored -> [payload : Payloads, rows : Rows]] /\ DOMAIN stored \subseteq 1 .. begun
  BY <1>o DEF MatchInv, MatchTypes, M!Commit, Creator
<1>1. /\ o.pc = "seats" /\ Open(o) /\ Len(t.rows) = Len(o.roster)
      /\ t \in [id : Nat, payload : Payloads, rows : Rows] /\ o.tokens \in Seq(Nat)
  BY <1>o, <1>t, <1>0 DEF MatchInv, OpenFit, M!Commit, Creator
<1>2. /\ t.id \in 1 .. begun /\ t.id \notin DOMAIN stored /\ t.id \in Nat /\ t.rows \in Rows
      /\ asked[t.id] = [cfg |-> o.cfg, roster |-> o.roster]
      /\ t.payload = [v |-> 1, config |-> o.cfg] /\ ~ M!Refuses(o.cfg, o.roster)
      /\ Len(o.tokens) = Len(t.rows)
      /\ \A i \in 1 .. Len(t.rows) : /\ t.rows[i].seat = i - 1 /\ t.rows[i].who = o.roster[i]
                                     /\ t.rows[i].hash = o.tokens[i]
  BY <1>t, <1>1 DEF Open
<1>3. e \in [payload : Payloads, rows : Rows] /\ e.payload = t.payload /\ e.rows = t.rows
  BY <1>1
<1>4. PICK a \in {[kind |-> "created", id |-> t.id, tokens |-> o.tokens], [kind |-> "error"]} :
        creator' = [creator EXCEPT ![c] = [M!Idle EXCEPT !.answer = a]]
  BY <1>o, <1>t DEF M!Commit
<1>5. stored' = M!With(stored, t.id, e)
  BY <1>o, <1>t DEF M!Commit
<1> HIDE DEF e
<1>6. /\ DOMAIN stored' = DOMAIN stored \cup {t.id} /\ stored'[t.id] = e
      /\ \A id \in DOMAIN stored : stored'[id] = stored[id]
      /\ stored' \in [DOMAIN stored' -> [payload : Payloads, rows : Rows]]
  BY <1>0, <1>2, <1>3, <1>5 DEF M!With
<1>7. PICK k : k = [M!Idle EXCEPT !.answer = a]
  OBVIOUS
<1>8. /\ a \in Answered /\ k \in Creator /\ k.pc = "idle" /\ k.answer = a
      /\ creator' = [creator EXCEPT ![c] = k] /\ creator'[c] = k
      /\ \A d \in Creators \ {c} : creator'[d] = creator[d]
      /\ creator' \in [Creators -> Creator]
  <2>1. a \in Answered
    BY <1>1, <1>2 DEF Answered
  <2>2. k \in Creator /\ k.pc = "idle" /\ k.answer = a
    BY <1>7, <2>1, IdleFits
  <2>3. creator' = [creator EXCEPT ![c] = k]
    BY <1>4, <1>7
  <2> QED BY <1>0, <2>1, <2>2, <2>3
<1>9. MatchTypes'
  BY <1>0, <1>2, <1>6, <1>8 DEF MatchInv, MatchTypes, Creator
<1>10. StoredFit'
  <2> SUFFICES ASSUME NEW id \in DOMAIN stored' PROVE Whole(id)'
    BY DEF StoredFit
  <2>1. CASE id = t.id
    <3>1. stored'[id] = e /\ asked'[id] = [cfg |-> o.cfg, roster |-> o.roster]
      BY <1>0, <1>2, <1>6, <2>1
    <3> QED BY <1>1, <1>2, <1>3, <3>1 DEF Whole
  <2>2. CASE id # t.id
    <3>1. id \in DOMAIN stored /\ stored'[id] = stored[id] /\ asked'[id] = asked[id]
      BY <1>0, <1>6, <2>2
    <3>2. Whole(id)
      BY <3>1 DEF MatchInv, StoredFit
    <3> QED BY <3>1, <3>2 DEF Whole
  <2> QED BY <2>1, <2>2
<1>11. OpenFit'
  <2> SUFFICES ASSUME NEW d \in Creators PROVE Open(creator[d])'
    BY DEF OpenFit
  <2>1. CASE d = c
    BY <1>8, <2>1 DEF Open
  <2>2. CASE d # c
    <3>1. creator'[d] = creator[d] /\ Open(creator[d])
      BY <1>8, <2>2 DEF MatchInv, OpenFit
    <3>2. creator[d].pc = "seats" => creator[d].tx.id # t.id
      BY <1>o, <1>t, <1>1, <2>2 DEF MatchInv, TokensApart, Writing
    <3> QED BY <1>0, <1>6, <3>1, <3>2 DEF Open
  <2> QED BY <2>1, <2>2
<1>12. TokensApart'
  <2>1. /\ Drawn(t.rows)
        /\ \A id \in DOMAIN stored : Drawn(Stored(id)) /\ Apart(t.rows, Stored(id)) /\ Apart(Stored(id), t.rows)
        /\ \A d \in Creators \ {c} : Writing(d) => Apart(t.rows, Written(d)) /\ Apart(Written(d), t.rows)
    <3>1. Writing(c) /\ Written(c) = t.rows
      BY <1>o, <1>t, <1>1 DEF Writing, Written
    <3>2. /\ Drawn(t.rows)
          /\ \A id \in DOMAIN stored : Drawn(Stored(id)) /\ Apart(t.rows, Stored(id))
          /\ \A d \in Creators \ {c} : Writing(d) => Apart(t.rows, Written(d))
      BY <3>1 DEF MatchInv, TokensApart
    <3>3. ASSUME NEW r, NEW s, Apart(r, s) PROVE Apart(s, r)
      BY <3>3 DEF Apart
    <3> QED BY <3>2, <3>3
  <2>2. /\ \A id \in DOMAIN stored : Stored(id)' = Stored(id)
        /\ Stored(t.id)' = t.rows
    BY <1>3, <1>6 DEF Stored
  <2>3. /\ \A d \in Creators \ {c} : (Writing(d)' <=> Writing(d)) /\ Written(d)' = Written(d)
                                     /\ creator'[d].tx.id = creator[d].tx.id
        /\ ~ Writing(c)'
    BY <1>8 DEF Writing, Written
  <2>4. \A r : Drawn(r)' <=> Drawn(r)
    BY <1>0 DEF Drawn
  <2>5. ASSUME NEW id \in DOMAIN stored'
        PROVE  /\ Drawn(Stored(id)')
               /\ \A jd \in DOMAIN stored' \ {id} : Apart(Stored(id)', Stored(jd)')
               /\ \A d \in Creators : Writing(d)' => Apart(Written(d)', Stored(id)')
    <3>1. CASE id = t.id
      <4>1. \A jd \in DOMAIN stored' \ {id} : jd \in DOMAIN stored
        BY <1>6, <3>1
      <4> QED BY <2>1, <2>2, <2>3, <3>1, <4>1
    <3>2. CASE id # t.id
      <4>1. id \in DOMAIN stored /\ Stored(id)' = Stored(id)
        BY <1>6, <2>2, <3>2
      <4>2. /\ Drawn(Stored(id)) /\ \A jd \in DOMAIN stored \ {id} : Apart(Stored(id), Stored(jd))
            /\ \A d \in Creators : Writing(d) => Apart(Written(d), Stored(id))
        BY <4>1 DEF MatchInv, TokensApart
      <4>3. \A jd \in DOMAIN stored' \ {id} : jd = t.id \/ jd \in DOMAIN stored \ {id}
        BY <1>6
      <4> QED BY <2>1, <2>2, <2>3, <4>1, <4>2, <4>3
    <3> QED BY <3>1, <3>2
  <2>6. ASSUME NEW d \in Creators, Writing(d)'
        PROVE  /\ Drawn(Written(d)')
               /\ \A f \in Creators \ {d} : Writing(f)' => /\ creator'[d].tx.id # creator'[f].tx.id
                                                           /\ Apart(Written(d)', Written(f)')
    <3>1. d # c /\ Writing(d)
      BY <2>3, <2>6
    <3>2. /\ Drawn(Written(d))
          /\ \A f \in Creators \ {d} : Writing(f) => /\ creator[d].tx.id # creator[f].tx.id
                                                     /\ Apart(Written(d), Written(f))
      BY <3>1 DEF MatchInv, TokensApart
    <3> QED BY <2>3, <3>1, <3>2
  <2>7. /\ \A id \in DOMAIN stored' : /\ Drawn(Stored(id))' /\ Drawn(Stored(id))' = Drawn(Stored(id)')
        /\ \A d \in Creators : Writing(d)' => Drawn(Written(d))'
    <3>1. /\ \A id : Drawn(Stored(id))' = Drawn(Stored(id)')
          /\ \A d : Drawn(Written(d))' = Drawn(Written(d)')
      BY <1>0 DEF Drawn
    <3> QED BY <2>5, <2>6, <3>1
  <2>8. /\ \A id, jd : Apart(Stored(id), Stored(jd))' = Apart(Stored(id)', Stored(jd)')
        /\ \A d, id : Apart(Written(d), Stored(id))' = Apart(Written(d)', Stored(id)')
        /\ \A d, f : Apart(Written(d), Written(f))' = Apart(Written(d)', Written(f)')
    BY DEF Apart
  <2> QED BY <2>5, <2>6, <2>7, <2>8 DEF TokensApart
<1>13. AnswersFit'
  <2> SUFFICES ASSUME NEW d \in Creators, creator'[d].answer.kind = "created"
               PROVE  LET b == creator'[d].answer IN
                      /\ b.id \in DOMAIN stored' /\ Len(b.tokens) = Len(stored'[b.id].rows)
                      /\ \A i \in 1 .. Len(b.tokens) : b.tokens[i] = stored'[b.id].rows[i].hash
    BY DEF AnswersFit, Stored
  <2>1. CASE d = c
    <3>1. creator'[d].answer = a
      BY <1>8, <2>1
    <3>2. a.kind = "created" /\ a = [kind |-> "created", id |-> t.id, tokens |-> o.tokens]
      BY <3>1
    <3>3. a.id = t.id /\ a.tokens = o.tokens
      BY <3>2
    <3>4. stored'[t.id].rows = t.rows /\ t.id \in DOMAIN stored'
      BY <1>3, <1>6
    <3> QED BY <1>2, <3>1, <3>3, <3>4
  <2>2. CASE d # c
    <3>1. creator'[d].answer = creator[d].answer
      BY <1>8, <2>2
    <3>2. LET b == creator[d].answer IN
            /\ b.id \in DOMAIN stored /\ Len(b.tokens) = Len(stored[b.id].rows)
            /\ \A i \in 1 .. Len(b.tokens) : b.tokens[i] = stored[b.id].rows[i].hash
      BY <3>1 DEF MatchInv, AnswersFit, Stored
    <3> QED BY <1>6, <3>1, <3>2
  <2> QED BY <2>1, <2>2
<1>14. LoadersFit'
  BY <1>0, <1>6 DEF MatchInv, LoadersFit
<1> QED BY <1>9, <1>10, <1>11, <1>12, <1>13, <1>14 DEF MatchInv

Loader == [pc : {"idle", "seats"}, id : Int, payload : Payloads, answer : Told]

\* What a loader learns of a stored match changes nothing else.
LEMMA LoaderMoves ==
  ASSUME MatchInv, NEW l \in Loaders, UNCHANGED <<stored, asked, begun, drawn, creator>>,
         loader' = [loader EXCEPT ![l] = loader'[l]], loader'[l] \in Loader,
         loader'[l].pc = "seats" => /\ loader'[l].id \in DOMAIN stored
                                    /\ loader'[l].payload = stored[loader'[l].id].payload,
         loader'[l].answer.kind = "loaded" =>
           /\ loader'[l].id \in 1 .. begun
           /\ asked[loader'[l].id] = [cfg |-> loader'[l].answer.cfg, roster |-> loader'[l].answer.roster]
  PROVE  MatchInv'
<1>0. PICK k : k = loader'[l]
  OBVIOUS
<1>1. /\ loader' \in [Loaders -> Loader] /\ loader'[l] = k /\ \A m \in Loaders \ {l} : loader'[m] = loader[m]
  <2>1. loader \in [Loaders -> Loader] /\ loader' = [loader EXCEPT ![l] = k] /\ k \in Loader
    BY <1>0 DEF MatchInv, MatchTypes, Loader
  <2> QED BY <2>1
<1>2. MatchTypes'
  BY <1>1 DEF MatchInv, MatchTypes, Loader
<1>3. StoredFit' /\ OpenFit'
  BY DEF MatchInv, StoredFit, Whole, OpenFit, Open
<1>4. TokensApart'
  BY SMTT(30) DEF MatchInv, TokensApart, Apart, Drawn, Stored, Writing, Written
<1>5. AnswersFit'
  BY DEF MatchInv, AnswersFit, Stored
<1>6. LoadersFit'
  BY <1>0, <1>1 DEF MatchInv, LoadersFit
<1> QED BY <1>2, <1>3, <1>4, <1>5, <1>6 DEF MatchInv

\* An idle loader is one, whatever it found.
LEMMA IdleLoaderIs == M!IdleLoader \in Loader /\ M!IdleLoader.pc = "idle" /\ M!IdleLoader.answer = [kind |-> "none"]
<1>1. [v |-> 0] \in Payloads /\ [kind |-> "none"] \in Told
  BY DEF Payloads, Told
<1> QED BY <1>1 DEF M!IdleLoader, M!NoAnswer, Loader

\* A loader reads the row of a match.
LEMMA GetMatchKeeps ==
  ASSUME MatchInv, NEW l \in Loaders, NEW id \in 1 .. MaxMatches, M!GetMatch(l, id)
  PROVE  MatchInv'
<1>0. /\ UNCHANGED <<stored, asked, begun, drawn, creator>> /\ loader \in [Loaders -> Loader]
      /\ id \in Int /\ DOMAIN stored \subseteq 1 .. begun
  BY DEF MatchInv, MatchTypes, M!GetMatch, Loader
<1>1. CASE id \notin DOMAIN stored
  <2>1. PICK k : k = [M!IdleLoader EXCEPT !.id = id, !.answer = [kind |-> "absent"]]
    OBVIOUS
  <2>2. loader' = [loader EXCEPT ![l] = k]
    BY <1>1, <2>1 DEF M!GetMatch
  <2>3. [kind |-> "absent"] \in Told
    BY DEF Told
  <2>4. k \in Loader /\ k.pc = "idle" /\ k.answer.kind = "absent"
    BY <1>0, <2>1, <2>3, IdleLoaderIs DEF Loader
  <2>5. loader'[l] = k
    BY <1>0, <2>2
  <2> QED BY <1>0, <2>2, <2>4, <2>5, LoaderMoves
<1>2. CASE id \in DOMAIN stored
  <2>0. PICK w : w = stored[id].payload
    OBVIOUS
  <2>1. PICK k : k = [M!IdleLoader EXCEPT !.id = id, !.pc = "seats", !.payload = w]
    OBVIOUS
  <2>2. /\ w = [v |-> 1, config |-> asked[id].cfg] /\ ~ M!Refuses(asked[id].cfg, asked[id].roster)
        /\ w \in Payloads
    BY <1>2, <2>0 DEF MatchInv, MatchTypes, StoredFit, Whole
  <2>3. M!DecodeConfig(w)
    BY <2>2, LetIn DEF M!DecodeConfig
  <2>4. loader' = [loader EXCEPT ![l] = k]
    BY <1>2, <2>0, <2>1, <2>3 DEF M!GetMatch
  <2>5. k \in Loader /\ k.pc = "seats" /\ k.answer = [kind |-> "none"] /\ k.id = id /\ k.payload = w
    BY <1>0, <2>1, <2>2, IdleLoaderIs DEF Loader
  <2>6. loader'[l] = k
    BY <1>0, <2>4
  <2>7. k.answer.kind # "loaded"
    BY <2>5
  <2> QED BY <1>0, <1>2, <2>0, <2>4, <2>5, <2>6, <2>7, LoaderMoves
<1> QED BY <1>1, <1>2

\* And then its seats.
LEMMA ListKeeps ==
  ASSUME MatchInv, NEW l \in Loaders, M!ListMatchPlayers(l)
  PROVE  MatchInv'
<1>0. PICK o : o = loader[l]
  OBVIOUS
<1>1. /\ UNCHANGED <<stored, asked, begun, drawn, creator>> /\ loader \in [Loaders -> Loader] /\ o \in Loader
      /\ o.pc = "seats" /\ o.id \in DOMAIN stored /\ o.payload = stored[o.id].payload
      /\ DOMAIN stored \subseteq 1 .. begun /\ o.id \in Int
  BY <1>0 DEF MatchInv, MatchTypes, LoadersFit, M!ListMatchPlayers, Loader
<1>2. PICK rows : rows = stored[o.id].rows
  OBVIOUS
<1>3. PICK a : a = asked[o.id]
  OBVIOUS
<1>4. /\ ~ M!Refuses(a.cfg, a.roster) /\ o.payload = [v |-> 1, config |-> a.cfg]
      /\ Len(rows) = Len(a.roster) /\ \A i \in 1 .. Len(rows) : rows[i].seat = i - 1 /\ rows[i].who = a.roster[i]
      /\ a \in [cfg : Configs, roster : Rosters]
  <2>1. Whole(o.id) /\ o.id \in 1 .. begun
    BY <1>1 DEF MatchInv, StoredFit
  <2>2. asked[o.id] \in [cfg : Configs, roster : Rosters]
    BY <2>1 DEF MatchInv, MatchTypes
  <2> QED BY <1>1, <1>2, <1>3, <2>1, <2>2 DEF Whole
<1>5. o.payload.config = a.cfg /\ M!SeatsFromRows(rows) /\ M!Validate(a.cfg, Len(rows))
  BY <1>4, LetIn DEF M!SeatsFromRows
<1>6. [i \in 1 .. Len(rows) |-> rows[i].who] = a.roster
  <2>1. a.roster \in Rosters
    BY <1>4
  <2>2. PICK T : a.roster \in Seq(T)
    BY <2>1, ServicesAssumption
  <2>3. a.roster = [i \in 1 .. Len(a.roster) |-> a.roster[i]]
    BY <2>2
  <2> QED BY <1>4, <2>3
<1>7. PICK b : b = [kind |-> "loaded", cfg |-> a.cfg, roster |-> a.roster]
  OBVIOUS
<1>8. PICK k : k = [M!IdleLoader EXCEPT !.id = o.id, !.answer = b]
  OBVIOUS
<1>9. loader' = [loader EXCEPT ![l] = k]
  BY <1>0, <1>2, <1>5, <1>6, <1>7, <1>8 DEF M!ListMatchPlayers
<1>10. b \in Told /\ b.cfg = a.cfg /\ b.roster = a.roster
  BY <1>4, <1>7 DEF Told
<1>11. k \in Loader /\ k.pc = "idle" /\ k.answer = b /\ k.id = o.id
  BY <1>1, <1>8, <1>10, IdleLoaderIs DEF Loader
<1>12. loader'[l] = k
  BY <1>1, <1>9
<1>13. a = [cfg |-> b.cfg, roster |-> b.roster]
  BY <1>4, <1>10
<1> QED BY <1>1, <1>3, <1>9, <1>11, <1>12, <1>13, LoaderMoves

\* Nothing of the matches changes where another part runs.
LEMMA MatchStutters == MatchInv /\ UNCHANGED matchVars => MatchInv'
<1> SUFFICES ASSUME MatchInv, UNCHANGED matchVars PROVE MatchInv'
  OBVIOUS
<1>1. MatchTypes' /\ StoredFit' /\ OpenFit'
  BY DEF matchVars, MatchInv, MatchTypes, StoredFit, Whole, OpenFit, Open
<1>2. TokensApart'
  BY DEF matchVars, MatchInv, TokensApart, Apart, Drawn, Stored, Writing, Written
<1>3. AnswersFit' /\ LoadersFit'
  BY DEF matchVars, MatchInv, AnswersFit, Stored, LoadersFit
<1> QED BY <1>1, <1>2, <1>3 DEF MatchInv

\* However creations and loads overlap.
LEMMA MatchHolds == Spec => []MatchInv
<1>1. Init => MatchInv
  BY MatchesBegin DEF Init
<1>2. MatchInv /\ [Next]_vars => MatchInv'
  <2> SUFFICES ASSUME MatchInv, [Next]_vars PROVE MatchInv'
    OBVIOUS
  <2>1. CASE InMatches(M!Next)
    <3>1. CASE \E c \in Creators : \/ \E cfg \in Configs, r \in Rosters : M!Begin(c, cfg, r)
                                   \/ M!InsertMatch(c) \/ M!InsertSeat(c) \/ M!Commit(c) \/ M!Abort(c)
      BY <3>1, BeginKeeps, InsertMatchKeeps, InsertSeatKeeps, CommitKeeps, AbortKeeps
    <3>2. CASE \E l \in Loaders : \/ \E id \in 1 .. MaxMatches : M!GetMatch(l, id)
                                  \/ M!ListMatchPlayers(l)
      BY <3>2, GetMatchKeeps, ListKeeps
    <3> QED BY <2>1, <3>1, <3>2 DEF InMatches, M!Next
  <2>2. CASE UNCHANGED matchVars
    BY <2>2, MatchStutters
  <2> QED BY <2>1, <2>2 DEF Next, InBoot, InSweep, InPool, vars
<1> QED BY <1>1, <1>2, PTL DEF Spec

\* Whatever fails, overlaps or is rolled back: a match that loads is what the one
\* call that created it asked for, no stored match is refused to a reader, and
\* the tokens answered are those whose hashes its seats hold, and no other's
\* (CreateMatch's transaction and refusals, LoadMatch's decoding).
THEOREM MatchesLoadAsCreated == Spec => []MatchesAsCreated
<1>1. MatchInv => MatchesAsCreated
  <2> SUFFICES ASSUME MatchInv PROVE MatchesAsCreated
    OBVIOUS
  <2>1. M!LoadedAsCreated
    <3> SUFFICES ASSUME NEW l \in Loaders
                 PROVE  LET a == loader[l].answer IN
                        /\ a.kind # "error"
                        /\ a.kind = "loaded" => [cfg |-> a.cfg, roster |-> a.roster] = asked[loader[l].id]
      BY DEF M!LoadedAsCreated
    <3>1. loader[l].answer \in Told
      BY DEF MatchInv, MatchTypes
    <3>2. loader[l].answer.kind \in {"none", "absent", "loaded"}
      BY <3>1 DEF Told
    <3> QED BY <3>2 DEF MatchInv, LoadersFit
  <2>2. M!TokensFit
    <3> SUFFICES ASSUME NEW c \in Creators, creator[c].answer.kind = "created",
                        NEW a, a = creator[c].answer
                 PROVE  /\ a.id \in DOMAIN stored
                        /\ a.tokens = [i \in 1 .. Len(stored[a.id].rows) |-> stored[a.id].rows[i].hash]
                        /\ \A id \in DOMAIN stored \ {a.id} : \A i \in 1 .. Len(stored[id].rows) :
                             \A j \in 1 .. Len(a.tokens) : stored[id].rows[i].hash # a.tokens[j]
      BY SMTT(30) DEF M!TokensFit
    <3>1. a = creator[c].answer
      OBVIOUS
    <3>2. /\ a.id \in DOMAIN stored /\ Len(a.tokens) = Len(stored[a.id].rows)
          /\ \A i \in 1 .. Len(a.tokens) : a.tokens[i] = stored[a.id].rows[i].hash
      BY <3>1 DEF MatchInv, AnswersFit, Stored
    <3>3. a.tokens \in Seq(Nat)
      <4>1. a \in Answered /\ a.kind = "created"
        BY <3>1 DEF MatchInv, MatchTypes
      <4> QED BY <4>1 DEF Answered
    <3>4. a.tokens = [i \in 1 .. Len(stored[a.id].rows) |-> stored[a.id].rows[i].hash]
      <4>1. a.tokens = [i \in 1 .. Len(a.tokens) |-> a.tokens[i]]
        BY <3>3
      <4> QED BY <3>2, <4>1
    <3>5. \A id \in DOMAIN stored \ {a.id} : Apart(stored[id].rows, stored[a.id].rows)
      BY <3>2 DEF MatchInv, TokensApart, Stored
    <3>6. \A id \in DOMAIN stored \ {a.id} : \A i \in 1 .. Len(stored[id].rows) :
            \A j \in 1 .. Len(a.tokens) : stored[id].rows[i].hash # a.tokens[j]
      BY <3>2, <3>5 DEF Apart
    <3>7. a.id \in DOMAIN stored
      BY <3>2
    <3> QED BY <3>4, <3>6, <3>7, Zenon
  <2> QED BY <2>1, <2>2 DEF MatchesAsCreated
<1> QED BY <1>1, MatchHolds, PTL

-------------------------------------------------------------------------------
(* Pool: who holds which seed, and what has been counted of it.              *)

Holding == {"fold", "observe", "locked", "add", "return"}

PoolTypes ==
  /\ ends \in [1 .. Seeds -> {"ok", "invalid", "telemetry"}]
  /\ wk \in [P!Ids -> [at : {"take", "gone"} \cup Holding, seed : 0 .. Seeds]]
  /\ next \in 1 .. Seeds + 1 /\ closed \in BOOLEAN
  /\ results \in [1 .. Seeds -> Nat] /\ errs \in [1 .. Seeds -> {"nil", "invalid", "telemetry"}]
  /\ main \in {"feed", "wait", "stop", "stopping", "snapshot", "deferred", "exited"}
  /\ mu \in 0 .. Workers
  /\ durations \in Seq(1 .. Seeds) /\ seen \in Nat /\ allocBytes \in Nat
  /\ heapChurn \in Nat /\ heap \in Nat /\ last \in Nat
  /\ sampler \in {"run", "stop", "done"}

\* A worker holds a seed that was sent, no two the same one, and the mutex only
\* where it says; an invalid match is never observed.
Hands ==
  \A w \in P!Ids :
    /\ wk[w].seed = 0 <=> wk[w].at \notin Holding
    /\ wk[w].seed < next
    /\ \A v \in P!Ids \ {w} : wk[w].seed # 0 => wk[v].seed # wk[w].seed
    /\ wk[w].at = "locked" <=> mu = w
    /\ wk[w].at \in {"observe", "locked", "add"} => ends[wk[w].seed] # "invalid"

\* A seed has its result or its own error once its worker let go of it, and no
\* error before.
Past(i, places) == \A w \in P!Ids : wk[w].seed = i => wk[w].at \in places
Settles ==
  \A i \in 1 .. Seeds :
    /\ errs[i] # "nil" => errs[i] = ends[i]
    /\ i < next /\ Past(i, {}) => IF ends[i] = "ok" THEN results[i] = i ELSE errs[i] = ends[i]

\* Where the main goroutine is says who is still at work.
Stages ==
  /\ main = "feed" <=> ~ closed
  /\ closed => next = Seeds + 1
  /\ \A w \in P!Ids : wk[w].at = "gone" => closed
  /\ main \notin {"feed", "wait"} => \A w \in P!Ids : wk[w].at = "gone"
  /\ sampler # "run" <=> main \in {"stopping", "snapshot", "deferred", "exited"}
  /\ main \in {"snapshot", "deferred", "exited"} => sampler = "done"

\* The counts are those of the seeds that are past the counting.
Recorded == {i \in 1 .. Seeds : i < next /\ ends[i] # "invalid" /\ Past(i, {"add", "return"})}
Added    == {i \in 1 .. Seeds : i < next /\ ends[i] # "invalid" /\ Past(i, {"return"})}
Counted == seen = Cardinality(Recorded) /\ allocBytes = Cardinality(Added)

\* The reservoir holds recorded seeds, each once, as many as it can.
Reservoir ==
  /\ \A k \in 1 .. Len(durations) : durations[k] \in Recorded
  /\ \A j, k \in 1 .. Len(durations) : j # k => durations[j] # durations[k]
  /\ Len(durations) = IF seen < Capacity THEN seen ELSE Capacity

\* The churn is what the heap was when it was last sampled.
Churned == /\ heapChurn = last /\ last <= heap
           /\ sampler = "done" => last = heap

\* The snapshot is of what is still there.
Taken ==
  main \in {"deferred", "exited"} =>
    snap = [count |-> seen, drawn |-> durations, alloc |-> allocBytes, churn |-> heapChurn, has |-> heapChurn > 0]

PoolInv == /\ PoolTypes /\ Hands /\ Settles /\ Stages /\ Counted /\ Reservoir /\ Churned /\ Taken
           /\ AnswersBySeed

\* Nothing sent, nothing counted.
LEMMA PoolBegins == P!Init => PoolInv
<1> SUFFICES ASSUME P!Init PROVE PoolInv
  OBVIOUS
<1>0. Seeds \in Nat /\ Workers \in Nat /\ Capacity \in Nat
  BY ServicesAssumption
<1>1. /\ \A w \in P!Ids : wk[w].at = "take" /\ wk[w].seed = 0
      /\ next = 1 /\ closed = FALSE /\ main = "feed" /\ mu = 0 /\ durations = <<>> /\ seen = 0 /\ allocBytes = 0
      /\ heapChurn = 0 /\ heap = 0 /\ last = 0 /\ sampler = "run" /\ answer.kind = "none"
      /\ \A i \in 1 .. Seeds : errs[i] = "nil"
  BY DEF P!Init, P!None
<1>2. PoolTypes
  <2>1. next \in 1 .. Seeds + 1 /\ mu \in 0 .. Workers /\ 0 \in 0 .. Seeds
    BY <1>0, <1>1
  <2>2. /\ wk \in [P!Ids -> [at : {"take", "gone"} \cup Holding, seed : 0 .. Seeds]]
        /\ ends \in [1 .. Seeds -> {"ok", "invalid", "telemetry"}]
    BY <2>1 DEF P!Init, P!None, Holding
  <2>3. /\ results \in [1 .. Seeds -> Nat] /\ errs \in [1 .. Seeds -> {"nil", "invalid", "telemetry"}]
    BY DEF P!Init, P!None
  <2>4. durations \in Seq(1 .. Seeds)
    BY <1>1
  <2> QED BY <1>1, <2>1, <2>2, <2>3, <2>4 DEF PoolTypes
<1>3. Hands
  <2>1. \A w \in P!Ids : w # 0
    BY <1>0 DEF P!Ids
  <2> QED BY <1>1, <2>1 DEF Hands, Holding
<1>4. Settles /\ Stages /\ Churned /\ Taken /\ AnswersBySeed
  BY <1>0, <1>1 DEF Settles, Stages, Churned, Taken, AnswersBySeed, P!AnswersBySeed
<1>5. Counted /\ Reservoir
  <2>1. Recorded = {} /\ Added = {}
    BY <1>0, <1>1 DEF Recorded, Added
  <2>2. Len(durations) = 0
    BY <1>1
  <2>3. Counted
    BY <1>1, <2>1, FS_EmptySet DEF Counted
  <2> QED BY <1>0, <1>1, <2>2, <2>3 DEF Reservoir
<1> QED BY <1>2, <1>3, <1>4, <1>5 DEF PoolInv

\* Who only moves between places keeps its seed.
Moved(w, a) == \A v \in P!Ids : /\ wk'[v].seed = wk[v].seed
                                /\ wk'[v].at = IF v = w THEN a ELSE wk[v].at
\* One worker moves and the others stay.
LEMMA AtMoves ==
  ASSUME PoolTypes, NEW w \in P!Ids, NEW a \in {"take", "gone"} \cup Holding, P!At(w, a)
  PROVE  /\ wk' \in [P!Ids -> [at : {"take", "gone"} \cup Holding, seed : 0 .. Seeds]] /\ Moved(w, a)
BY DEF PoolTypes, P!At, Moved

\* While any worker is there, nothing is over.
LEMMA AtWork ==
  ASSUME PoolInv, NEW w \in P!Ids, wk[w].at # "gone"
  PROVE  main \in {"feed", "wait"} /\ sampler = "run"
BY DEF PoolInv, PoolTypes, Stages

\* The same seeds past the counting, the same counts.
Unsettled(i, places) == i < next /\ Past(i, places)
\* Nobody is counted by a step that counts nobody.
LEMMA CountsStay ==
  ASSUME UNCHANGED ends,
         \A i \in 1 .. Seeds : ends[i] # "invalid" =>
           Unsettled(i, {"add", "return"})' = Unsettled(i, {"add", "return"})
  PROVE  Recorded' = Recorded
BY DEF Recorded, Unsettled
\* Nor are the bytes of a match.
LEMMA BytesStay ==
  ASSUME UNCHANGED ends,
         \A i \in 1 .. Seeds : ends[i] # "invalid" => Unsettled(i, {"return"})' = Unsettled(i, {"return"})
  PROVE  Added' = Added
BY DEF Added, Unsettled

\* What no worker does leaves the hands and the counts alone.
LEMMA QuietKeeps ==
  ASSUME PoolInv, UNCHANGED <<ends, wk, next, results, errs, mu, durations, seen, allocBytes>>
  PROVE  Hands' /\ Settles' /\ Counted' /\ Reservoir'
<1>1. Recorded' = Recorded /\ Added' = Added
  BY DEF Recorded, Added, Past
<1>2. Hands'
  BY DEF PoolInv, Hands
<1>3. Settles'
  BY DEF PoolInv, Settles, Past
<1>4. Counted'
  BY <1>1 DEF PoolInv, Counted
<1>5. Reservoir'
  BY <1>1 DEF PoolInv, Reservoir
<1> QED BY <1>2, <1>3, <1>4, <1>5

\* The least of the seeds that failed.
LEMMA LeastFails ==
  ASSUME NEW f \in [1 .. Seeds -> BOOLEAN], NEW m \in 1 .. Seeds, f[m]
  PROVE  \E i \in 1 .. Seeds : f[i] /\ \A j \in 1 .. i - 1 : ~ f[j]
<1> DEFINE T == {i \in 1 .. Seeds : f[i]}
<1>1. T \in SUBSET Nat /\ T # {}
  BY ServicesAssumption
<1>2. PICK i \in T : \A j \in T : <<j, i>> \notin OpToRel(<, Nat)
  BY <1>1, NatLessThanWellFounded, WFMin, Zenon
<1>3. \A j \in 1 .. i - 1 : j \in 1 .. Seeds /\ j \in Nat /\ j < i
  BY <1>1, ServicesAssumption
<1>4. \A j \in 1 .. i - 1 : j \notin T
  BY <1>1, <1>2, <1>3, Zenon DEF OpToRel
<1> QED BY <1>2, <1>3, <1>4

\* When everyone is gone, every seed has its result or its own error.
LEMMA AllSettled ==
  ASSUME PoolInv, next = Seeds + 1, \A w \in P!Ids : wk[w].at = "gone"
  PROVE  \A i \in 1 .. Seeds : /\ i < next /\ Past(i, {})
                               /\ (errs[i] = "nil") <=> (ends[i] = "ok")
                               /\ ends[i] = "ok" => results[i] = i
<1> SUFFICES ASSUME NEW i \in 1 .. Seeds
             PROVE  /\ i < next /\ Past(i, {})
                    /\ (errs[i] = "nil") <=> (ends[i] = "ok")
                    /\ ends[i] = "ok" => results[i] = i
  OBVIOUS
<1>1. i < next /\ i # 0
  BY ServicesAssumption
<1>2. \A w \in P!Ids : wk[w].seed = 0
  BY DEF PoolInv, Hands, Holding
<1>3. Past(i, {})
  BY <1>1, <1>2 DEF Past
<1>4. ends[i] \in {"ok", "invalid", "telemetry"} /\ errs[i] \in {"nil", "invalid", "telemetry"}
  BY DEF PoolInv, PoolTypes
<1>5. /\ errs[i] # "nil" => errs[i] = ends[i]
      /\ IF ends[i] = "ok" THEN results[i] = i ELSE errs[i] = ends[i]
  BY <1>1, <1>3 DEF PoolInv, Settles
<1> QED BY <1>1, <1>3, <1>4, <1>5

\* RunMany answers once every worker is gone.
LEMMA WaitKeeps ==
  ASSUME PoolInv, P!WaitReturns
  PROVE  AnswersBySeed'
<1>1. next = Seeds + 1 /\ \A w \in P!Ids : wk[w].at = "gone"
  BY DEF PoolInv, Stages, P!WaitReturns
<1>2. \A i \in 1 .. Seeds : /\ (errs[i] = "nil") <=> (ends[i] = "ok")
                            /\ ends[i] = "ok" => results[i] = i
  BY <1>1, AllSettled
<1>3. UNCHANGED ends
  BY DEF P!WaitReturns
<1>4. CASE \A i \in 1 .. Seeds : errs[i] = "nil"
  <2>1. P!FirstError = P!None
    BY <1>4 DEF P!FirstError
  <2>2. answer' = [kind |-> "results", results |-> results]
    BY <2>1 DEF P!WaitReturns
  <2>3. answer'.kind = "results" /\ answer'.results = results
    BY <2>2
  <2> QED BY <1>2, <1>3, <1>4, <2>3 DEF AnswersBySeed, P!AnswersBySeed
<1>5. CASE ~ \A i \in 1 .. Seeds : errs[i] = "nil"
  <2> DEFINE f == [i \in 1 .. Seeds |-> errs[i] # "nil"]
  <2>1. \E i \in 1 .. Seeds : f[i]
    BY <1>5
  <2>2. f \in [1 .. Seeds -> BOOLEAN] /\ \A i \in 1 .. Seeds : f[i] = (errs[i] # "nil")
    OBVIOUS
  <2> HIDE DEF f
  <2>3. \E i \in 1 .. Seeds : f[i] /\ \A j \in 1 .. i - 1 : ~ f[j]
    BY <2>1, <2>2, LeastFails
  <2>4. \A i \in 1 .. Seeds : \A j \in 1 .. i - 1 : j \in 1 .. Seeds
    BY ServicesAssumption
  <2>5. \E i \in 1 .. Seeds : errs[i] # "nil" /\ \A j \in 1 .. i - 1 : errs[j] = "nil"
    BY <2>2, <2>3, <2>4
  <2>6. P!FirstError = CHOOSE i \in 1 .. Seeds : errs[i] # "nil" /\ \A j \in 1 .. i - 1 : errs[j] = "nil"
    BY <1>5 DEF P!FirstError
  <2>7. PICK e : e = P!FirstError
    OBVIOUS
  <2>8. e \in 1 .. Seeds /\ errs[e] # "nil" /\ \A j \in 1 .. e - 1 : errs[j] = "nil"
    BY <2>5, <2>6, <2>7
  <2>9. e # P!None
    BY <2>8, ServicesAssumption DEF P!None
  <2>10. answer' = [kind |-> "error", seed |-> e]
    BY <2>7, <2>9 DEF P!WaitReturns
  <2>11. answer'.kind = "error" /\ answer'.seed = e
    BY <2>10
  <2>12. ends[e] # "ok" /\ \A j \in 1 .. e - 1 : ends[j] = "ok"
    BY <1>2, <2>4, <2>8
  <2> QED BY <1>3, <2>11, <2>12 DEF AnswersBySeed, P!AnswersBySeed
<1> QED BY <1>4, <1>5

\* The main goroutine and the sampler move beside the workers.
LEMMA MainKeeps ==
  ASSUME PoolInv, P!Main \/ P!Tick \/ P!FinalSample
  PROVE  PoolInv'
<1>0. PoolTypes /\ Stages /\ Churned /\ Taken /\ AnswersBySeed /\ Seeds \in Nat
  BY ServicesAssumption DEF PoolInv
<1>1. CASE P!CloseIndices
  <2>1. next = Seeds + 1
    BY <1>0, <1>1 DEF P!CloseIndices, PoolTypes
  <2>2. /\ UNCHANGED <<ends, wk, next, results, errs, mu, durations, seen, allocBytes>>
        /\ UNCHANGED <<answer, heap, heapChurn, sampler, last, snap>> /\ main = "feed" /\ main' = "wait" /\ closed' = TRUE
    BY <1>1 DEF P!CloseIndices, P!stats, P!churn
  <2>3. PoolTypes'
    BY <1>0, <2>2 DEF PoolTypes
  <2>4. Stages' /\ Churned' /\ Taken'
    BY <1>0, <2>1, <2>2 DEF Stages, Churned, Taken
  <2>5. AnswersBySeed'
    BY <1>0, <2>2 DEF AnswersBySeed, P!AnswersBySeed
  <2> QED BY <2>2, <2>3, <2>4, <2>5, QuietKeeps DEF PoolInv
<1>2. CASE P!WaitReturns
  <2>2. /\ UNCHANGED <<ends, wk, next, results, errs, mu, durations, seen, allocBytes>>
        /\ UNCHANGED <<closed, heap, heapChurn, sampler, last, snap>> /\ main = "wait" /\ main' = "stop"
        /\ \A w \in P!Ids : wk[w].at = "gone"
    BY <1>2 DEF P!WaitReturns, P!pool, P!stats, P!churn
  <2>3. PoolTypes'
    BY <1>0, <2>2 DEF PoolTypes
  <2>4. Stages' /\ Churned' /\ Taken'
    BY <1>0, <2>2 DEF Stages, Churned, Taken
  <2> QED BY <1>2, <2>2, <2>3, <2>4, WaitKeeps, QuietKeeps DEF PoolInv
<1>3. CASE P!Stop
  <2>2. /\ UNCHANGED <<ends, wk, next, results, errs, mu, durations, seen, allocBytes>>
        /\ UNCHANGED <<closed, answer, heap, heapChurn, last, snap>> /\ main = "stop" /\ main' = "stopping"
        /\ sampler' = "stop"
    BY <1>3 DEF P!Stop, P!pool, P!stats
  <2>3. PoolTypes'
    BY <1>0, <2>2 DEF PoolTypes
  <2>4. Stages' /\ Churned' /\ Taken'
    BY <1>0, <2>2 DEF Stages, Churned, Taken
  <2>5. AnswersBySeed'
    BY <1>0, <2>2 DEF AnswersBySeed, P!AnswersBySeed
  <2> QED BY <2>2, <2>3, <2>4, <2>5, QuietKeeps DEF PoolInv
<1>4. CASE P!StopReturns
  <2>2. /\ UNCHANGED <<ends, wk, next, results, errs, mu, durations, seen, allocBytes>>
        /\ UNCHANGED <<closed, answer, heap, heapChurn, last, sampler, snap>> /\ main = "stopping" /\ main' = "snapshot"
        /\ sampler = "done"
    BY <1>4 DEF P!StopReturns, P!pool, P!stats, P!churn
  <2>3. PoolTypes'
    BY <1>0, <2>2 DEF PoolTypes
  <2>4. Stages' /\ Churned' /\ Taken'
    BY <1>0, <2>2 DEF Stages, Churned, Taken
  <2>5. AnswersBySeed'
    BY <1>0, <2>2 DEF AnswersBySeed, P!AnswersBySeed
  <2> QED BY <2>2, <2>3, <2>4, <2>5, QuietKeeps DEF PoolInv
<1>5. CASE P!Snapshot
  <2>2. /\ UNCHANGED <<ends, wk, next, results, errs, mu, durations, seen, allocBytes>>
        /\ UNCHANGED <<closed, answer, heap, heapChurn, last, sampler>> /\ main = "snapshot" /\ main' = "deferred"
        /\ snap' = [count |-> seen, drawn |-> durations, alloc |-> allocBytes, churn |-> heapChurn,
                    has |-> heapChurn > 0]
    BY <1>5 DEF P!Snapshot, P!pool, P!stats, P!churn
  <2>3. PoolTypes'
    BY <1>0, <2>2 DEF PoolTypes
  <2>4. Stages' /\ Churned'
    BY <1>0, <2>2 DEF Stages, Churned
  <2>5. AnswersBySeed'
    BY <1>0, <2>2 DEF AnswersBySeed, P!AnswersBySeed
  <2>6. Taken'
    BY <2>2 DEF Taken
  <2> QED BY <2>2, <2>3, <2>4, <2>5, <2>6, QuietKeeps DEF PoolInv
<1>6. CASE P!DeferredStop
  <2>2. /\ UNCHANGED <<ends, wk, next, results, errs, mu, durations, seen, allocBytes>>
        /\ UNCHANGED <<closed, answer, heap, heapChurn, last, sampler, snap>> /\ main = "deferred" /\ main' = "exited"
    BY <1>6 DEF P!DeferredStop, P!pool, P!stats, P!churn
  <2>3. PoolTypes'
    BY <1>0, <2>2 DEF PoolTypes
  <2>4. Stages' /\ Churned'
    BY <1>0, <2>2 DEF Stages, Churned
  <2>5. AnswersBySeed'
    BY <1>0, <2>2 DEF AnswersBySeed, P!AnswersBySeed
  <2>6. Taken'
    BY <1>0, <2>2 DEF Taken
  <2> QED BY <2>2, <2>3, <2>4, <2>5, <2>6, QuietKeeps DEF PoolInv
<1>7. CASE P!Tick \/ P!FinalSample
  <2>1. heapChurn' = heap /\ last' = heap
    <3>1. heapChurn = last /\ last <= heap /\ heap \in Nat /\ last \in Nat
      BY <1>0 DEF Churned, PoolTypes
    <3>2. heapChurn' = (IF heap >= last THEN heapChurn + (heap - last) ELSE heapChurn) /\ last' = heap
      BY <1>7 DEF P!Tick, P!FinalSample, P!AddDelta
    <3> QED BY <3>1, <3>2
  <2>2. /\ UNCHANGED <<ends, wk, next, results, errs, mu, durations, seen, allocBytes>>
        /\ UNCHANGED <<closed, answer, heap, main, snap>>
        /\ sampler \in {"run", "stop"} /\ (sampler' = sampler \/ (sampler = "stop" /\ sampler' = "done"))
    BY <1>7 DEF P!Tick, P!FinalSample, P!pool, P!stats
  <2>3. PoolTypes'
    BY <1>0, <2>1, <2>2 DEF PoolTypes
  <2>4. Stages'
    BY <1>0, <2>2 DEF Stages
  <2>5. AnswersBySeed'
    BY <1>0, <2>2 DEF AnswersBySeed, P!AnswersBySeed
  <2>6. Taken'
    BY <1>0, <2>2 DEF Taken, Stages
  <2>7. Churned'
    BY <1>0, <2>1, <2>2 DEF Churned, PoolTypes
  <2> QED BY <2>2, <2>3, <2>4, <2>5, <2>6, <2>7, QuietKeeps DEF PoolInv
<1> QED BY <1>1, <1>2, <1>3, <1>4, <1>5, <1>6, <1>7 DEF P!Main

\* What a worker does, short of the counting and the letting go.
LEMMA WorkerKeeps ==
  ASSUME PoolInv, NEW w \in P!Ids, wk[w].at # "gone", PoolTypes', Hands', Settles', Counted', Reservoir',
         UNCHANGED <<ends, main, closed, answer, sampler, heapChurn, last>>, heap <= heap',
         next <= next', closed => next' = next, \A v \in P!Ids : wk'[v].at = "gone" => closed
  PROVE  PoolInv'
<1>1. main \in {"feed", "wait"} /\ sampler = "run"
  BY AtWork
<1>2. Stages'
  BY <1>1 DEF PoolInv, Stages
<1>3. Churned'
  BY <1>1 DEF PoolInv, PoolTypes, Churned
<1>4. Taken'
  BY <1>1 DEF Taken
<1>5. AnswersBySeed'
  BY DEF PoolInv, AnswersBySeed, P!AnswersBySeed
<1> QED BY <1>2, <1>3, <1>4, <1>5 DEF PoolInv

\* The feeder's next seed is a worker's.
LEMMA SendKeeps ==
  ASSUME PoolInv, NEW w \in P!Ids, P!SendIndex(w)
  PROVE  PoolInv'
<1>0. /\ Seeds \in Nat /\ PoolTypes /\ Hands /\ Settles /\ Counted /\ Reservoir
      /\ UNCHANGED <<ends, main, closed, answer, sampler, heapChurn, last, heap, results, errs, mu, durations, seen,
                     allocBytes>>
      /\ wk[w].at = "take" /\ wk[w].seed = 0 /\ next \in Nat /\ next <= Seeds /\ next' = next + 1 /\ next # 0
      /\ closed = FALSE /\ heap \in Nat
  <2>1. /\ Seeds \in Nat /\ PoolTypes /\ Hands /\ Settles /\ Counted /\ Reservoir /\ Stages
    BY ServicesAssumption DEF PoolInv
  <2>2. /\ UNCHANGED <<ends, main, closed, answer, sampler, heapChurn, last, heap, results, errs, mu, durations, seen,
                       allocBytes>>
        /\ wk[w].at = "take" /\ next <= Seeds /\ next' = next + 1 /\ main = "feed"
    BY DEF P!SendIndex, P!stats, P!churn
  <2>3. next \in Nat /\ next # 0 /\ heap \in Nat
    BY <2>1 DEF PoolTypes
  <2>4. wk[w].seed = 0
    BY <2>1, <2>2 DEF Hands, Holding
  <2>5. closed = FALSE
    BY <2>1, <2>2 DEF PoolTypes, Stages
  <2> QED BY <2>1, <2>2, <2>3, <2>4, <2>5
<1>n. PICK n : n = next
  OBVIOUS
<1>1. wk' = [wk EXCEPT ![w] = [at |-> "fold", seed |-> n]]
  BY <1>n DEF P!SendIndex
<1>2. \A v \in P!Ids : /\ v = w => wk'[v].at = "fold" /\ wk'[v].seed = n
                       /\ v # w => wk'[v] = wk[v]
  BY <1>0, <1>1 DEF PoolTypes
<1>3. PoolTypes'
  <2>1. n \in 0 .. Seeds /\ next' \in 1 .. Seeds + 1
    BY <1>0, <1>n
  <2> QED BY <1>0, <1>1, <2>1 DEF PoolTypes, Holding
<1>4. \A v \in P!Ids : wk[v].seed \in Nat /\ wk[v].seed < n /\ wk[v].seed # n
  BY <1>0, <1>n DEF PoolTypes, Hands
<1>5. Hands'
  <2> SUFFICES ASSUME NEW v \in P!Ids
               PROVE  /\ wk'[v].seed = 0 <=> wk'[v].at \notin Holding
                      /\ wk'[v].seed < next'
                      /\ \A u \in P!Ids \ {v} : wk'[v].seed # 0 => wk'[u].seed # wk'[v].seed
                      /\ wk'[v].at = "locked" <=> mu' = v
                      /\ wk'[v].at \in {"observe", "locked", "add"} => ends'[wk'[v].seed] # "invalid"
    BY DEF Hands
  <2>1. CASE v = w
    BY <1>0, <1>n, <1>2, <1>4, <2>1 DEF Hands, Holding
  <2>2. CASE v # w
    <3>1. wk'[v].seed < next'
      BY <1>0, <1>n, <1>2, <1>4, <2>2
    <3>2. \A u \in P!Ids \ {v} : wk'[v].seed # 0 => wk'[u].seed # wk'[v].seed
      BY <1>0, <1>2, <1>4, <2>2 DEF Hands
    <3> QED BY <1>0, <1>2, <2>2, <3>1, <3>2 DEF Hands
  <2> QED BY <2>1, <2>2
<1>6. ASSUME NEW i \in 1 .. Seeds, NEW A \in SUBSET {"add", "return"}
      PROVE  Unsettled(i, A)' = Unsettled(i, A)
  <2>1. CASE i = n
    <3>1. ~ Past(i, A)'
      BY <1>2, <2>1 DEF Past
    <3>2. ~ (i < next)
      BY <1>0, <1>n, <2>1
    <3> QED BY <3>1, <3>2 DEF Unsettled
  <2>2. CASE i # n
    <3>1. i < next' <=> i < next
      BY <1>0, <1>n, <2>2
    <3>2. i # 0
      OBVIOUS
    <3>3. Past(i, A)' = Past(i, A)
      BY <1>0, <1>2, <2>2, <3>2 DEF Past
    <3> QED BY <3>1, <3>3 DEF Unsettled
  <2> QED BY <2>1, <2>2
<1>7. Settles'
  <2> SUFFICES ASSUME NEW i \in 1 .. Seeds
               PROVE  /\ errs'[i] # "nil" => errs'[i] = ends'[i]
                      /\ i < next' /\ Past(i, {})' => IF ends'[i] = "ok" THEN results'[i] = i ELSE errs'[i] = ends'[i]
    BY DEF Settles
  <2>1. i < next' /\ Past(i, {})' => i < next /\ Past(i, {})
    BY <1>6 DEF Unsettled
  <2> QED BY <1>0, <2>1 DEF Settles
<1>8. Recorded' = Recorded /\ Added' = Added
  BY <1>0, <1>6, CountsStay, BytesStay
<1>9. Counted' /\ Reservoir'
  BY <1>0, <1>8 DEF Counted, Reservoir
<1>10. \A v \in P!Ids : wk'[v].at = "gone" => closed
  BY <1>2 DEF PoolInv, Stages
<1>11. heap <= heap' /\ next <= next' /\ wk[w].at # "gone"
  BY <1>0
<1> QED BY <1>0, <1>3, <1>5, <1>7, <1>9, <1>10, <1>11, WorkerKeeps

\* Who moves on with the seed it has, or with none as before, lets nothing go.
LEMMA MovedHands ==
  ASSUME PoolInv, NEW w \in P!Ids, NEW a, Moved(w, a), UNCHANGED <<ends, next>>,
         a \in Holding <=> wk[w].at \in Holding, a = "locked" <=> mu' = w,
         \A v \in P!Ids \ {w} : mu' = v <=> mu = v,
         a \in {"observe", "locked", "add"} => ends[wk[w].seed] # "invalid"
  PROVE  Hands'
<1>1. Hands
  BY DEF PoolInv
<1> SUFFICES ASSUME NEW v \in P!Ids
             PROVE  /\ wk'[v].seed = 0 <=> wk'[v].at \notin Holding
                    /\ wk'[v].seed < next'
                    /\ \A u \in P!Ids \ {v} : wk'[v].seed # 0 => wk'[u].seed # wk'[v].seed
                    /\ wk'[v].at = "locked" <=> mu' = v
                    /\ wk'[v].at \in {"observe", "locked", "add"} => ends'[wk'[v].seed] # "invalid"
  BY DEF Hands
<1>2. CASE v = w
  BY <1>1, <1>2 DEF Hands, Moved
<1>3. CASE v # w
  BY <1>1, <1>3 DEF Hands, Moved
<1> QED BY <1>2, <1>3
\* A worker that moves on leaves the settled seeds settled.
LEMMA MovedSettles ==
  ASSUME PoolInv, NEW w \in P!Ids, NEW a, Moved(w, a), UNCHANGED <<ends, next, results, errs>>
  PROVE  Settles'
<1>1. \A i \in 1 .. Seeds : Past(i, {})' = Past(i, {})
  BY DEF Past, Moved
<1> QED BY <1>1 DEF PoolInv, Settles
\* A seed is past the same places wherever its worker was and is now among them.
LEMMA MovedPast ==
  ASSUME NEW w \in P!Ids, NEW a, Moved(w, a), UNCHANGED next, NEW i, NEW A,
         wk[w].seed = i => (a \in A <=> wk[w].at \in A)
  PROVE  Unsettled(i, A)' = Unsettled(i, A)
BY DEF Moved, Unsettled, Past

\* A seed is its worker's alone: where that worker is decides.
LEMMA HoldersOwn ==
  ASSUME PoolInv, NEW w \in P!Ids, wk[w].seed # 0, NEW A
  PROVE  /\ wk[w].seed \in 1 .. Seeds /\ wk[w].seed < next
         /\ Unsettled(wk[w].seed, A) <=> wk[w].at \in A
<1>1. PoolTypes /\ Hands
  BY DEF PoolInv
<1>2. wk[w].seed \in 1 .. Seeds
  <2>1. wk[w].seed \in 0 .. Seeds /\ Seeds \in Nat
    BY <1>1, ServicesAssumption DEF PoolTypes
  <2> QED BY <2>1
<1>3. wk[w].seed < next
  BY <1>1 DEF Hands
<1>4. \A v \in P!Ids : wk[v].seed = wk[w].seed => v = w
  BY <1>1 DEF Hands
<1> QED BY <1>2, <1>3, <1>4 DEF Unsettled, Past

\* A worker folds the match it took.
LEMMA FoldKeeps ==
  ASSUME PoolInv, NEW w \in P!Ids, P!Fold(w)
  PROVE  PoolInv'
<1>n. PICK n : n = wk[w].seed
  OBVIOUS
<1>a. PICK a : a = IF ends[n] = "invalid" THEN "return" ELSE "observe"
  OBVIOUS
<1>0. /\ PoolTypes /\ Hands /\ Counted /\ Reservoir /\ heap \in Nat /\ next \in Nat /\ mu # w
      /\ UNCHANGED <<ends, next, main, closed, answer, sampler, heapChurn, last, results, errs, mu, durations, seen,
                     allocBytes>>
      /\ wk[w].at = "fold" /\ heap' = heap + 1 /\ P!At(w, a)
  <2>1. PoolTypes /\ Hands /\ Counted /\ Reservoir
    BY DEF PoolInv
  <2>2. /\ UNCHANGED <<ends, next, main, closed, answer, sampler, heapChurn, last, results, errs, mu, durations, seen,
                       allocBytes>>
        /\ wk[w].at = "fold" /\ heap' = heap + 1 /\ P!At(w, a)
    BY <1>n, <1>a DEF P!Fold, P!stats, P!churn
  <2>3. heap \in Nat /\ next \in Nat
    BY <2>1 DEF PoolTypes
  <2>4. mu # w
    BY <2>1, <2>2 DEF Hands
  <2> QED BY <2>1, <2>2, <2>3, <2>4
<1>1. a \in Holding /\ (a = "return" \/ a = "observe") /\ (a = "observe" <=> ends[n] # "invalid")
  BY <1>a DEF Holding
<1>2. /\ wk' \in [P!Ids -> [at : {"take", "gone"} \cup Holding, seed : 0 .. Seeds]] /\ Moved(w, a)
  BY <1>0, <1>1, AtMoves
<1>3. PoolTypes'
  BY <1>0, <1>2 DEF PoolTypes
<1>4. Hands' /\ Settles'
  <2>1. wk[w].at \in Holding /\ a # "locked"
    BY <1>0, <1>1 DEF Holding
  <2> QED BY <1>n, <1>0, <1>1, <1>2, <2>1, MovedHands, MovedSettles
<1>5. Recorded' = Recorded /\ Added' = Added
  <2>1. ASSUME NEW i \in 1 .. Seeds, ends[i] # "invalid", NEW A \in SUBSET {"add", "return"}
        PROVE  Unsettled(i, A)' = Unsettled(i, A)
    <3>1. wk[w].seed = i => (a \in A <=> wk[w].at \in A)
      BY <1>n, <1>0, <1>1, <2>1
    <3> QED BY <1>0, <1>2, <3>1, MovedPast
  <2> QED BY <1>0, <2>1, CountsStay, BytesStay
<1>6. Counted' /\ Reservoir'
  BY <1>0, <1>5 DEF Counted, Reservoir
<1>7. heap <= heap' /\ next <= next' /\ wk[w].at # "gone"
  BY <1>0
<1>8. \A v \in P!Ids : wk'[v].at = "gone" => closed
  BY <1>1, <1>2 DEF PoolInv, Stages, Moved
<1> QED BY <1>0, <1>3, <1>4, <1>6, <1>7, <1>8, WorkerKeeps

\* A worker leaves once the channel is closed.
LEMMA LeaveKeeps ==
  ASSUME PoolInv, NEW w \in P!Ids, P!Leave(w)
  PROVE  PoolInv'
<1>0. /\ PoolTypes /\ Hands /\ Counted /\ Reservoir /\ heap \in Nat /\ next \in Nat /\ mu # w
      /\ UNCHANGED <<ends, next, main, closed, answer, sampler, heapChurn, last, results, errs, mu, durations, seen,
                     allocBytes, heap>>
      /\ wk[w].at = "take" /\ P!At(w, "gone") /\ wk[w].seed = 0 /\ closed
  <2>1. PoolTypes /\ Hands /\ Counted /\ Reservoir
    BY DEF PoolInv
  <2>2. /\ UNCHANGED <<ends, next, main, closed, answer, sampler, heapChurn, last, results, errs, mu, durations, seen,
                       allocBytes, heap>>
        /\ wk[w].at = "take" /\ P!At(w, "gone") /\ closed
    BY DEF P!Leave, P!stats, P!churn
  <2>3. heap \in Nat /\ next \in Nat
    BY <2>1 DEF PoolTypes
  <2>4. mu # w /\ wk[w].seed = 0
    BY <2>1, <2>2 DEF Hands, Holding
  <2> QED BY <2>1, <2>2, <2>3, <2>4
<1>2. /\ wk' \in [P!Ids -> [at : {"take", "gone"} \cup Holding, seed : 0 .. Seeds]] /\ Moved(w, "gone")
  BY <1>0, AtMoves
<1>3. PoolTypes'
  BY <1>0, <1>2 DEF PoolTypes
<1>4. Hands' /\ Settles'
  <2>1. wk[w].at \notin Holding /\ "gone" \notin Holding
    BY <1>0 DEF Holding
  <2> QED BY <1>0, <1>2, <2>1, MovedHands, MovedSettles
<1>5. Recorded' = Recorded /\ Added' = Added
  <2>1. ASSUME NEW i \in 1 .. Seeds, NEW A PROVE Unsettled(i, A)' = Unsettled(i, A)
    <3>1. wk[w].seed # i
      BY <1>0
    <3> QED BY <1>0, <1>2, <3>1, MovedPast
  <2> QED BY <1>0, <2>1, CountsStay, BytesStay
<1>6. Counted' /\ Reservoir'
  BY <1>0, <1>5 DEF Counted, Reservoir
<1>7. heap <= heap' /\ next <= next' /\ wk[w].at # "gone"
  BY <1>0
<1> QED BY <1>0, <1>3, <1>4, <1>6, <1>7, WorkerKeeps

\* A worker takes the lock of FoldStats.
LEMMA LockKeeps ==
  ASSUME PoolInv, NEW w \in P!Ids, P!Lock(w)
  PROVE  PoolInv'
<1>0. /\ PoolTypes /\ Hands /\ Counted /\ Reservoir /\ heap \in Nat /\ next \in Nat /\ mu = 0 /\ mu' = w
      /\ UNCHANGED <<ends, next, main, closed, answer, sampler, heapChurn, last, results, errs, durations, seen,
                     allocBytes, heap>>
      /\ wk[w].at = "observe" /\ P!At(w, "locked") /\ ends[wk[w].seed] # "invalid" /\ w \in 0 .. Workers
      /\ \A v \in P!Ids \ {w} : v # 0
  <2>1. PoolTypes /\ Hands /\ Counted /\ Reservoir
    BY DEF PoolInv
  <2>2. /\ UNCHANGED <<ends, next, main, closed, answer, sampler, heapChurn, last, results, errs, durations, seen,
                       allocBytes, heap>>
        /\ wk[w].at = "observe" /\ P!At(w, "locked") /\ mu = 0 /\ mu' = w
    BY DEF P!Lock, P!None, P!churn
  <2>3. heap \in Nat /\ next \in Nat
    BY <2>1 DEF PoolTypes
  <2>4. ends[wk[w].seed] # "invalid"
    BY <2>1, <2>2 DEF Hands
  <2>5. w \in 0 .. Workers /\ \A v \in P!Ids \ {w} : v # 0
    BY ServicesAssumption DEF P!Ids
  <2> QED BY <2>1, <2>2, <2>3, <2>4, <2>5
<1>2. /\ wk' \in [P!Ids -> [at : {"take", "gone"} \cup Holding, seed : 0 .. Seeds]] /\ Moved(w, "locked")
  BY <1>0, AtMoves DEF Holding
<1>3. PoolTypes'
  BY <1>0, <1>2 DEF PoolTypes
<1>4. Hands' /\ Settles'
  <2>1. wk[w].at \in Holding /\ "locked" \in Holding
    BY <1>0 DEF Holding
  <2>2. \A v \in P!Ids \ {w} : mu' # v /\ mu # v
    BY <1>0
  <2> QED BY <1>0, <1>2, <2>1, <2>2, MovedHands, MovedSettles
<1>5. Recorded' = Recorded /\ Added' = Added
  <2>1. ASSUME NEW i \in 1 .. Seeds, NEW A \in SUBSET {"add", "return"} PROVE Unsettled(i, A)' = Unsettled(i, A)
    <3>1. "locked" \in A <=> wk[w].at \in A
      BY <1>0
    <3> QED BY <1>0, <1>2, <3>1, MovedPast
  <2> QED BY <1>0, <2>1, CountsStay, BytesStay
<1>6. Counted' /\ Reservoir'
  BY <1>0, <1>5 DEF Counted, Reservoir
<1>7. heap <= heap' /\ next <= next' /\ wk[w].at # "gone"
  BY <1>0
<1>8. \A v \in P!Ids : wk'[v].at = "gone" => closed
  BY <1>2 DEF PoolInv, Stages, Moved
<1> QED BY <1>0, <1>3, <1>4, <1>6, <1>7, <1>8, WorkerKeeps

\* One more seed counted.
LEMMA OneMore ==
  ASSUME NEW T, NEW U, NEW n, U = T \cup {n}, n \notin T, T \subseteq 1 .. Seeds
  PROVE  Cardinality(T) \in Nat /\ Cardinality(U) = Cardinality(T) + 1
<1>1. IsFiniteSet(T)
  <2>1. 1 \in Int /\ Seeds \in Int
    BY ServicesAssumption
  <2>2. IsFiniteSet(1 .. Seeds)
    BY <2>1, FS_Interval
  <2> QED BY <2>2, FS_Subset
<1> QED BY <1>1, FS_AddElement, FS_CardinalityType

\* A worker counts the bytes of its match.
LEMMA AddKeeps ==
  ASSUME PoolInv, NEW w \in P!Ids, P!AddBytes(w)
  PROVE  PoolInv'
<1>n. PICK n : n = wk[w].seed
  OBVIOUS
<1>0. /\ PoolTypes /\ Hands /\ Counted /\ Reservoir /\ heap \in Nat /\ next \in Nat /\ mu # w
      /\ UNCHANGED <<ends, next, main, closed, answer, sampler, heapChurn, last, results, errs, mu, durations, seen,
                     heap>>
      /\ wk[w].at = "add" /\ P!At(w, "return") /\ n # 0 /\ ends[n] # "invalid"
      /\ allocBytes' = allocBytes + 1 /\ allocBytes \in Nat
  <2>1. PoolTypes /\ Hands /\ Counted /\ Reservoir
    BY DEF PoolInv
  <2>2. /\ UNCHANGED <<ends, next, main, closed, answer, sampler, heapChurn, last, results, errs, mu, durations, seen,
                       heap>>
        /\ wk[w].at = "add" /\ P!At(w, "return") /\ allocBytes' = allocBytes + 1
    BY DEF P!AddBytes, P!churn
  <2>3. heap \in Nat /\ next \in Nat /\ allocBytes \in Nat
    BY <2>1 DEF PoolTypes
  <2>4. mu # w /\ n # 0 /\ ends[n] # "invalid"
    BY <1>n, <2>1, <2>2 DEF Hands, Holding
  <2> QED BY <2>1, <2>2, <2>3, <2>4
<1>2. /\ wk' \in [P!Ids -> [at : {"take", "gone"} \cup Holding, seed : 0 .. Seeds]] /\ Moved(w, "return")
  BY <1>0, AtMoves DEF Holding
<1>3. PoolTypes'
  BY <1>0, <1>2 DEF PoolTypes
<1>4. Hands' /\ Settles'
  <2>1. wk[w].at \in Holding /\ "return" \in Holding
    BY <1>0 DEF Holding
  <2> QED BY <1>0, <1>2, <2>1, MovedHands, MovedSettles
<1>5. Recorded' = Recorded
  <2>1. ASSUME NEW i \in 1 .. Seeds PROVE Unsettled(i, {"add", "return"})' = Unsettled(i, {"add", "return"})
    BY <1>0, <1>2, MovedPast
  <2> QED BY <1>0, <2>1, CountsStay
<1>6. Added' = Added \cup {n} /\ n \notin Added
  <2>1. n \in 1 .. Seeds /\ n < next /\ ~ Unsettled(n, {"return"})
    BY <1>n, <1>0, HoldersOwn
  <2>2. Unsettled(n, {"return"})'
    BY <1>n, <1>0, <1>2, <2>1 DEF Unsettled, Past, Moved, Hands
  <2>3. ASSUME NEW i \in 1 .. Seeds, i # n PROVE Unsettled(i, {"return"})' = Unsettled(i, {"return"})
    BY <1>n, <1>0, <1>2, <2>3, MovedPast
  <2>4. Added = {i \in 1 .. Seeds : ends[i] # "invalid" /\ Unsettled(i, {"return"})}
    BY DEF Added, Unsettled
  <2>5. Added' = {i \in 1 .. Seeds : ends[i] # "invalid" /\ Unsettled(i, {"return"})'}
    BY <1>0 DEF Added, Unsettled
  <2> QED BY <1>0, <2>1, <2>2, <2>3, <2>4, <2>5
<1>7. Counted'
  <2>1. Added \subseteq 1 .. Seeds
    BY DEF Added
  <2>2. Cardinality(Added') = Cardinality(Added) + 1
    BY <1>6, <2>1, OneMore
  <2> QED BY <1>0, <1>5, <2>2 DEF Counted
<1>8. Reservoir'
  BY <1>0, <1>5 DEF Reservoir
<1>9. heap <= heap' /\ next <= next' /\ wk[w].at # "gone"
  BY <1>0
<1>10. \A v \in P!Ids : wk'[v].at = "gone" => closed
  BY <1>2 DEF PoolInv, Stages, Moved
<1> QED BY <1>0, <1>3, <1>4, <1>7, <1>8, <1>9, <1>10, WorkerKeeps

Distinct(d) == \A j, k \in 1 .. Len(d) : j # k => d[j] # d[k]
AllIn(d, T) == \A k \in 1 .. Len(d) : d[k] \in T
Takes(d, n, e) ==
  e = Append(d, n) \/ e = d \/ \E j \in 1 .. Len(d) : e = [d EXCEPT ![j] = n]
Longer(d, n, e) == Len(e) = IF e = Append(d, n) THEN Len(d) + 1 ELSE Len(d)

\* A sample of what was recorded, with one more or with one in another's place.
LEMMA Sampled ==
  ASSUME NEW U, NEW T, NEW n, n \notin T, n \in U, NEW d, d \in Seq(U),
         AllIn(d, T), Distinct(d), NEW e, Takes(d, n, e)
  PROVE  e \in Seq(U) /\ AllIn(e, T \cup {n}) /\ Distinct(e) /\ Longer(d, n, e)
<1> SUFFICES /\ e \in Seq(U) /\ \A k \in 1 .. Len(e) : e[k] \in T \cup {n}
             /\ \A j, k \in 1 .. Len(e) : j # k => e[j] # e[k]
             /\ Len(e) = IF e = Append(d, n) THEN Len(d) + 1 ELSE Len(d)
  BY DEF AllIn, Distinct, Longer
<1>0. Len(d) \in Nat
  OBVIOUS
<1>d. /\ \A k \in 1 .. Len(d) : d[k] \in T
      /\ \A j, k \in 1 .. Len(d) : j # k => d[j] # d[k]
  BY DEF AllIn, Distinct
<1>1. CASE e = Append(d, n)
  <2>1. /\ e \in Seq(U) /\ Len(e) = Len(d) + 1 /\ e[Len(d) + 1] = n /\ \A k \in 1 .. Len(d) : e[k] = d[k]
    BY <1>1
  <2>2. \A k \in 1 .. Len(d) + 1 : k = Len(d) + 1 \/ k \in 1 .. Len(d)
    BY <1>0
  <2>3. \A k \in 1 .. Len(d) : d[k] # n
    BY <1>d
  <2>4. \A k \in 1 .. Len(e) : e[k] \in T \cup {n}
    BY <1>d, <2>1, <2>2
  <2>5. \A j, k \in 1 .. Len(e) : j # k => e[j] # e[k]
    BY <1>d, <2>1, <2>2, <2>3
  <2> QED BY <1>1, <2>1, <2>4, <2>5
<1>2. CASE e # Append(d, n)
  <2>1. CASE e = d
    BY <1>2, <1>d, <2>1
  <2>2. CASE \E j \in 1 .. Len(d) : e = [d EXCEPT ![j] = n]
    <3>1. PICK j \in 1 .. Len(d) : e = [d EXCEPT ![j] = n]
      BY <2>2
    <3>2. e \in Seq(U) /\ Len(e) = Len(d)
      BY <3>1
    <3>3. \A k \in 1 .. Len(d) : e[k] = IF k = j THEN n ELSE d[k]
      BY <3>1
    <3>4. \A k \in 1 .. Len(d) : d[k] # n
      BY <1>d
    <3>5. \A i, k \in 1 .. Len(e) : i # k => e[i] # e[k]
      BY <1>d, <3>2, <3>3, <3>4
    <3>6. \A k \in 1 .. Len(e) : e[k] \in T \cup {n}
      BY <1>d, <3>2, <3>3
    <3> QED BY <1>2, <3>2, <3>5, <3>6
  <2> QED BY <1>2, <2>1, <2>2 DEF Takes
<1> QED BY <1>1, <1>2

\* A worker counts its match, samples its duration and lets the lock go.
LEMMA RecordKeeps ==
  ASSUME PoolInv, NEW w \in P!Ids, P!Record(w)
  PROVE  PoolInv'
<1>n. PICK n : n = wk[w].seed
  OBVIOUS
<1>d. PICK d : d = durations
  OBVIOUS
<1>e. PICK e : e = durations'
  OBVIOUS
<1>0. /\ PoolTypes /\ Hands /\ Counted /\ Reservoir /\ heap \in Nat /\ next \in Nat /\ mu = w /\ mu' = 0
      /\ UNCHANGED <<ends, next, main, closed, answer, sampler, heapChurn, last, results, errs, allocBytes, heap>>
      /\ wk[w].at = "locked" /\ P!At(w, "add") /\ n # 0 /\ ends[n] # "invalid"
      /\ seen' = seen + 1 /\ seen \in Nat /\ \A v \in P!Ids : v # 0
  <2>1. PoolTypes /\ Hands /\ Counted /\ Reservoir
    BY DEF PoolInv
  <2>2. /\ UNCHANGED <<ends, next, main, closed, answer, sampler, heapChurn, last, results, errs, allocBytes, heap>>
        /\ wk[w].at = "locked" /\ P!At(w, "add") /\ seen' = seen + 1 /\ mu' = 0
    BY DEF P!Record, P!None, P!churn
  <2>3. heap \in Nat /\ next \in Nat /\ seen \in Nat
    BY <2>1 DEF PoolTypes
  <2>4. mu = w /\ n # 0 /\ ends[n] # "invalid"
    BY <1>n, <2>1, <2>2 DEF Hands, Holding
  <2>5. \A v \in P!Ids : v # 0
    BY ServicesAssumption DEF P!Ids
  <2> QED BY <2>1, <2>2, <2>3, <2>4, <2>5
<1>2. /\ wk' \in [P!Ids -> [at : {"take", "gone"} \cup Holding, seed : 0 .. Seeds]] /\ Moved(w, "add")
  BY <1>0, AtMoves DEF Holding
<1>4. Hands' /\ Settles'
  <2>1. wk[w].at \in Holding /\ "add" \in Holding
    BY <1>0 DEF Holding
  <2>2. \A v \in P!Ids \ {w} : mu' # v /\ mu # v
    BY <1>0
  <2>3. mu' # w
    BY <1>0
  <2> QED BY <1>n, <1>0, <1>2, <2>1, <2>2, <2>3, MovedHands, MovedSettles
<1>5. Added' = Added
  <2>1. ASSUME NEW i \in 1 .. Seeds PROVE Unsettled(i, {"return"})' = Unsettled(i, {"return"})
    BY <1>0, <1>2, MovedPast
  <2> QED BY <1>0, <2>1, BytesStay
<1> DEFINE A == {"add", "return"}
<1>6. Recorded' = Recorded \cup {n} /\ n \notin Recorded /\ n \in 1 .. Seeds
  <2>1. n \in 1 .. Seeds /\ n < next /\ ~ Unsettled(n, A)
    BY <1>n, <1>0, HoldersOwn
  <2>2. Unsettled(n, A)'
    BY <1>n, <1>0, <1>2, <2>1 DEF Unsettled, Past, Moved, Hands
  <2>3. ASSUME NEW i \in 1 .. Seeds, i # n PROVE Unsettled(i, A)' = Unsettled(i, A)
    BY <1>n, <1>0, <1>2, <2>3, MovedPast
  <2>4. Recorded = {i \in 1 .. Seeds : ends[i] # "invalid" /\ Unsettled(i, A)}
    BY DEF Recorded, Unsettled
  <2>5. Recorded' = {i \in 1 .. Seeds : ends[i] # "invalid" /\ Unsettled(i, A)'}
    BY <1>0 DEF Recorded, Unsettled
  <2> QED BY <1>0, <2>1, <2>2, <2>3, <2>4, <2>5
<1>7. Counted'
  <2>1. Recorded \subseteq 1 .. Seeds
    BY DEF Recorded
  <2>2. Cardinality(Recorded') = Cardinality(Recorded) + 1
    BY <1>6, <2>1, OneMore
  <2> QED BY <1>0, <1>5, <2>2 DEF Counted
<1>8. /\ d \in Seq(1 .. Seeds) /\ \A k \in 1 .. Len(d) : d[k] \in Recorded
      /\ \A j, k \in 1 .. Len(d) : j # k => d[j] # d[k]
      /\ Len(d) \in Nat /\ Len(d) = IF seen < Capacity THEN seen ELSE Capacity
  BY <1>d, <1>0 DEF PoolTypes, Reservoir
<1>9. IF Len(d) < Capacity THEN e = Append(d, n)
                           ELSE e = d \/ \E j \in 1 .. Len(d) : e = [d EXCEPT ![j] = n]
  <2>1. CASE Len(d) < Capacity
    BY <1>n, <1>d, <1>e, <2>1 DEF P!Record
  <2>2. CASE ~ (Len(d) < Capacity)
    <3>1. PICK j \in 1 .. seen + 1 : e = IF j <= Capacity THEN [d EXCEPT ![j] = n] ELSE d
      BY <1>n, <1>d, <1>e, <2>2 DEF P!Record
    <3>2. Len(d) = Capacity /\ Capacity \in Nat
      BY <1>0, <1>8, <2>2, ServicesAssumption
    <3>3. j <= Capacity => j \in 1 .. Len(d)
      BY <1>0, <3>1, <3>2
    <3> QED BY <2>2, <3>1, <3>3
  <2> QED BY <2>1, <2>2
<1>10. e = Append(d, n) \/ e = d \/ \E j \in 1 .. Len(d) : e = [d EXCEPT ![j] = n]
  BY <1>9
<1>11. PICK R : R = Recorded
  OBVIOUS
<1>12. /\ e \in Seq(1 .. Seeds) /\ \A k \in 1 .. Len(e) : e[k] \in R \cup {n}
       /\ \A j, k \in 1 .. Len(e) : j # k => e[j] # e[k]
       /\ Len(e) = IF e = Append(d, n) THEN Len(d) + 1 ELSE Len(d)
  <2>1. n \notin R /\ \A k \in 1 .. Len(d) : d[k] \in R
    BY <1>6, <1>8, <1>11
  <2>2. PICK U : U = 1 .. Seeds
    OBVIOUS
  <2>3. n \in U /\ d \in Seq(U)
    BY <1>6, <1>8, <2>2
  <2>4. \A j, k \in 1 .. Len(d) : j # k => d[j] # d[k]
    BY <1>8, Zenon
  <2>5. n \notin R /\ AllIn(d, R) /\ Distinct(d) /\ Takes(d, n, e)
    BY <1>10, <2>1, <2>4 DEF AllIn, Distinct, Takes
  <2>6. e \in Seq(U) /\ AllIn(e, R \cup {n}) /\ Distinct(e) /\ Longer(d, n, e)
    BY <2>3, <2>5, Sampled
  <2> QED BY <2>2, <2>6 DEF AllIn, Distinct, Longer
<1>13. Len(e) = IF seen + 1 < Capacity THEN seen + 1 ELSE Capacity
  <2>0. PICK U : U = 1 .. Seeds
    OBVIOUS
  <2>1. Len(Append(d, n)) = Len(d) + 1 /\ \A j \in 1 .. Len(d) : Len([d EXCEPT ![j] = n]) = Len(d)
    <3>1. d \in Seq(U) /\ n \in U
      BY <1>6, <1>8, <2>0
    <3> QED BY <3>1
  <2>2. Len(e) = IF Len(d) < Capacity THEN Len(d) + 1 ELSE Len(d)
    BY <1>8, <1>9, <2>1
  <2> QED BY <1>0, <1>8, <2>2, ServicesAssumption
<1>14. Reservoir'
  BY <1>e, <1>0, <1>6, <1>11, <1>12, <1>13 DEF Reservoir
<1>3. PoolTypes'
  <2>1. mu' \in 0 .. Workers
    BY <1>0, ServicesAssumption
  <2> QED BY <1>e, <1>0, <1>2, <1>12, <2>1 DEF PoolTypes
<1>15. heap <= heap' /\ next <= next' /\ wk[w].at # "gone"
  BY <1>0
<1>16. \A v \in P!Ids : wk'[v].at = "gone" => closed
  BY <1>2 DEF PoolInv, Stages, Moved
<1> QED BY <1>0, <1>3, <1>4, <1>7, <1>14, <1>15, <1>16, WorkerKeeps

\* A worker puts the result or the error in the seed's own slot.
LEMMA ReturnKeeps ==
  ASSUME PoolInv, NEW w \in P!Ids, P!Return(w)
  PROVE  PoolInv'
<1>n. PICK n : n = wk[w].seed
  OBVIOUS
<1>0. /\ PoolTypes /\ Hands /\ Settles /\ Counted /\ Reservoir /\ heap \in Nat /\ next \in Nat /\ mu # w
      /\ UNCHANGED <<ends, next, main, closed, answer, sampler, heapChurn, last, mu, durations, seen, allocBytes, heap>>
      /\ wk[w].at = "return" /\ wk' = [wk EXCEPT ![w] = [at |-> "take", seed |-> 0]]
      /\ n \in 1 .. Seeds /\ n # 0 /\ n < next /\ \A v \in P!Ids \ {w} : wk[v].seed # n
  <2>1. PoolTypes /\ Hands /\ Settles /\ Counted /\ Reservoir
    BY DEF PoolInv
  <2>2. /\ UNCHANGED <<ends, next, main, closed, answer, sampler, heapChurn, last, mu, durations, seen, allocBytes, heap>>
        /\ wk[w].at = "return" /\ wk' = [wk EXCEPT ![w] = [at |-> "take", seed |-> 0]]
    BY DEF P!Return, P!None, P!stats, P!churn
  <2>3. heap \in Nat /\ next \in Nat
    BY <2>1 DEF PoolTypes
  <2>4. mu # w /\ n # 0 /\ n < next /\ \A v \in P!Ids \ {w} : wk[v].seed # n
    BY <1>n, <2>1, <2>2 DEF Hands, Holding
  <2>5. n \in 1 .. Seeds
    BY <1>n, <2>4, HoldersOwn
  <2> QED BY <2>1, <2>2, <2>3, <2>4, <2>5
<1>1. IF ends[n] = "ok" THEN results' = [results EXCEPT ![n] = n] /\ UNCHANGED errs
                        ELSE errs' = [errs EXCEPT ![n] = ends[n]] /\ UNCHANGED results
  BY <1>n DEF P!Return
<1>2. \A v \in P!Ids : /\ v = w => wk'[v].at = "take" /\ wk'[v].seed = 0
                       /\ v # w => wk'[v] = wk[v]
  BY <1>0 DEF PoolTypes
<1>3. PoolTypes'
  <2>1. 0 \in 0 .. Seeds /\ n \in Nat /\ ends[n] \in {"ok", "invalid", "telemetry"}
    BY <1>0, ServicesAssumption DEF PoolTypes
  <2>2. wk' \in [P!Ids -> [at : {"take", "gone"} \cup Holding, seed : 0 .. Seeds]]
    BY <1>0, <2>1 DEF PoolTypes
  <2>3. results' \in [1 .. Seeds -> Nat] /\ errs' \in [1 .. Seeds -> {"nil", "invalid", "telemetry"}]
    BY <1>0, <1>1, <2>1 DEF PoolTypes
  <2> QED BY <1>0, <2>2, <2>3 DEF PoolTypes
<1>4. Hands'
  <2>1. 0 < next
    BY <1>0
  <2> SUFFICES ASSUME NEW v \in P!Ids
               PROVE  /\ wk'[v].seed = 0 <=> wk'[v].at \notin Holding
                      /\ wk'[v].seed < next'
                      /\ \A u \in P!Ids \ {v} : wk'[v].seed # 0 => wk'[u].seed # wk'[v].seed
                      /\ wk'[v].at = "locked" <=> mu' = v
                      /\ wk'[v].at \in {"observe", "locked", "add"} => ends'[wk'[v].seed] # "invalid"
    BY DEF Hands
  <2>2. CASE v = w
    BY <1>0, <1>2, <2>1, <2>2 DEF Holding
  <2>3. CASE v # w
    BY <1>0, <1>2, <2>3 DEF Hands
  <2> QED BY <2>2, <2>3
<1>5. ASSUME NEW i \in 1 .. Seeds, i # n, NEW A PROVE Unsettled(i, A)' = Unsettled(i, A)
  <2>1. i # 0
    OBVIOUS
  <2> QED BY <1>n, <1>0, <1>2, <1>5, <2>1 DEF Unsettled, Past
<1>6. ASSUME NEW A, "return" \in A PROVE Unsettled(n, A)' = Unsettled(n, A)
  <2>1. Unsettled(n, A)
    BY <1>n, <1>0, <1>6, HoldersOwn
  <2>2. Unsettled(n, A)'
    BY <1>0, <1>2 DEF Unsettled, Past
  <2> QED BY <2>1, <2>2
<1>7. Recorded' = Recorded /\ Added' = Added
  <2>1. \A i \in 1 .. Seeds : /\ Unsettled(i, {"add", "return"})' = Unsettled(i, {"add", "return"})
                             /\ Unsettled(i, {"return"})' = Unsettled(i, {"return"})
    BY <1>5, <1>6
  <2> QED BY <1>0, <2>1, CountsStay, BytesStay
<1>8. Settles'
  <2> SUFFICES ASSUME NEW i \in 1 .. Seeds
               PROVE  /\ errs'[i] # "nil" => errs'[i] = ends'[i]
                      /\ i < next' /\ Past(i, {})' => IF ends'[i] = "ok" THEN results'[i] = i ELSE errs'[i] = ends'[i]
    BY DEF Settles
  <2>1. CASE i = n
    BY <1>0, <1>1, <2>1 DEF Settles, PoolTypes
  <2>2. CASE i # n
    <3>1. Unsettled(i, {})' = Unsettled(i, {})
      BY <1>5, <2>2
    <3>2. results'[i] = results[i] /\ errs'[i] = errs[i]
      BY <1>0, <1>1, <2>2 DEF PoolTypes
    <3> QED BY <1>0, <3>1, <3>2 DEF Settles, Unsettled
  <2> QED BY <2>1, <2>2
<1>9. Counted' /\ Reservoir'
  BY <1>0, <1>7 DEF Counted, Reservoir
<1>10. heap <= heap' /\ next <= next' /\ wk[w].at # "gone"
  BY <1>0
<1>11. \A v \in P!Ids : wk'[v].at = "gone" => closed
  BY <1>2 DEF PoolInv, Stages
<1> QED BY <1>0, <1>3, <1>4, <1>8, <1>9, <1>10, <1>11, WorkerKeeps

\* Nothing of the pool changes where another part runs.
LEMMA PoolStutters == PoolInv /\ UNCHANGED poolVars => PoolInv'
<1> SUFFICES ASSUME PoolInv, UNCHANGED poolVars PROVE PoolInv'
  OBVIOUS
<1>1. Hands' /\ Settles' /\ Counted' /\ Reservoir'
  BY QuietKeeps DEF poolVars
<1>2. PoolTypes' /\ Stages' /\ Churned' /\ Taken'
  BY DEF poolVars, PoolInv, PoolTypes, Stages, Churned, Taken
<1>3. AnswersBySeed'
  BY DEF poolVars, PoolInv, AnswersBySeed, P!AnswersBySeed
<1> QED BY <1>1, <1>2, <1>3 DEF PoolInv

\* However the workers are scheduled.
LEMMA PoolHolds == Spec => []PoolInv
<1>1. Init => PoolInv
  BY PoolBegins DEF Init
<1>2. PoolInv /\ [Next]_vars => PoolInv'
  <2> SUFFICES ASSUME PoolInv, [Next]_vars PROVE PoolInv'
    OBVIOUS
  <2>1. CASE InPool(P!Next)
    <3>1. CASE \E w \in P!Ids : P!Step(w)
      BY <3>1, SendKeeps, FoldKeeps, ReturnKeeps, LeaveKeeps, LockKeeps, RecordKeeps, AddKeeps DEF P!Step
    <3>2. CASE P!Main \/ P!Tick \/ P!FinalSample
      BY <3>2, MainKeeps
    <3> QED BY <2>1, <3>1, <3>2 DEF InPool, P!Next
  <2>2. CASE UNCHANGED poolVars
    BY <2>2, PoolStutters
  <2> QED BY <2>1, <2>2 DEF Next, InBoot, InMatches, InSweep, vars
<1> QED BY <1>1, <1>2, PTL DEF Spec

\* RunMany answers with every seed's own result, or with the error of the first
\* seed that failed, for any number of seeds and workers in any order.
THEOREM RunManyAnswers == Spec => []AnswersBySeed
<1>1. PoolInv => AnswersBySeed
  BY DEF PoolInv
<1> QED BY <1>1, PoolHolds, PTL

\* The snapshot a run renders counts every observed fold and every byte they
\* churned, and its sample has each fold once, as many as it can hold
\* (FoldStats.Observe, churnSampler.stop, then the snapshot).
THEOREM SnapshotsCount == Spec => []SnapshotIsExact
<1>1. PoolInv => SnapshotIsExact
  <2> SUFFICES ASSUME PoolInv, main \in {"deferred", "exited"}
               PROVE  /\ snap.count = Cardinality(P!Observed) /\ snap.alloc = snap.count
                      /\ snap.churn = heap /\ snap.has = (heap > 0)
                      /\ {snap.drawn[k] : k \in 1 .. Len(snap.drawn)} \subseteq P!Observed
                      /\ \A j, k \in 1 .. Len(snap.drawn) : j # k => snap.drawn[j] # snap.drawn[k]
                      /\ Len(snap.drawn) = IF snap.count < Capacity THEN snap.count ELSE Capacity
    BY PoolCounts DEF SnapshotIsExact, P!SnapshotIsExact
  <2>1. /\ PoolTypes /\ Stages /\ Counted /\ Reservoir /\ Churned /\ Taken
        /\ next = Seeds + 1 /\ \A w \in P!Ids : wk[w].at = "gone"
    BY DEF PoolInv, PoolTypes, Stages
  <2>2. Recorded = P!Observed /\ Added = P!Observed
    <3>1. \A i \in 1 .. Seeds : i < next /\ Past(i, {})
      BY <2>1, AllSettled
    <3> QED BY <3>1 DEF Recorded, Added, Past, P!Observed
  <2>3. last = heap /\ heapChurn = last
    BY <2>1 DEF Stages, Churned
  <2>4. /\ snap.count = seen /\ snap.drawn = durations /\ snap.alloc = allocBytes /\ snap.churn = heapChurn
        /\ snap.has = (heapChurn > 0)
    <3>1. snap = [count |-> seen, drawn |-> durations, alloc |-> allocBytes, churn |-> heapChurn,
                  has |-> heapChurn > 0]
      BY <2>1, Zenon DEF Taken
    <3>2. /\ snap.count = seen /\ snap.drawn = durations /\ snap.alloc = allocBytes /\ snap.churn = heapChurn
      BY <3>1
    <3>3. snap.has = (heapChurn > 0)
      BY <3>1, Zenon
    <3> QED BY <3>2, <3>3
  <2>5. seen = Cardinality(P!Observed) /\ allocBytes = Cardinality(P!Observed)
    BY <2>1, <2>2 DEF Counted
  <2>6. /\ \A k \in 1 .. Len(durations) : durations[k] \in P!Observed
        /\ \A j, k \in 1 .. Len(durations) : j # k => durations[j] # durations[k]
        /\ Len(durations) = IF seen < Capacity THEN seen ELSE Capacity
    BY <2>1, <2>2 DEF Reservoir
  <2>7. {durations[k] : k \in 1 .. Len(durations)} \subseteq P!Observed
    BY <2>6
  <2> QED BY <2>3, <2>4, <2>5, <2>6, <2>7
<1> QED BY <1>1, PoolHolds, PTL

-------------------------------------------------------------------------------
(* Sweep: what is in its two files.                                          *)

LineKeys == S!Keys \cup {<<>>} \cup {<<r.sha>> : r \in Sweeps}
Lines == {l \in [kind : {"no file", "provenance", "header", "row"}, key : LineKeys, status : {"", "ok", "error"},
                 text : {"whole", "short", "open", "joined"}] : l.kind = "provenance" => l.status = ""}

SweepTypes ==
  /\ out \in Seq(Lines) /\ brk \in Seq(Lines)
  /\ spc \in {"exited", "report", "breakdown", "point", "row"}
  /\ run \in Sweeps /\ done \subseteq S!Keys /\ anyErr \in BOOLEAN /\ at \in 1 .. Len(S!Points) + 1

\* From its third line on, the results file has a row of a point on each.
IsRow(line) == line.kind = "row" /\ line.key \in S!Keys /\ line.status \in {"ok", "error"}
RowsOnly == \A k \in 3 .. Len(out) : IsRow(out[k])

\* Only its last line is one that a cut has left, and where none was written on,
\* its rows are those of the first points.
Orderly ==
  /\ \A k \in 1 .. Len(out) : out[k].text \in S!Cuts => k = Len(out)
  /\ (\A k \in 1 .. Len(out) : out[k].text # "joined") =>
       \A k \in 3 .. Len(out) : k - 2 <= Len(S!Points) /\ out[k].key = S!Points[k - 2]

\* The one line that is not whole is g, or none is and g is past the last.  A
\* joined one took two rows: the points after it are a line ahead.
Joins(g) == g <= Len(out) /\ out[g].text = "joined"
Shape(g) ==
  /\ g \in 2 .. Len(out) + 1
  /\ \A k \in 1 .. Len(out) : k # g => out[k].text = "whole"
  /\ g <= Len(out) => out[g].text = "joined" \/ (out[g].text = "open" /\ g = Len(out))
  /\ \A k \in 3 .. Len(out) : out[k].key = S!Points[IF k <= g THEN k - 2 ELSE k - 1]
Held(g) == IF Joins(g) THEN Len(out) - 1 ELSE Len(out) - 2

\* Past the opening of its report, a run has before it a file of its own sweep,
\* of that shape, with the points that are done or that it has been at.
Reached == IF spc = "row" THEN at ELSE at - 1
Behind(m) == S!Points[m] \in done \/ m <= Reached
Counts(g) == Held(g) <= Len(S!Points) /\ \A m \in 1 .. Len(S!Points) : Behind(m) <=> m <= Held(g)
Running ==
  spc \in {"breakdown", "point", "row"} =>
    /\ Len(out) >= 2 /\ out[1].kind = "provenance" /\ out[1].key = <<run.sha>>
    /\ \A k \in 3 .. Len(out) : out[k].status = "error" => anyErr
    /\ \E g \in Nat : Shape(g) /\ Counts(g)
AtRow == spc = "row" => at <= Len(S!Points) /\ run.breakdown
AtOpening == /\ spc \in {"report", "breakdown"} => at = 1
             /\ spc = "report" => done = {}

\* The breakdown of a run that writes one is whole, and so is every row before
\* it; and it has no row of a point that the results file has not.
BreakdownOpen ==
  spc \in {"point", "row"} /\ run.breakdown =>
    Len(brk) >= 2 /\ S!Intact(brk) /\ \A k \in 3 .. Len(out) : out[k].text = "whole"
HeadJoined == Len(out) >= 2 /\ out[2].text = "joined"
BreakdownBehind ==
  \A k \in 3 .. Len(brk) : S!HasRow(brk[k].key) \/ (brk[k].key = S!Points[1] /\ HeadJoined)

SweepInv == /\ SweepTypes /\ RowsOnly /\ Orderly /\ Running /\ AtRow /\ AtOpening
            /\ BreakdownOpen /\ BreakdownBehind /\ SweptInFull

\* The points are numbered, each a key, and no two the same.
LEMMA PointsNumbered ==
  /\ Len(S!Points) \in Nat /\ S!Points \in Seq(S!Keys)
  /\ \A k \in 1 .. Len(S!Points) : S!Points[k] \in S!Keys
  /\ \A p \in S!Keys : \E k \in 1 .. Len(S!Points) : p = S!Points[k]
  /\ \A j, k \in 1 .. Len(S!Points) : S!Points[j] = S!Points[k] => j = k
<1>1. S!Points \in Seq(S!Keys) /\ \A j, k \in DOMAIN S!Points : S!Points[j] = S!Points[k] => j = k
  BY SweepAssumption DEF IsInjective
<1>2. Len(S!Points) \in Nat /\ DOMAIN S!Points = 1 .. Len(S!Points)
  BY <1>1
<1> QED BY <1>1, <1>2 DEF S!Keys

\* A line is put on the last one where that was cut, and after it otherwise.
LEMMA Puts ==
  ASSUME NEW s \in Seq(Lines), Len(s) >= 1, NEW l \in Lines
  PROVE  /\ S!Put(s, l) \in Seq(Lines)
         /\ s[Len(s)].text \in S!Cuts =>
              /\ Len(S!Put(s, l)) = Len(s)
              /\ S!Put(s, l)[Len(s)] = [s[Len(s)] EXCEPT !.text = "joined"]
              /\ \A k \in 1 .. Len(s) - 1 : S!Put(s, l)[k] = s[k]
         /\ s[Len(s)].text \notin S!Cuts =>
              /\ Len(S!Put(s, l)) = Len(s) + 1 /\ S!Put(s, l)[Len(s) + 1] = l
              /\ \A k \in 1 .. Len(s) : S!Put(s, l)[k] = s[k]
<1>1. Len(s) \in Nat /\ s # <<>> /\ S!Last(s) = s[Len(s)] /\ s[Len(s)] \in Lines
  BY DEF S!Last
<1>2. CASE s[Len(s)].text \in S!Cuts
  <2>1. PICK e : e = [s[Len(s)] EXCEPT !.text = "joined"]
    OBVIOUS
  <2>2. e \in Lines
    BY <1>1, <2>1 DEF Lines
  <2>3. S!Put(s, l) = Append(S!Front(s), e)
    BY <1>1, <1>2, <2>1 DEF S!Put, S!Unended
  <2>4. /\ S!Front(s) \in Seq(Lines) /\ Len(S!Front(s)) = Len(s) - 1
        /\ \A k \in 1 .. Len(s) - 1 : S!Front(s)[k] = s[k]
    <3>1. S!Front(s) = SubSeq(s, 1, Len(s) - 1) /\ Len(s) - 1 \in 0 .. Len(s)
      BY <1>1 DEF S!Front
    <3>2. PICK m : m = Len(s) - 1
      OBVIOUS
    <3>3. SubSeq(s, 1, m) \in Seq(Lines) /\ Len(SubSeq(s, 1, m)) = m /\ \A k \in 1 .. m : SubSeq(s, 1, m)[k] = s[k]
      BY <1>1, <3>1, <3>2
    <3> QED BY <3>1, <3>2, <3>3
  <2>5. PICK f : f = S!Front(s)
    OBVIOUS
  <2>6. /\ Append(f, e) \in Seq(Lines) /\ Len(Append(f, e)) = Len(s) /\ Append(f, e)[Len(s)] = e
        /\ \A k \in 1 .. Len(s) - 1 : Append(f, e)[k] = s[k]
    BY <1>1, <2>2, <2>4, <2>5
  <2> QED BY <1>2, <2>1, <2>3, <2>5, <2>6
<1>3. CASE s[Len(s)].text \notin S!Cuts
  <2>1. S!Put(s, l) = Append(s, l)
    BY <1>1, <1>3 DEF S!Put, S!Unended
  <2>2. /\ Append(s, l) \in Seq(Lines) /\ Len(Append(s, l)) = Len(s) + 1 /\ Append(s, l)[Len(s) + 1] = l
        /\ \A k \in 1 .. Len(s) : Append(s, l)[k] = s[k]
    BY <1>1
  <2> QED BY <1>3, <2>1, <2>2
<1> QED BY <1>2, <1>3

\* No file, nothing done.
LEMMA SweepBegins == S!Init => SweepInv
<1> SUFFICES ASSUME S!Init PROVE SweepInv
  OBVIOUS
<1>1. /\ S!Absent \in Seq(Lines) /\ Len(S!Absent) = 1 /\ S!Absent[1].text = "whole"
  <2>1. <<>> \in LineKeys
    BY DEF LineKeys
  <2>2. S!Line("no file", <<>>, "", "whole") \in Lines /\ S!Line("no file", <<>>, "", "whole").text = "whole"
    BY <2>1 DEF S!Line, Lines
  <2>3. \A l \in Lines : <<l>> \in Seq(Lines) /\ Len(<<l>>) = 1 /\ <<l>>[1] = l
    OBVIOUS
  <2> QED BY <2>2, <2>3, Zenon DEF S!Absent
<1>2. /\ out = S!Absent /\ brk = S!Absent /\ spc = "exited" /\ run \in Sweeps /\ done = {} /\ anyErr = FALSE
      /\ at = 1 /\ sexit = "failure"
  BY DEF S!Init
<1>3. SweepTypes
  <2>1. at \in 1 .. Len(S!Points) + 1
    BY <1>2, PointsNumbered
  <2> QED BY <1>1, <1>2, <2>1 DEF SweepTypes
<1>4. RowsOnly /\ Orderly /\ BreakdownBehind
  <2>1. Len(out) = 1 /\ Len(brk) = 1 /\ out[1].text = "whole"
    BY <1>1, <1>2
  <2> QED BY <2>1 DEF RowsOnly, Orderly, BreakdownBehind, S!Cuts
<1> QED BY <1>2, <1>3, <1>4 DEF SweepInv, Running, AtRow, AtOpening, BreakdownOpen, SweptInFull, S!SuccessIsComplete

\* A run that ends in failure leaves nothing to check but its lines.
LEMMA FailureKeeps ==
  ASSUME SweepInv, spc' = "exited", sexit' = "failure", UNCHANGED <<run, done, at>>, anyErr' \in BOOLEAN,
         out' \in Seq(Lines), brk' \in Seq(Lines), RowsOnly', Orderly', BreakdownBehind'
  PROVE  SweepInv'
<1>1. SweepTypes'
  BY DEF SweepInv, SweepTypes
<1> QED BY <1>1 DEF SweepInv, Running, AtRow, AtOpening, BreakdownOpen, SweptInFull, S!SuccessIsComplete

\* The rows are as they were.
LEMMA SameRows ==
  ASSUME SweepInv, UNCHANGED out
  PROVE  /\ RowsOnly' /\ Orderly' /\ (HeadJoined' <=> HeadJoined)
         /\ \A p : S!HasRow(p)' <=> S!HasRow(p)
         /\ \A g : (Shape(g)' <=> Shape(g)) /\ Held(g)' = Held(g)
<1>1. RowsOnly' /\ Orderly' /\ (HeadJoined' <=> HeadJoined) /\ \A p : S!HasRow(p)' <=> S!HasRow(p)
  BY DEF SweepInv, RowsOnly, Orderly, HeadJoined, S!HasRow
<1>2. \A g : (Shape(g)' <=> Shape(g)) /\ Held(g)' = Held(g)
  BY DEF Shape, Held, Joins
<1> QED BY <1>1, <1>2

\* And so is the breakdown.
LEMMA SameBreakdown ==
  ASSUME SweepInv, UNCHANGED <<out, brk>>
  PROVE  BreakdownBehind'
BY SameRows DEF SweepInv, BreakdownBehind

\* Lines that hold no row, of a file not there before.
LEMMA HeadOnly ==
  ASSUME SweepInv, out = S!Absent, out' \in Seq(Lines), Len(out') <= 2, UNCHANGED brk,
         \A k \in 1 .. Len(out') : out'[k].text \in S!Cuts => k = Len(out')
  PROVE  RowsOnly' /\ Orderly' /\ BreakdownBehind'
<1>1. Len(out) = 1
  BY DEF S!Absent
<1>2. Len(out') \in Nat /\ Len(brk) \in Nat
  BY DEF SweepInv, SweepTypes
<1>3. Len(brk) < 3
  <2> SUFFICES ASSUME Len(brk) >= 3 PROVE FALSE
    BY <1>2
  <2>1. 3 \in 3 .. Len(brk)
    BY <1>2
  <2>2. S!HasRow(brk[3].key) \/ HeadJoined
    BY <2>1 DEF SweepInv, BreakdownBehind
  <2> QED BY <1>1, <2>2 DEF S!HasRow, HeadJoined
<1> QED BY <1>2, <1>3 DEF RowsOnly, Orderly, BreakdownBehind

\* The point a run is at is the one after those that the file holds.
LEMMA AtNext ==
  ASSUME SweepInv, spc = "point", at <= Len(S!Points), S!Points[at] \notin done
  PROVE  \E g \in Nat : Shape(g) /\ Held(g) = at - 1
<1>1. PICK g \in Nat : Shape(g) /\ Counts(g)
  BY DEF SweepInv, Running
<1>2. PICK n : n = Held(g)
  OBVIOUS
<1>3. Len(out) \in Nat /\ Len(out) >= 2 /\ at \in 1 .. Len(S!Points) /\ Len(S!Points) \in Nat
  BY PointsNumbered DEF SweepInv, SweepTypes, Running
<1>4. n \in Nat
  BY <1>2, <1>3 DEF Held
<1>5. \A m \in 1 .. Len(S!Points) : (S!Points[m] \in done \/ m <= at - 1) <=> m <= n
  BY <1>1, <1>2 DEF Counts, Behind, Reached
<1>6. at > n
  BY <1>3, <1>4, <1>5
<1>7. at > 1 => at - 1 <= n
  BY <1>3, <1>5
<1>8. n = at - 1
  BY <1>3, <1>4, <1>6, <1>7
<1> QED BY <1>1, <1>2, <1>8

\* Its row goes on the line that was cut, or after the last one.
LEMMA RowPut ==
  ASSUME SweepInv, spc = "point", at <= Len(S!Points), S!Points[at] \notin done,
         NEW l \in Lines, out' = S!Put(out, l)
  PROVE  /\ Len(out) \in Nat /\ Len(out) >= 2 /\ out' \in Seq(Lines) /\ out'[1] = out[1]
         /\ \/ /\ Shape(Len(out)) /\ out[Len(out)].text = "open" /\ Len(out) = at + 1
               /\ Len(out') = Len(out) /\ out'[Len(out)] = [out[Len(out)] EXCEPT !.text = "joined"]
               /\ \A k \in 1 .. Len(out) - 1 : out'[k] = out[k]
            \/ /\ Len(out') = Len(out) + 1 /\ out'[Len(out) + 1] = l
               /\ \A k \in 1 .. Len(out) : out'[k] = out[k]
               /\ \/ Shape(Len(out) + 1) /\ Len(out) = at + 1
                  \/ \E g \in 2 .. Len(out) : Shape(g) /\ out[g].text = "joined" /\ Len(out) = at
<1>1. out \in Seq(Lines) /\ Len(out) \in Nat /\ Len(out) >= 2 /\ at \in Nat
  BY PointsNumbered DEF SweepInv, SweepTypes, Running
<1>2. PICK g \in Nat : Shape(g) /\ Held(g) = at - 1
  BY AtNext
<1>3. g \in 2 .. Len(out) + 1
  BY <1>2 DEF Shape
<1>4. PICK o : o = S!Put(out, l)
  OBVIOUS
<1>5. PICK n : n = Len(out)
  OBVIOUS
<1>6. /\ o \in Seq(Lines)
      /\ out[n].text \in S!Cuts =>
           /\ Len(o) = n /\ o[n] = [out[n] EXCEPT !.text = "joined"] /\ \A k \in 1 .. n - 1 : o[k] = out[k]
      /\ out[n].text \notin S!Cuts => /\ Len(o) = n + 1 /\ o[n + 1] = l /\ \A k \in 1 .. n : o[k] = out[k]
  <2>1. Len(out) >= 1
    BY <1>1
  <2>2. /\ S!Put(out, l) \in Seq(Lines)
        /\ out[Len(out)].text \in S!Cuts =>
             /\ Len(S!Put(out, l)) = Len(out)
             /\ S!Put(out, l)[Len(out)] = [out[Len(out)] EXCEPT !.text = "joined"]
             /\ \A k \in 1 .. Len(out) - 1 : S!Put(out, l)[k] = out[k]
        /\ out[Len(out)].text \notin S!Cuts =>
             /\ Len(S!Put(out, l)) = Len(out) + 1 /\ S!Put(out, l)[Len(out) + 1] = l
             /\ \A k \in 1 .. Len(out) : S!Put(out, l)[k] = out[k]
    BY <1>1, <2>1, Puts, Zenon
  <2> QED BY <1>4, <1>5, <2>2
<1>7. n \in Nat /\ n >= 2 /\ 1 \in 1 .. n - 1 /\ 1 \in 1 .. n
  BY <1>1, <1>5
<1>8. o[1] = out[1]
  BY <1>6, <1>7
<1>9. CASE g <= n /\ out[g].text = "open"
  <2>1. g = n
    BY <1>2, <1>5, <1>9 DEF Shape
  <2>2. n = at + 1
    BY <1>1, <1>2, <1>5, <1>7, <1>9 DEF Held, Joins
  <2> QED BY <1>2, <1>4, <1>5, <1>6, <1>7, <1>8, <1>9, <2>1, <2>2 DEF S!Cuts
<1>10. CASE g <= n /\ out[g].text = "joined"
  <2>1. n = at
    BY <1>1, <1>2, <1>5, <1>7, <1>10 DEF Held, Joins
  <2>2. out[n].text \notin S!Cuts
    BY <1>2, <1>5, <1>7, <1>10 DEF Shape, S!Cuts
  <2>3. g \in 2 .. n
    BY <1>3, <1>5, <1>7, <1>10
  <2> QED BY <1>2, <1>4, <1>5, <1>6, <1>7, <1>8, <1>10, <2>1, <2>2, <2>3
<1>11. CASE g = n + 1
  <2>1. n = at + 1
    BY <1>1, <1>2, <1>5, <1>7, <1>11 DEF Held, Joins
  <2>2. out[n].text \notin S!Cuts
    BY <1>2, <1>5, <1>7, <1>11 DEF Shape, S!Cuts
  <2> QED BY <1>2, <1>4, <1>5, <1>6, <1>7, <1>8, <1>11, <2>1, <2>2
<1>12. g <= n \/ g = n + 1
  BY <1>3, <1>5, <1>7
<1> QED BY <1>2, <1>5, <1>9, <1>10, <1>11, <1>12 DEF Shape

\* Which keeps the files in order, whether it is the whole row or part of it; and a
\* whole one keeps the shape.
LEMMA RowAdded ==
  ASSUME SweepInv, spc = "point", at <= Len(S!Points), S!Points[at] \notin done, UNCHANGED brk,
         NEW l \in Lines, IsRow(l), l.key = S!Points[at], l.text # "joined", out' = S!Put(out, l)
  PROVE  /\ out' \in Seq(Lines) /\ Len(out') >= 2 /\ out'[1] = out[1]
         /\ RowsOnly' /\ Orderly' /\ BreakdownBehind'
         /\ \A k \in 3 .. Len(out') : out'[k] = l \/ (k \in 3 .. Len(out) /\ out'[k].status = out[k].status)
         /\ (\A k \in 3 .. Len(out) : out[k].text = "whole") /\ l.text = "whole" =>
              \A k \in 3 .. Len(out') : out'[k].text = "whole"
         /\ l.text = "whole" => \E g \in Nat : Shape(g)' /\ Held(g)' = at
<1>1. /\ out \in Seq(Lines) /\ Len(out) \in Nat /\ Len(out) >= 2 /\ out' \in Seq(Lines) /\ out'[1] = out[1]
      /\ at \in Nat /\ at >= 1
  BY RowPut DEF SweepInv, SweepTypes
<1>2. PICK n : n = Len(out)
  OBVIOUS
<1>3. /\ \A k \in 3 .. n : IsRow(out[k])
      /\ \A k \in 3 .. Len(brk) : S!HasRow(brk[k].key) \/ (brk[k].key = S!Points[1] /\ HeadJoined)
  BY <1>2 DEF SweepInv, RowsOnly, BreakdownBehind
<1>4. CASE /\ Shape(n) /\ out[n].text = "open" /\ n = at + 1
           /\ Len(out') = n /\ out'[n] = [out[n] EXCEPT !.text = "joined"]
           /\ \A k \in 1 .. n - 1 : out'[k] = out[k]
  <2>1. \A k \in 1 .. n : k = n \/ k \in 1 .. n - 1
    BY <1>1, <1>2
  <2>2. out[n] \in Lines /\ n \in 1 .. n
    BY <1>1, <1>2
  <2>3. /\ out'[n].text = "joined" /\ out'[n].kind = out[n].kind /\ out'[n].key = out[n].key
        /\ out'[n].status = out[n].status
    BY <1>4, <2>2 DEF Lines
  <2>4. \A k \in 1 .. n : /\ out'[k].kind = out[k].kind /\ out'[k].key = out[k].key
                          /\ out'[k].status = out[k].status
    BY <1>4, <2>1, <2>3
  <2>5. \A k \in 3 .. n : k \in 1 .. n
    BY <1>1, <1>2
  <2>6. RowsOnly'
    BY <1>3, <1>4, <2>4, <2>5 DEF RowsOnly, IsRow
  <2>7. \A k \in 1 .. n - 1 : out'[k].text = "whole"
    <3>1. \A k \in 1 .. n - 1 : k \in 1 .. n /\ k # n
      BY <1>1, <1>2
    <3>2. \A k \in 1 .. n : k # n => out[k].text = "whole"
      BY <1>2, <1>4 DEF Shape
    <3> QED BY <1>4, <3>1, <3>2
  <2>8. Orderly'
    BY <1>4, <2>2, <2>1, <2>3, <2>7 DEF Orderly, S!Cuts
  <2>9. \A p : S!HasRow(p) => S!HasRow(p)'
    <3> SUFFICES ASSUME NEW p, NEW k \in 3 .. n, out[k].key = p, out[k].text = "whole" PROVE S!HasRow(p)'
      BY <1>2 DEF S!HasRow
    <3>1. k \in 1 .. n - 1
      BY <1>1, <1>2, <1>4
    <3> QED BY <1>4, <3>1 DEF S!HasRow
  <2>10. HeadJoined => HeadJoined'
    BY <1>1, <1>2, <1>4 DEF HeadJoined
  <2>11. BreakdownBehind'
    BY <1>3, <2>9, <2>10 DEF BreakdownBehind
  <2>12. Shape(n)' /\ Held(n)' = at
    <3>1. n \in 2 .. Len(out') + 1
      BY <1>1, <1>2, <1>4
    <3>2. \A k \in 1 .. Len(out') : k # n => out'[k].text = "whole"
      BY <1>4, <2>1, <2>7
    <3>3. \A k \in 3 .. Len(out') : out'[k].key = S!Points[IF k <= n THEN k - 2 ELSE k - 1]
      BY <1>2, <1>4, <2>4, <2>5 DEF Shape
    <3>4. Shape(n)'
      BY <2>3, <3>1, <3>2, <3>3 DEF Shape
    <3> QED BY <1>1, <1>2, <1>4, <2>3, <3>4 DEF Held, Joins
  <2>13. ASSUME \A k \in 3 .. Len(out) : out[k].text = "whole" PROVE \A k \in 3 .. Len(out') : out'[k].text = "whole"
    <3>1. n \notin 3 .. n
      BY <1>2, <1>4, <2>13
    <3>2. n = 2
      BY <1>1, <1>2, <3>1
    <3> QED BY <1>4, <3>2
  <2> QED BY <1>1, <1>2, <1>4, <2>4, <2>5, <2>6, <2>8, <2>11, <2>12, <2>13
<1>5. CASE /\ Len(out') = n + 1 /\ out'[n + 1] = l /\ \A k \in 1 .. n : out'[k] = out[k]
           /\ \/ Shape(n + 1) /\ n = at + 1
              \/ \E g \in 2 .. n : Shape(g) /\ out[g].text = "joined" /\ n = at
  <2>1. \A k \in 1 .. n + 1 : k = n + 1 \/ k \in 1 .. n
    BY <1>1, <1>2
  <2>2. \A k \in 3 .. n + 1 : k = n + 1 \/ (k \in 3 .. n /\ k \in 1 .. n)
    BY <1>1, <1>2
  <2>3. RowsOnly'
    BY <1>3, <1>5, <2>2 DEF RowsOnly, IsRow
  <2>4. \A p : S!HasRow(p) => S!HasRow(p)'
    <3> SUFFICES ASSUME NEW p, NEW k \in 3 .. n, out[k].key = p, out[k].text = "whole" PROVE S!HasRow(p)'
      BY <1>2 DEF S!HasRow
    <3>1. k \in 1 .. n /\ k \in 3 .. Len(out')
      BY <1>1, <1>2, <1>5
    <3> QED BY <1>5, <3>1 DEF S!HasRow
  <2>5. HeadJoined => HeadJoined'
    <3>1. 2 \in 1 .. n
      BY <1>1, <1>2
    <3> QED BY <1>1, <1>2, <1>5, <3>1 DEF HeadJoined
  <2>6. BreakdownBehind'
    BY <1>3, <2>4, <2>5 DEF BreakdownBehind
  <2>7. n \in Nat /\ n >= 2
    BY <1>1, <1>2
  <2>8. \A k \in 1 .. n : out[k].text \notin S!Cuts
    BY <1>2, <1>5, <2>7 DEF Shape, S!Cuts
  <2>9. \A k \in 1 .. Len(out') : out'[k].text \in S!Cuts => k = Len(out')
    BY <1>5, <2>1, <2>8
  <2>10. ASSUME \A k \in 1 .. Len(out') : out'[k].text # "joined"
         PROVE  \A k \in 3 .. Len(out') : k - 2 <= Len(S!Points) /\ out'[k].key = S!Points[k - 2]
    <3>1. \A k \in 1 .. n : k \in 1 .. Len(out') /\ out'[k] = out[k]
      BY <1>5, <2>7
    <3>2. Shape(n + 1) /\ n = at + 1
      BY <1>5, <2>7, <2>10, <3>1
    <3>3. \A k \in 3 .. n : out[k].key = S!Points[k - 2]
      BY <1>2, <2>7, <3>2 DEF Shape
    <3>4. Len(S!Points) \in Nat
      BY PointsNumbered
    <3> SUFFICES ASSUME NEW k \in 3 .. n + 1 PROVE k - 2 <= Len(S!Points) /\ out'[k].key = S!Points[k - 2]
      BY <1>5
    <3>5. k - 2 <= Len(S!Points)
      BY <1>1, <2>7, <3>2, <3>4
    <3>6. CASE k = n + 1
      <4>1. k - 2 = at
        BY <1>1, <2>7, <3>2, <3>6
      <4> QED BY <1>5, <3>5, <3>6, <4>1
    <3>7. CASE k \in 3 .. n /\ k \in 1 .. n
      BY <1>5, <3>3, <3>5, <3>7
    <3> QED BY <2>2, <3>6, <3>7
  <2>11. Orderly'
    BY <2>9, <2>10 DEF Orderly
  <2>12. ASSUME l.text = "whole" PROVE \E g \in Nat : Shape(g)' /\ Held(g)' = at
    <3>1. CASE Shape(n + 1) /\ n = at + 1
      <4>1. n + 2 \in 2 .. Len(out') + 1 /\ n + 2 \in Nat
        BY <1>5, <2>7
      <4>2. \A k \in 1 .. Len(out') : out'[k].text = "whole"
        BY <1>2, <1>5, <2>1, <2>7, <2>12, <3>1 DEF Shape
      <4>3. \A k \in 3 .. n : out[k].key = S!Points[k - 2]
        BY <1>2, <2>7, <3>1 DEF Shape
      <4>4. \A k \in 3 .. n + 1 : out'[k].key = S!Points[k - 2]
        <5> SUFFICES ASSUME NEW k \in 3 .. n + 1 PROVE out'[k].key = S!Points[k - 2]
          OBVIOUS
        <5>1. CASE k = n + 1
          <6>1. k - 2 = at
            BY <1>1, <2>7, <3>1, <5>1
          <6> QED BY <1>5, <5>1, <6>1
        <5> QED BY <1>5, <2>2, <4>3, <5>1
      <4>5. Shape(n + 2)'
        BY <1>5, <2>7, <4>1, <4>2, <4>4 DEF Shape
      <4>6. Held(n + 2)' = at
        BY <1>1, <1>5, <2>7, <3>1 DEF Held, Joins
      <4> QED BY <4>1, <4>5, <4>6
    <3>2. CASE \E g \in 2 .. n : Shape(g) /\ out[g].text = "joined" /\ n = at
      <4>1. PICK g \in 2 .. n : Shape(g) /\ out[g].text = "joined" /\ n = at
        BY <3>2
      <4>2. g \in 2 .. Len(out') + 1 /\ g \in Nat /\ g \in 1 .. n
        BY <1>5, <2>7
      <4>3. \A k \in 1 .. Len(out') : k # g => out'[k].text = "whole"
        BY <1>2, <1>5, <2>1, <2>12, <4>1 DEF Shape
      <4>4. \A k \in 3 .. n + 1 : out'[k].key = S!Points[IF k <= g THEN k - 2 ELSE k - 1]
        <5> SUFFICES ASSUME NEW k \in 3 .. n + 1 PROVE out'[k].key = S!Points[IF k <= g THEN k - 2 ELSE k - 1]
          OBVIOUS
        <5>1. CASE k = n + 1
          <6>1. k - 1 = at /\ ~ k <= g
            BY <1>1, <2>7, <4>1, <5>1
          <6> QED BY <1>5, <5>1, <6>1
        <5> QED BY <1>2, <1>5, <2>2, <4>1, <5>1 DEF Shape
      <4>5. out'[g] = out[g]
        BY <1>5, <4>2
      <4>6. Shape(g)'
        BY <1>5, <2>7, <4>1, <4>2, <4>3, <4>4, <4>5 DEF Shape
      <4>7. Held(g)' = at
        BY <1>1, <1>5, <2>7, <4>1, <4>2, <4>5 DEF Held, Joins
      <4> QED BY <4>2, <4>6, <4>7
    <3> QED BY <1>5, <3>1, <3>2
  <2>13. ASSUME \A k \in 3 .. Len(out) : out[k].text = "whole", l.text = "whole"
         PROVE  \A k \in 3 .. Len(out') : out'[k].text = "whole"
    BY <1>2, <1>5, <2>2, <2>13
  <2>14. Len(out') >= 2
    BY <1>5, <2>7
  <2>15. \A k \in 3 .. Len(out') : out'[k] = l \/ (k \in 3 .. Len(out) /\ out'[k].status = out[k].status)
    BY <1>2, <1>5, <2>2
  <2> QED BY <1>1, <2>3, <2>6, <2>11, <2>12, <2>13, <2>14, <2>15
<1> QED BY <1>2, <1>4, <1>5, RowPut

\* One more line of the breakdown, of a row that the results file has.
LEMMA BreakdownAdded ==
  ASSUME SweepInv, S!Intact(brk), Len(brk) >= 2, NEW l \in Lines, brk' = S!Put(brk, l), UNCHANGED out,
         S!HasRow(l.key) \/ (l.key = S!Points[1] /\ HeadJoined)
  PROVE  /\ brk' \in Seq(Lines) /\ BreakdownBehind' /\ Len(brk') = Len(brk) + 1
         /\ Len(brk) \in Nat /\ brk'[Len(brk) + 1] = l /\ \A k \in 1 .. Len(brk) : brk'[k] = brk[k]
<1>1. brk \in Seq(Lines) /\ Len(brk) \in Nat
  BY DEF SweepInv, SweepTypes
<1>2. brk[Len(brk)].text \notin S!Cuts
  BY <1>1 DEF S!Intact, S!Cuts
<1>3. /\ brk' \in Seq(Lines) /\ Len(brk') = Len(brk) + 1
      /\ brk'[Len(brk) + 1] = l /\ \A k \in 1 .. Len(brk) : brk'[k] = brk[k]
  <2>1. Len(brk) >= 1
    BY <1>1
  <2>2. /\ S!Put(brk, l) \in Seq(Lines) /\ Len(S!Put(brk, l)) = Len(brk) + 1
        /\ S!Put(brk, l)[Len(brk) + 1] = l /\ \A k \in 1 .. Len(brk) : S!Put(brk, l)[k] = brk[k]
    BY <1>1, <1>2, <2>1, Puts, Zenon
  <2>3. PICK b : b = S!Put(brk, l)
    OBVIOUS
  <2> QED BY <2>2, <2>3
<1>4. \A k \in 3 .. Len(brk) + 1 : k = Len(brk) + 1 \/ (k \in 3 .. Len(brk) /\ k \in 1 .. Len(brk))
  BY <1>1
<1>5. \A k \in 3 .. Len(brk') : S!HasRow(brk'[k].key) \/ (brk'[k].key = S!Points[1] /\ HeadJoined)
  BY <1>3, <1>4 DEF SweepInv, BreakdownBehind
<1>6. BreakdownBehind'
  BY <1>5, SameRows DEF BreakdownBehind
<1> QED BY <1>1, <1>3, <1>6

\* A row of a point is a line, and so is what a cut leaves of it.
LEMMA RowIs ==
  ASSUME NEW k \in 1 .. Len(S!Points)
  PROVE  /\ S!Row(k) \in Lines /\ IsRow(S!Row(k)) /\ S!Row(k).key = S!Points[k] /\ S!Row(k).text = "whole"
         /\ S!Row(k).status = "error" <=> S!Points[k] \in broken
         /\ \A t \in S!Cuts : LET cut == [S!Row(k) EXCEPT !.text = t]
                              IN  cut \in Lines /\ IsRow(cut) /\ cut.key = S!Points[k] /\ cut.text = t
BY PointsNumbered DEF S!Row, S!Line, S!Cuts, Lines, LineKeys, IsRow

\* The two lines a file opens with.
LEMMA HeadIs ==
  ASSUME SweepTypes
  PROVE  /\ S!Provenance \in Lines /\ S!Header \in Lines
         /\ \A t \in S!Cuts : [S!Provenance EXCEPT !.text = t] \in Lines /\ [S!Header EXCEPT !.text = t] \in Lines
         /\ S!Provenance.kind = "provenance" /\ S!Provenance.key = <<run.sha>>
         /\ S!Provenance.text = "whole" /\ S!Header.text = "whole"
<1>1. <<run.sha>> \in LineKeys /\ <<>> \in LineKeys
  BY DEF LineKeys, SweepTypes
<1> QED BY <1>1 DEF S!Provenance, S!Header, S!Line, S!Cuts, Lines

\* A run starts with nothing done.
LEMMA StartKeeps ==
  ASSUME SweepInv, NEW r \in Sweeps, S!Start(r)
  PROVE  SweepInv'
<1>1. /\ spc' = "report" /\ run' \in Sweeps /\ done' = {} /\ anyErr' = FALSE /\ at' = 1
      /\ UNCHANGED <<out, brk>>
  BY DEF S!Start
<1>2. SweepTypes'
  <2>1. at' \in 1 .. Len(S!Points) + 1
    BY <1>1, PointsNumbered
  <2> QED BY <1>1, <2>1 DEF SweepInv, SweepTypes
<1>3. RowsOnly' /\ Orderly' /\ BreakdownBehind'
  BY <1>1, SameRows, SameBreakdown
<1> QED BY <1>1, <1>2, <1>3 DEF SweepInv, Running, AtRow, AtOpening, BreakdownOpen, SweptInFull, S!SuccessIsComplete

\* A file that is resumed has a row of each of the first points, and of no other.
LEMMA ResumeKeeps ==
  ASSUME SweepInv, S!ResumeReport
  PROVE  SweepInv'
<1>1. spc = "report" /\ at = 1 /\ UNCHANGED <<out, brk, run, at>>
  BY DEF S!ResumeReport, SweepInv, AtOpening
<1>2. RowsOnly' /\ Orderly' /\ BreakdownBehind' /\ out' \in Seq(Lines) /\ brk' \in Seq(Lines)
  BY <1>1, SameRows, SameBreakdown DEF SweepInv, SweepTypes
<1>3. CASE S!Ended("failure") /\ UNCHANGED <<done, anyErr>>
  <2>1. spc' = "exited" /\ sexit' = "failure"
    BY <1>3 DEF S!Ended
  <2>2. anyErr' \in BOOLEAN
    BY <1>3 DEF SweepInv, SweepTypes
  <2> QED BY <1>1, <1>2, <1>3, <2>1, <2>2, FailureKeeps
<1>4. CASE /\ S!Verified(out, run.sha)
           /\ done' = S!ToSet(S!RowKeys(out)) /\ anyErr' = S!HadPriorError(out) /\ spc' = "breakdown"
  <2>1. out \in Seq(Lines) /\ Len(out) \in Nat /\ Len(out) >= 2
    BY <1>4 DEF SweepInv, SweepTypes, S!Verified
  <2>2. /\ out[1].kind = "provenance" /\ out[1].key = <<run.sha>> /\ out[1].text = "whole" /\ S!Parses(out[2])
        /\ \A k \in 3 .. Len(out) : S!Parses(out[k])
    BY <1>4 DEF S!Verified
  <2>3. \A k \in 1 .. Len(out) : S!Parses(out[k])
    <3>1. \A k \in 1 .. Len(out) : k = 1 \/ k = 2 \/ k \in 3 .. Len(out)
      BY <2>1
    <3> QED BY <2>2, <3>1 DEF S!Parses
  <2>4. \A k \in 3 .. Len(out) : k - 2 <= Len(S!Points) /\ out[k].key = S!Points[k - 2]
    BY <2>3 DEF SweepInv, Orderly, S!Parses
  <2>5. \A k \in 1 .. Len(out) : out[k].text = "whole" \/ (k = Len(out) /\ out[k].text = "open")
    BY <2>3 DEF SweepInv, Orderly, S!Parses, S!Cuts
  <2>6. PICK g : g = IF out[Len(out)].text = "open" THEN Len(out) ELSE Len(out) + 1
    OBVIOUS
  <2>7. g \in Nat /\ g >= Len(out) /\ g <= Len(out) + 1
    BY <2>1, <2>6
  <2>8. Shape(g)
    BY <2>1, <2>4, <2>5, <2>6, <2>7 DEF Shape
  <2>9. Held(g) = Len(out) - 2
    <3>1. \A k \in 1 .. Len(out) : out[k].text # "joined"
      BY <2>5
    <3>2. g \in 1 .. Len(out) \/ ~ g <= Len(out)
      BY <2>1, <2>7
    <3> QED BY <3>1, <3>2 DEF Held, Joins
  <2>10. S!RowKeys(out) = [k \in 1 .. Len(out) - 2 |-> out[k + 2].key]
    BY DEF S!RowKeys
  <2>11. \A k \in 1 .. Len(out) - 2 : k + 2 \in 3 .. Len(out) /\ (k + 2) - 2 = k
    BY <2>1
  <2>12. \A k \in 1 .. Len(out) - 2 : k <= Len(S!Points) /\ S!RowKeys(out)[k] = S!Points[k]
    BY <2>4, <2>10, <2>11
  <2>13. done' = {S!Points[k] : k \in 1 .. Len(out) - 2}
    <3>1. done' = {S!RowKeys(out)[k] : k \in 1 .. Len(out) - 2}
      BY <1>4, <2>10 DEF S!ToSet
    <3> QED BY <2>12, <3>1
  <2>14. \A m \in 1 .. Len(S!Points) : S!Points[m] \in done' <=> m <= Len(out) - 2
    <3>1. ASSUME NEW m \in 1 .. Len(S!Points), m <= Len(out) - 2 PROVE S!Points[m] \in done'
      BY <2>1, <2>13, <3>1
    <3>2. ASSUME NEW m \in 1 .. Len(S!Points), S!Points[m] \in done' PROVE m <= Len(out) - 2
      <4>1. PICK k \in 1 .. Len(out) - 2 : S!Points[k] = S!Points[m]
        BY <2>13, <3>2
      <4>2. k \in 1 .. Len(S!Points)
        BY <2>1, <2>12, PointsNumbered
      <4>3. k = m
        BY <4>1, <4>2, PointsNumbered
      <4> QED BY <2>1, <4>3
    <3> QED BY <3>1, <3>2
  <2>15. done' \subseteq S!Keys
    <3>1. \A k \in 1 .. Len(out) - 2 : k \in 1 .. Len(S!Points)
      BY <2>1, <2>12, PointsNumbered
    <3> QED BY <2>13, <3>1, PointsNumbered
  <2>16. anyErr' \in BOOLEAN /\ \A k \in 3 .. Len(out) : out[k].status = "error" => anyErr'
    BY <1>4, Zenon DEF S!HadPriorError
  <2>17. SweepTypes'
    BY <1>1, <1>2, <1>4, <2>15, <2>16 DEF SweepInv, SweepTypes
  <2>18. Reached' = 0
    BY <1>1, <1>4 DEF Reached
  <2>19. \A m \in 1 .. Len(S!Points) : Behind(m)' <=> S!Points[m] \in done'
    BY <2>18 DEF Behind
  <2>20. Len(out) - 2 <= Len(S!Points)
    <3>1. CASE Len(out) = 2
      BY <3>1, PointsNumbered
    <3>2. CASE Len(out) > 2
      BY <2>1, <2>4, <3>2
    <3> QED BY <2>1, <3>1, <3>2
  <2>21. Shape(g)' /\ Counts(g)'
    BY <1>1, <2>8, <2>9, <2>14, <2>19, <2>20, SameRows DEF Counts
  <2>22. Running'
    BY <1>1, <2>1, <2>2, <2>7, <2>16, <2>21 DEF Running
  <2> QED BY <1>1, <1>2, <1>4, <2>17, <2>22
        DEF SweepInv, AtRow, AtOpening, BreakdownOpen, SweptInFull, S!SuccessIsComplete
<1> QED BY <1>3, <1>4 DEF S!ResumeReport

\* A file that is created is whole and holds no row.
LEMMA CreateKeeps ==
  ASSUME SweepInv, S!CreateReport
  PROVE  SweepInv'
<1>1. spc = "report" /\ at = 1 /\ done = {} /\ out = S!Absent /\ UNCHANGED <<brk, run, done, anyErr, at>>
  BY DEF S!CreateReport, SweepInv, AtOpening
<1>2. /\ S!Provenance \in Lines /\ S!Header \in Lines
      /\ \A t \in S!Cuts : [S!Provenance EXCEPT !.text = t] \in Lines /\ [S!Header EXCEPT !.text = t] \in Lines
      /\ S!Provenance.kind = "provenance" /\ S!Provenance.key = <<run.sha>>
      /\ S!Provenance.text = "whole" /\ S!Header.text = "whole"
  BY HeadIs DEF SweepInv
<1>3. anyErr' \in BOOLEAN /\ brk' \in Seq(Lines)
  BY <1>1 DEF SweepInv, SweepTypes
<1>4. CASE out' = <<S!Provenance, S!Header>> /\ spc' = "breakdown"
  <2>1. out' \in Seq(Lines) /\ Len(out') = 2 /\ out'[1] = S!Provenance /\ out'[2] = S!Header
    BY <1>2, <1>4
  <2>2. \A k \in 1 .. 2 : out'[k].text = "whole"
    <3>1. \A k \in 1 .. 2 : k = 1 \/ k = 2
      OBVIOUS
    <3> QED BY <1>2, <2>1, <3>1
  <2>3. RowsOnly' /\ Orderly' /\ BreakdownBehind'
    BY <1>1, <2>1, <2>2, HeadOnly DEF S!Cuts
  <2>4. Reached' = 0
    BY <1>1, <1>4 DEF Reached
  <2>5. \A m \in 1 .. Len(S!Points) : ~ Behind(m)'
    BY <1>1, <2>4 DEF Behind
  <2>6. Shape(3)' /\ Held(3)' = 0
    BY <2>1, <2>2 DEF Shape, Held, Joins
  <2>7. Counts(3)'
    BY <2>5, <2>6, PointsNumbered DEF Counts
  <2>8. Running'
    BY <1>1, <1>2, <2>1, <2>6, <2>7 DEF Running
  <2>9. SweepTypes'
    BY <1>1, <1>3, <1>4, <2>1 DEF SweepInv, SweepTypes
  <2> QED BY <1>1, <1>4, <2>3, <2>8, <2>9
          DEF SweepInv, AtRow, AtOpening, BreakdownOpen, SweptInFull, S!SuccessIsComplete
<1>5. CASE /\ S!Ended("failure")
           /\ \/ out' \in {<<>>, <<S!Provenance>>}
              \/ \E t \in S!Cuts : out' \in {<<[S!Provenance EXCEPT !.text = t]>>,
                                           <<S!Provenance, [S!Header EXCEPT !.text = t]>>}
  <2>1. /\ <<>> \in Seq(Lines) /\ Len(<<>>) = 0
        /\ \A l \in Lines : <<l>> \in Seq(Lines) /\ Len(<<l>>) = 1
        /\ \A l, m \in Lines : <<l, m>> \in Seq(Lines) /\ Len(<<l, m>>) = 2 /\ <<l, m>>[1] = l
    OBVIOUS
  <2>2. out' = <<>> \/ (\E l \in Lines : out' = <<l>>) \/ (\E m \in Lines : out' = <<S!Provenance, m>>)
    BY <1>2, <1>5, Zenon
  <2>3. /\ out' \in Seq(Lines) /\ Len(out') \in {0, 1, 2}
        /\ Len(out') = 2 => out'[1].text = "whole"
    <3>1. CASE out' = <<>>
      BY <2>1, <3>1
    <3>2. CASE \E l \in Lines : out' = <<l>>
      BY <2>1, <3>2
    <3>3. CASE \E m \in Lines : out' = <<S!Provenance, m>>
      BY <1>2, <2>1, <3>3, Zenon
    <3> QED BY <2>2, <3>1, <3>2, <3>3
  <2>4. PICK n : n = Len(out')
    OBVIOUS
  <2>5. n \in {0, 1, 2}
    BY <2>3, <2>4, Zenon
  <2>6. n <= 2 /\ \A k \in 1 .. n : k = n \/ (k = 1 /\ n = 2)
    BY <2>5
  <2>7. Len(out') <= 2 /\ \A k \in 1 .. Len(out') : out'[k].text \in S!Cuts => k = Len(out')
    BY <2>3, <2>4, <2>6 DEF S!Cuts
  <2>8. RowsOnly' /\ Orderly' /\ BreakdownBehind'
    BY <1>1, <2>3, <2>7, HeadOnly
  <2> QED BY <1>1, <1>3, <1>5, <2>3, <2>8, FailureKeeps DEF S!Ended
<1> QED BY <1>4, <1>5 DEF S!CreateReport

\* A breakdown is opened where nothing is done, and is whole.
LEMMA OpenKeeps ==
  ASSUME SweepInv, S!OpenBreakdown
  PROVE  SweepInv'
<1>1. spc = "breakdown" /\ at = 1 /\ UNCHANGED <<out, run, done, anyErr, at>>
  BY DEF S!OpenBreakdown, SweepInv, AtOpening
<1>2. RowsOnly' /\ Orderly' /\ out' \in Seq(Lines) /\ anyErr' \in BOOLEAN
  BY <1>1, SameRows DEF SweepInv, SweepTypes
<1>3. CASE S!Ended("failure") /\ UNCHANGED brk
  <2>1. BreakdownBehind' /\ brk' \in Seq(Lines)
    BY <1>1, <1>3, SameBreakdown DEF SweepInv, SweepTypes
  <2> QED BY <1>1, <1>2, <1>3, <2>1, FailureKeeps DEF S!Ended
<1>4. CASE /\ ~ (run.breakdown /\ (done # {} \/ brk # S!Absent))
           /\ brk' = (IF run.breakdown THEN <<S!Provenance, S!Header>> ELSE brk) /\ spc' = "point"
  <2>1. /\ S!Provenance \in Lines /\ S!Header \in Lines
        /\ S!Provenance.text = "whole" /\ S!Header.text = "whole"
    BY HeadIs DEF SweepInv
  <2>2. BreakdownBehind' /\ brk' \in Seq(Lines) /\ (run.breakdown => Len(brk') >= 2 /\ S!Intact(brk'))
    <3>1. CASE run.breakdown
      <4>1. brk' = <<S!Provenance, S!Header>>
        BY <1>4, <3>1
      <4>2. brk' \in Seq(Lines) /\ Len(brk') = 2 /\ brk'[1] = S!Provenance /\ brk'[2] = S!Header
        BY <2>1, <4>1
      <4>3. \A k \in 1 .. 2 : k = 1 \/ k = 2
        OBVIOUS
      <4>4. S!Intact(brk')
        BY <2>1, <4>2, <4>3 DEF S!Intact
      <4>5. BreakdownBehind'
        BY <4>2 DEF BreakdownBehind
      <4> QED BY <4>2, <4>4, <4>5
    <3>2. CASE ~ run.breakdown
      BY <1>1, <1>4, <3>2, SameBreakdown DEF SweepInv, SweepTypes
    <3> QED BY <3>1, <3>2
  <2>3. Reached = 0 /\ Reached' = 0
    BY <1>1, <1>4 DEF Reached
  <2>4. \A m : Behind(m)' <=> Behind(m)
    BY <1>1, <2>3 DEF Behind
  <2>5. PICK g \in Nat : Shape(g) /\ Counts(g)
    BY <1>1 DEF SweepInv, Running
  <2>6. Shape(g)' /\ Counts(g)'
    BY <1>1, <2>4, <2>5, SameRows DEF Counts
  <2>7. Running'
    BY <1>1, <2>6 DEF SweepInv, Running
  <2>8. SweepTypes'
    BY <1>1, <1>2, <1>4, <2>2 DEF SweepInv, SweepTypes
  <2>9. ASSUME run.breakdown PROVE \A k \in 3 .. Len(out) : out[k].text = "whole"
    <3>1. PICK n : n = Held(g)
      OBVIOUS
    <3>2. Len(out) \in Nat /\ Len(out) >= 2 /\ Len(S!Points) \in Nat /\ n \in Int /\ n <= Len(S!Points)
      BY <1>1, <2>5, <3>1, PointsNumbered DEF SweepInv, SweepTypes, Running, Held, Counts
    <3>3. \A m \in 1 .. Len(S!Points) : ~ Behind(m)
      BY <1>4, <2>3, <2>9 DEF Behind
    <3>4. n < 1
      <4>1. 1 \in 1 .. Len(S!Points) => ~ 1 <= n
        BY <2>5, <3>1, <3>3 DEF Counts
      <4> QED BY <3>2, <4>1
    <3>5. n = Len(out) - 1 \/ n = Len(out) - 2
      BY <3>1 DEF Held
    <3> QED BY <3>2, <3>4, <3>5
  <2>10. BreakdownOpen'
    BY <1>1, <2>2, <2>9 DEF BreakdownOpen
  <2> QED BY <1>1, <1>2, <1>4, <2>2, <2>7, <2>8, <2>10
          DEF SweepInv, AtRow, AtOpening, SweptInFull, S!SuccessIsComplete
<1> QED BY <1>3, <1>4 DEF S!OpenBreakdown

\* A point that is done is behind already.
LEMMA SkipKeeps ==
  ASSUME SweepInv, S!Skip
  PROVE  SweepInv'
<1>1. /\ spc = "point" /\ spc' = "point" /\ at <= Len(S!Points) /\ S!Points[at] \in done /\ at' = at + 1
      /\ UNCHANGED <<out, brk, run, done, anyErr>>
  BY DEF S!Skip
<1>2. at \in 1 .. Len(S!Points) /\ at' \in 1 .. Len(S!Points) + 1
  BY <1>1, PointsNumbered DEF SweepInv, SweepTypes
<1>3. Reached = at - 1 /\ Reached' = at
  BY <1>1, <1>2 DEF Reached
<1>4. \A m \in Nat : m <= at <=> m <= at - 1 \/ m = at
  BY <1>2
<1>5. \A m \in 1 .. Len(S!Points) : Behind(m)' <=> Behind(m)
  BY <1>1, <1>3, <1>4 DEF Behind
<1>6. PICK g \in Nat : Shape(g) /\ Counts(g)
  BY <1>1 DEF SweepInv, Running
<1>7. Shape(g)' /\ Counts(g)'
  BY <1>1, <1>5, <1>6, SameRows DEF Counts
<1>8. Running'
  BY <1>1, <1>7 DEF SweepInv, Running
<1>9. SweepTypes'
  BY <1>1, <1>2 DEF SweepInv, SweepTypes
<1>10. RowsOnly' /\ Orderly' /\ BreakdownBehind' /\ BreakdownOpen'
  BY <1>1, SameRows, SameBreakdown DEF SweepInv, BreakdownOpen
<1> QED BY <1>1, <1>8, <1>9, <1>10 DEF SweepInv, AtRow, AtOpening, SweptInFull, S!SuccessIsComplete

\* The point a run is at has no row yet; with its row it is behind.
LEMMA WriteRowKeeps ==
  ASSUME SweepInv, S!WriteRow
  PROVE  SweepInv'
<1>1. /\ spc = "point" /\ at <= Len(S!Points) /\ S!Points[at] \notin done
      /\ anyErr' = (anyErr \/ S!Points[at] \in broken)
      /\ UNCHANGED <<brk, run, done>>
  BY DEF S!WriteRow
<1>2. at \in 1 .. Len(S!Points) /\ at \in Nat /\ Len(S!Points) \in Nat /\ brk \in Seq(Lines)
  BY <1>1, PointsNumbered DEF SweepInv, SweepTypes
<1>3. anyErr' \in BOOLEAN /\ (anyErr => anyErr')
  BY <1>1, Zenon
<1>4. PICK l : l = S!Row(at)
  OBVIOUS
<1>5. /\ l \in Lines /\ IsRow(l) /\ l.key = S!Points[at] /\ l.text = "whole"
      /\ \A t \in S!Cuts : LET cut == [S!Row(at) EXCEPT !.text = t]
                           IN  cut \in Lines /\ IsRow(cut) /\ cut.key = S!Points[at] /\ cut.text = t
  BY <1>2, <1>4, RowIs
<1>6. l.status = "error" => anyErr'
  BY <1>1, <1>2, <1>4, RowIs, Zenon
<1>7. CASE /\ out' = S!Put(out, l) /\ UNCHANGED sexit
           /\ \/ run.breakdown /\ spc' = "row" /\ at' = at
              \/ ~ run.breakdown /\ spc' = "point" /\ at' = at + 1
  <2>1. /\ out' \in Seq(Lines) /\ Len(out') >= 2 /\ out'[1] = out[1]
        /\ RowsOnly' /\ Orderly' /\ BreakdownBehind'
        /\ \A k \in 3 .. Len(out') : out'[k] = l \/ (k \in 3 .. Len(out) /\ out'[k].status = out[k].status)
        /\ (\A k \in 3 .. Len(out) : out[k].text = "whole") => \A k \in 3 .. Len(out') : out'[k].text = "whole"
        /\ \E g \in Nat : Shape(g)' /\ Held(g)' = at
    BY <1>1, <1>5, <1>7, RowAdded
  <2>2. PICK g \in Nat : Shape(g)' /\ Held(g)' = at
    BY <2>1
  <2>3. Reached = at - 1 /\ Reached' = at
    BY <1>1, <1>2, <1>7 DEF Reached
  <2>4. \A m \in 1 .. Len(S!Points) : S!Points[m] \in done => m <= at
    <3>1. PICK h \in Nat : Shape(h) /\ Counts(h)
      BY <1>1 DEF SweepInv, Running
    <3>2. PICK n : n = Held(h)
      OBVIOUS
    <3>3. \A m \in 1 .. Len(S!Points) : S!Points[m] \in done => m <= n
      BY <3>1, <3>2 DEF Counts, Behind
    <3>4. ~ at <= n
      <4>1. ~ Behind(at)
        BY <1>1, <1>2, <2>3 DEF Behind
      <4> QED BY <1>2, <3>1, <3>2, <4>1 DEF Counts
    <3>5. n \in Int
      BY <3>2 DEF SweepInv, SweepTypes, Held
    <3> QED BY <1>2, <3>3, <3>4, <3>5
  <2>5. \A m \in 1 .. Len(S!Points) : Behind(m)' <=> m <= at
    BY <1>1, <2>3, <2>4 DEF Behind
  <2>6. Counts(g)'
    BY <1>1, <2>2, <2>5 DEF Counts
  <2>7. out[1].kind = "provenance" /\ out[1].key = <<run.sha>>
        /\ \A k \in 3 .. Len(out) : out[k].status = "error" => anyErr
    BY <1>1 DEF SweepInv, Running
  <2>8. \A k \in 3 .. Len(out') : out'[k].status = "error" => anyErr'
    BY <1>3, <1>6, <2>1, <2>7, Zenon
  <2>9. Running'
    BY <1>1, <2>1, <2>2, <2>6, <2>7, <2>8 DEF Running
  <2>10. SweepTypes'
    <3>1. at' \in 1 .. Len(S!Points) + 1
      <4>1. PICK m : m = Len(S!Points)
        OBVIOUS
      <4>2. at' = at \/ at' = at + 1
        BY <1>7
      <4>3. at \in 1 .. m /\ m \in Nat
        BY <1>2, <4>1, Zenon
      <4>4. at' \in 1 .. m + 1
        BY <4>2, <4>3
      <4> QED BY <4>1, <4>4
    <3> QED BY <1>1, <1>3, <1>7, <2>1, <3>1 DEF SweepInv, SweepTypes
  <2>11. AtRow' /\ AtOpening' /\ BreakdownOpen'
    BY <1>1, <1>7, <2>1 DEF SweepInv, AtRow, AtOpening, BreakdownOpen
  <2> QED BY <1>7, <2>1, <2>9, <2>10, <2>11 DEF SweepInv, SweptInFull, S!SuccessIsComplete
<1>8. CASE /\ S!Ended("failure") /\ UNCHANGED at
           /\ out' \in {out} \cup {S!Put(out, [S!Row(at) EXCEPT !.text = t]) : t \in S!Cuts}
  <2>1. RowsOnly' /\ Orderly' /\ BreakdownBehind' /\ out' \in Seq(Lines)
    <3>1. CASE out' = out
      BY <1>1, <3>1, SameRows, SameBreakdown DEF SweepInv, SweepTypes
    <3>2. CASE \E t \in S!Cuts : out' = S!Put(out, [S!Row(at) EXCEPT !.text = t])
      <4>1. PICK t \in S!Cuts : out' = S!Put(out, [S!Row(at) EXCEPT !.text = t])
        BY <3>2
      <4>2. PICK cut : cut = [S!Row(at) EXCEPT !.text = t]
        OBVIOUS
      <4>3. cut \in Lines /\ IsRow(cut) /\ cut.key = S!Points[at] /\ cut.text # "joined" /\ out' = S!Put(out, cut)
        BY <1>5, <4>1, <4>2 DEF S!Cuts
      <4> QED BY <1>1, <4>3, RowAdded
    <3> QED BY <1>8, <3>1, <3>2
  <2> QED BY <1>1, <1>2, <1>3, <1>8, <2>1, FailureKeeps DEF S!Ended
<1> QED BY <1>1, <1>4, <1>7, <1>8 DEF S!WriteRow

\* The breakdown's row follows the results file's.
LEMMA WriteBreakdownKeeps ==
  ASSUME SweepInv, S!WriteBreakdown
  PROVE  SweepInv'
<1>1. spc = "row" /\ UNCHANGED <<out, run, done, anyErr>>
  BY DEF S!WriteBreakdown
<1>2. /\ at \in 1 .. Len(S!Points) /\ at \in Nat /\ run.breakdown /\ brk \in Seq(Lines)
      /\ Len(brk) >= 2 /\ S!Intact(brk) /\ Len(out) \in Nat /\ Len(out) >= 2
      /\ \A k \in 3 .. Len(out) : out[k].text = "whole"
  <2>1. brk \in Seq(Lines) /\ out \in Seq(Lines) /\ at \in 1 .. Len(S!Points) + 1
    BY DEF SweepInv, SweepTypes
  <2>2. at <= Len(S!Points) /\ run.breakdown
    BY <1>1 DEF SweepInv, AtRow
  <2>3. at \in 1 .. Len(S!Points) /\ at \in Nat
    BY <2>1, <2>2, PointsNumbered
  <2>4. Len(brk) >= 2 /\ S!Intact(brk) /\ \A k \in 3 .. Len(out) : out[k].text = "whole"
    BY <1>1, <2>2 DEF SweepInv, BreakdownOpen
  <2>5. Len(out) >= 2
    BY <1>1 DEF SweepInv, Running
  <2>6. Len(out) \in Nat
    BY <2>1
  <2> QED BY <2>1, <2>2, <2>3, <2>4, <2>5, <2>6
<1>3. Reached = at
  BY <1>1 DEF Reached
<1>4. PICK p0 : p0 = S!Points[at]
  OBVIOUS
<1>5. PICK g \in Nat : Shape(g) /\ Counts(g)
  BY <1>1 DEF SweepInv, Running
<1>6. at <= Held(g)
  BY <1>2, <1>3, <1>5 DEF Counts, Behind
<1>7. S!HasRow(p0) \/ (p0 = S!Points[1] /\ HeadJoined)
  <2>1. g \in 2 .. Len(out) + 1
    BY <1>5 DEF Shape
  <2>2. CASE Joins(g)
    <3>1. g \in 1 .. Len(out) /\ out[g].text = "joined" /\ at <= Len(out) - 1
      BY <1>2, <1>6, <2>1, <2>2 DEF Joins, Held
    <3>2. g = 2
      BY <1>2, <2>1, <3>1
    <3>3. CASE at = 1
      BY <1>2, <1>4, <3>1, <3>2, <3>3 DEF HeadJoined
    <3>4. CASE at > 1
      <4>1. at + 1 \in 3 .. Len(out) /\ ~ at + 1 <= 2 /\ (at + 1) - 1 = at
        BY <1>2, <3>1, <3>4
      <4>2. out[at + 1].key = p0
        BY <1>4, <1>5, <3>2, <4>1 DEF Shape
      <4> QED BY <1>2, <4>1, <4>2 DEF S!HasRow
    <3> QED BY <1>2, <3>3, <3>4
  <2>3. CASE ~ Joins(g)
    <3>1. at + 2 \in 3 .. Len(out) /\ (at + 2) - 2 = at
      BY <1>2, <1>6, <2>3 DEF Held
    <3>2. g > Len(out) \/ g = Len(out)
      BY <1>2, <1>5, <2>1, <2>3 DEF Shape, Joins
    <3>3. at + 2 <= g
      BY <1>2, <2>1, <3>1, <3>2
    <3>4. out[at + 2].key = p0
      BY <1>4, <1>5, <3>1, <3>3 DEF Shape
    <3> QED BY <1>2, <3>1, <3>4 DEF S!HasRow
  <2> QED BY <2>2, <2>3
<1>8. PICK l : l = S!Row(at)
  OBVIOUS
<1>9. /\ l \in Lines /\ l.key = p0 /\ l.text = "whole"
      /\ \A t \in S!Cuts : LET cut == [S!Row(at) EXCEPT !.text = t] IN cut \in Lines /\ cut.key = p0
  BY <1>2, <1>4, <1>8, RowIs
<1>10. out' \in Seq(Lines) /\ anyErr' \in BOOLEAN /\ RowsOnly' /\ Orderly'
  BY <1>1, SameRows DEF SweepInv, SweepTypes
<1>11. CASE brk' = S!Put(brk, l) /\ spc' = "point" /\ at' = at + 1
  <2>1. /\ brk' \in Seq(Lines) /\ BreakdownBehind' /\ Len(brk') = Len(brk) + 1
        /\ Len(brk) \in Nat /\ brk'[Len(brk) + 1] = l /\ \A k \in 1 .. Len(brk) : brk'[k] = brk[k]
    BY <1>1, <1>2, <1>7, <1>9, <1>11, BreakdownAdded
  <2>2. S!Intact(brk') /\ Len(brk') >= 2
    <3>1. \A k \in 1 .. Len(brk') : k \in 1 .. Len(brk) \/ k = Len(brk) + 1
      BY <2>1
    <3> QED BY <1>2, <1>9, <2>1, <3>1 DEF S!Intact
  <2>3. Reached' = Reached
    BY <1>2, <1>3, <1>11 DEF Reached
  <2>4. \A m : Behind(m)' <=> Behind(m)
    BY <1>1, <2>3 DEF Behind
  <2>5. Shape(g)' /\ Counts(g)'
    BY <1>1, <1>5, <2>4, SameRows DEF Counts
  <2>6. Running'
    BY <1>1, <1>5, <2>5 DEF SweepInv, Running
  <2>7. SweepTypes'
    <3>1. at' \in 1 .. Len(S!Points) + 1
      BY <1>2, <1>11, PointsNumbered
    <3> QED BY <1>1, <1>10, <1>11, <2>1, <3>1 DEF SweepInv, SweepTypes
  <2>8. BreakdownOpen'
    BY <1>1, <1>2, <2>2 DEF BreakdownOpen
  <2> QED BY <1>1, <1>10, <1>11, <2>1, <2>6, <2>7, <2>8
          DEF SweepInv, AtRow, AtOpening, SweptInFull, S!SuccessIsComplete
<1>12. CASE /\ S!Ended("failure") /\ UNCHANGED at
            /\ brk' \in {brk} \cup {S!Put(brk, [S!Row(at) EXCEPT !.text = t]) : t \in S!Cuts}
  <2>1. BreakdownBehind' /\ brk' \in Seq(Lines)
    <3>1. CASE brk' = brk
      BY <1>1, <1>2, <3>1, SameBreakdown
    <3>2. CASE \E t \in S!Cuts : brk' = S!Put(brk, [S!Row(at) EXCEPT !.text = t])
      <4>1. PICK t \in S!Cuts : brk' = S!Put(brk, [S!Row(at) EXCEPT !.text = t])
        BY <3>2
      <4>2. PICK cut : cut = [S!Row(at) EXCEPT !.text = t]
        OBVIOUS
      <4>3. cut \in Lines /\ cut.key = p0 /\ brk' = S!Put(brk, cut)
        BY <1>9, <4>1, <4>2
      <4> QED BY <1>1, <1>2, <1>7, <4>3, BreakdownAdded
    <3> QED BY <1>12, <3>1, <3>2
  <2> QED BY <1>1, <1>10, <1>12, <2>1, FailureKeeps DEF S!Ended
<1> QED BY <1>8, <1>11, <1>12 DEF S!WriteBreakdown

\* A run that ends well ends past the last point.
LEMMA FinishKeeps ==
  ASSUME SweepInv, S!Finish
  PROVE  SweepInv'
<1>1. spc = "point" /\ spc' = "exited" /\ at > Len(S!Points) /\ UNCHANGED <<out, brk, run, done, anyErr, at>>
  BY DEF S!Finish, S!Ended
<1>2. /\ RowsOnly' /\ Orderly' /\ BreakdownBehind' /\ out' \in Seq(Lines) /\ brk' \in Seq(Lines)
      /\ anyErr' \in BOOLEAN
  BY <1>1, SameRows, SameBreakdown DEF SweepInv, SweepTypes
<1>3. CASE sexit' = "failure"
  BY <1>1, <1>2, <1>3, FailureKeeps
<1>4. CASE ~ anyErr
  <2>1. at = Len(S!Points) + 1 /\ Len(S!Points) \in Nat /\ out \in Seq(Lines) /\ Len(out) \in Nat
    BY <1>1, PointsNumbered DEF SweepInv, SweepTypes
  <2>2. /\ Len(out) >= 2 /\ out[1].kind = "provenance" /\ out[1].key = <<run.sha>>
        /\ \A k \in 3 .. Len(out) : out[k].status # "error"
    BY <1>1, <1>4 DEF SweepInv, Running
  <2>3. PICK g \in Nat : Shape(g) /\ Counts(g)
    BY <1>1 DEF SweepInv, Running
  <2>4. PICK n : n = Len(S!Points)
    OBVIOUS
  <2>5. n \in Nat /\ Held(g) = n
    <3>1. PICK h : h = Held(g)
      OBVIOUS
    <3>2. h \in Nat /\ h <= n
      BY <2>1, <2>2, <2>3, <2>4, <3>1 DEF Held, Counts
    <3>3. \A m \in 1 .. n : m <= h
      BY <1>1, <2>1, <2>3, <2>4, <3>1 DEF Counts, Behind, Reached
    <3>4. n \in Nat
      BY <2>1, <2>4
    <3>5. CASE n = 0
      BY <3>1, <3>2, <3>5
    <3>6. CASE n > 0
      <4>1. n \in 1 .. n
        BY <3>4, <3>6
      <4> QED BY <3>1, <3>2, <3>3, <3>4, <4>1
    <3> QED BY <3>4, <3>5, <3>6
  <2>6. \A k \in 3 .. Len(out) : IsRow(out[k]) /\ out[k].status = "ok"
    BY <2>2 DEF SweepInv, RowsOnly, IsRow
  <2>7. out[1] = S!Line("provenance", <<run.sha>>, "", "whole")
    <3>1. 1 \in 1 .. Len(out) /\ 1 # g /\ out[1] \in Lines
      BY <2>1, <2>2, <2>3 DEF Shape
    <3>2. out[1].text = "whole"
      BY <2>3, <3>1 DEF Shape
    <3> QED BY <2>2, <3>1, <3>2 DEF S!Line, Lines
  <2>8. \A j, k \in 1 .. Len(out) : out[j].text # "whole" /\ out[k].text # "whole" => j = k
    BY <2>3 DEF Shape
  <2>9. \A k \in 3 .. Len(out) : k # g => out[k] = S!Line("row", out[k].key, "ok", "whole")
    <3> SUFFICES ASSUME NEW k \in 3 .. Len(out), k # g PROVE out[k] = S!Line("row", out[k].key, "ok", "whole")
      OBVIOUS
    <3>1. k \in 1 .. Len(out) /\ out[k] \in Lines
      BY <2>1
    <3>2. out[k].text = "whole" /\ out[k].kind = "row" /\ out[k].status = "ok"
      BY <2>3, <2>6, <3>1 DEF Shape, IsRow
    <3> QED BY <3>1, <3>2 DEF S!Line, Lines
  <2>10. g \in 2 .. Len(out) + 1
    BY <2>3 DEF Shape
  <2>11. ASSUME NEW m \in 1 .. n
         PROVE  S!Recorded(S!Points[m]) \/ \E k \in {m + 1, m + 2} : k <= Len(out) /\ out[k].text # "whole"
    <3>1. \A k \in 3 .. Len(out) : out[k].key = S!Points[IF k <= g THEN k - 2 ELSE k - 1]
      BY <2>3 DEF Shape
    <3>2. \A k \in 3 .. Len(out) : k # g /\ out[k].key = S!Points[m] => S!Recorded(S!Points[m])
      BY <2>9 DEF S!Recorded
    <3>3. g <= Len(out) => out[g].text # "whole"
      BY <2>3 DEF Shape
    <3>4. CASE Joins(g)
      <4>1. Len(out) = n + 1 /\ g <= Len(out)
        BY <2>1, <2>5, <3>4 DEF Held, Joins
      <4>2. CASE m + 2 < g
        <5>1. m + 2 \in 3 .. Len(out) /\ m + 2 # g /\ m + 2 <= g /\ (m + 2) - 2 = m
          BY <2>1, <2>5, <2>10, <4>1, <4>2
        <5> QED BY <3>1, <3>2, <5>1
      <4>3. CASE g \in {m + 1, m + 2}
        BY <3>3, <4>1, <4>3
      <4>4. CASE m + 1 > g
        <5>1. m + 1 \in 3 .. Len(out) /\ m + 1 # g /\ ~ m + 1 <= g /\ (m + 1) - 1 = m
          BY <2>1, <2>5, <2>10, <4>1, <4>4
        <5> QED BY <3>1, <3>2, <5>1
      <4> QED BY <2>5, <2>10, <4>2, <4>3, <4>4
    <3>5. CASE ~ Joins(g)
      <4>1. Len(out) = n + 2
        BY <2>1, <2>5, <3>5 DEF Held
      <4>2. g >= Len(out)
        BY <2>1, <2>3, <2>10, <3>5 DEF Shape, Joins
      <4>3. m + 2 \in 3 .. Len(out) /\ m + 2 <= g /\ (m + 2) - 2 = m
        BY <2>1, <2>5, <2>10, <4>1, <4>2
      <4>4. CASE m + 2 = g
        BY <3>3, <4>3, <4>4
      <4> QED BY <3>1, <3>2, <4>3, <4>4
    <3> QED BY <3>4, <3>5
  <2>12. S!Intact(out) => Len(out) = n + 2
    <3> SUFFICES ASSUME S!Intact(out) PROVE Len(out) = n + 2
      OBVIOUS
    <3>1. ~ Joins(g)
      BY <2>1, <2>10 DEF Joins, S!Intact
    <3> QED BY <2>1, <2>5, <3>1 DEF Held
  <2>13. out # S!Absent
    <3>1. out[1].kind # "no file"
      BY <2>2
    <3>2. S!Absent[1].kind = "no file"
      BY DEF S!Absent, S!Line
    <3> QED BY <3>1, <3>2
  <2>14. S!SuccessIsComplete'
    <3>1. \A k \in 3 .. Len(out) : out[k].status = "ok"
      BY <2>6
    <3>2. \A m \in 1 .. Len(S!Points) :
            S!Recorded(S!Points[m])' \/ \E k \in {m + 1, m + 2} : k <= Len(out) /\ out[k].text # "whole"
      BY <1>1, <2>4, <2>11 DEF S!Recorded
    <3> QED BY <1>1, <2>4, <2>7, <2>8, <2>12, <2>13, <3>1, <3>2 DEF S!SuccessIsComplete, S!Intact
  <2>15. SweepTypes'
    BY <1>1, <1>2 DEF SweepInv, SweepTypes
  <2> QED BY <1>1, <1>2, <2>14, <2>15 DEF SweepInv, Running, AtRow, AtOpening, BreakdownOpen, SweptInFull
<1> QED BY <1>3, <1>4 DEF S!Finish, S!Ended

\* A killed run leaves whatever lines it had written of a file it was creating.
LEMMA KillKeeps ==
  ASSUME SweepInv, S!Kill
  PROVE  SweepInv'
<1>1. spc' = "exited" /\ sexit' = "failure" /\ UNCHANGED <<run, done, anyErr, at>>
  BY DEF S!Kill, S!Ended
<1>2. anyErr' \in BOOLEAN /\ out \in Seq(Lines) /\ brk \in Seq(Lines)
  BY <1>1 DEF SweepInv, SweepTypes
<1>3. \A s \in {<<>>, <<S!Provenance>>, <<S!Provenance, S!Header>>} :
        s \in Seq(Lines) /\ Len(s) <= 2 /\ \A k \in 1 .. Len(s) : s[k].text = "whole"
  <2>1. S!Provenance \in Lines /\ S!Header \in Lines /\ S!Provenance.text = "whole" /\ S!Header.text = "whole"
    BY HeadIs DEF SweepInv
  <2>2. <<>> \in Seq(Lines) /\ Len(<<>>) <= 2 /\ \A k \in 1 .. Len(<<>>) : FALSE
    OBVIOUS
  <2>3. ASSUME NEW l \in Lines
        PROVE  <<l>> \in Seq(Lines) /\ Len(<<l>>) <= 2 /\ \A k \in 1 .. Len(<<l>>) : <<l>>[k] = l
    OBVIOUS
  <2>4. ASSUME NEW l \in Lines, NEW m \in Lines
        PROVE  /\ <<l, m>> \in Seq(Lines) /\ Len(<<l, m>>) <= 2
               /\ \A k \in 1 .. Len(<<l, m>>) : <<l, m>>[k] = l \/ <<l, m>>[k] = m
    <3>1. /\ <<l, m>> \in Seq(Lines) /\ Len(<<l, m>>) = 2 /\ <<l, m>>[1] = l /\ <<l, m>>[2] = m
          /\ \A k \in 1 .. 2 : k = 1 \/ k = 2
      OBVIOUS
    <3> QED BY <3>1
  <2> SUFFICES ASSUME NEW s, s = <<>> \/ s = <<S!Provenance>> \/ s = <<S!Provenance, S!Header>>
               PROVE  s \in Seq(Lines) /\ Len(s) <= 2 /\ \A k \in 1 .. Len(s) : s[k].text = "whole"
    OBVIOUS
  <2>5. CASE s = <<>>
    BY <2>2, <2>5
  <2>6. CASE s = <<S!Provenance>>
    BY <2>1, <2>3, <2>6
  <2>7. CASE s = <<S!Provenance, S!Header>>
    BY <2>1, <2>4, <2>7
  <2> QED BY <2>5, <2>6, <2>7
<1>4. CASE out' = out /\ brk' = brk
  <2>1. RowsOnly' /\ Orderly' /\ BreakdownBehind' /\ out' \in Seq(Lines) /\ brk' \in Seq(Lines)
    BY <1>2, <1>4, SameRows, SameBreakdown
  <2> QED BY <1>1, <1>2, <2>1, FailureKeeps
<1>5. CASE /\ spc = "report" /\ out = S!Absent /\ brk' = brk
           /\ out' \in {<<>>, <<S!Provenance>>, <<S!Provenance, S!Header>>}
  <2>1. out' \in Seq(Lines) /\ Len(out') <= 2 /\ \A k \in 1 .. Len(out') : out'[k].text = "whole"
    BY <1>3, <1>5, Zenon
  <2>2. RowsOnly' /\ Orderly' /\ BreakdownBehind'
    BY <1>5, <2>1, HeadOnly DEF S!Cuts
  <2> QED BY <1>1, <1>2, <1>5, <2>1, <2>2, FailureKeeps
<1>6. CASE /\ spc = "breakdown" /\ out' = out
           /\ brk' \in {<<>>, <<S!Provenance>>, <<S!Provenance, S!Header>>}
  <2>1. brk' \in Seq(Lines) /\ Len(brk') <= 2
    BY <1>3, <1>6, Zenon
  <2>2. Len(brk') \in Nat
    BY <2>1
  <2>3. RowsOnly' /\ Orderly' /\ BreakdownBehind'
    BY <1>6, <2>1, <2>2, SameRows DEF BreakdownBehind
  <2> QED BY <1>1, <1>2, <1>6, <2>1, <2>3, FailureKeeps
<1> QED
  <2>1. \/ out' = out
        \/ spc = "report" /\ out = S!Absent /\ out' \in {<<>>, <<S!Provenance>>, <<S!Provenance, S!Header>>}
    BY DEF S!Kill
  <2>2. \/ brk' = brk
        \/ spc = "breakdown" /\ brk' \in {<<>>, <<S!Provenance>>, <<S!Provenance, S!Header>>}
    BY DEF S!Kill
  <2>3. spc # "report" \/ spc # "breakdown"
    OBVIOUS
  <2> QED BY <2>1, <2>2, <2>3, <1>4, <1>5, <1>6

\* Nothing of the sweep changes where another part runs.
LEMMA SweepStutters == SweepInv /\ UNCHANGED sweepVars => SweepInv'
<1> SUFFICES ASSUME SweepInv, UNCHANGED sweepVars PROVE SweepInv'
  OBVIOUS
<1>1. UNCHANGED <<out, brk, broken, spc, run, done, anyErr, at, sexit>>
  BY DEF sweepVars
<1>2. Reached' = Reached
  BY <1>1 DEF Reached
<1>3. \A m : Behind(m)' <=> Behind(m)
  BY <1>1, <1>2 DEF Behind
<1>4. \A g : (Shape(g) /\ Counts(g))' <=> Shape(g) /\ Counts(g)
  BY <1>1, <1>3, SameRows DEF Counts
<1>5. Running'
  BY <1>1, <1>4 DEF SweepInv, Running
<1>6. RowsOnly' /\ Orderly' /\ BreakdownBehind'
  BY <1>1, SameRows, SameBreakdown
<1>7. SweepTypes' /\ AtRow' /\ AtOpening' /\ BreakdownOpen'
  BY <1>1 DEF SweepInv, SweepTypes, AtRow, AtOpening, BreakdownOpen, S!Intact
<1>8. SweptInFull'
  BY <1>1 DEF SweepInv, SweptInFull, S!SuccessIsComplete, S!Intact, S!Recorded
<1> QED BY <1>5, <1>6, <1>7, <1>8 DEF SweepInv

\* A sweep keeps its files in order.
LEMMA SweepHolds == Spec => []SweepInv
<1>1. Init => SweepInv
  BY SweepBegins DEF Init
<1>2. SweepInv /\ [Next]_vars => SweepInv'
  <2> SUFFICES ASSUME SweepInv, [Next]_vars PROVE SweepInv'
    OBVIOUS
  <2>1. CASE InSweep(S!Next)
    <3>1. CASE \E r \in Sweeps : S!Start(r)
      BY <3>1, StartKeeps
    <3>2. CASE S!ResumeReport \/ S!CreateReport \/ S!OpenBreakdown
      BY <3>2, ResumeKeeps, CreateKeeps, OpenKeeps
    <3>3. CASE S!Skip \/ S!WriteRow \/ S!WriteBreakdown
      BY <3>3, SkipKeeps, WriteRowKeeps, WriteBreakdownKeeps
    <3>4. CASE S!Finish \/ S!Kill
      BY <3>4, FinishKeeps, KillKeeps
    <3> QED BY <2>1, <3>1, <3>2, <3>3, <3>4 DEF InSweep, S!Next
  <2>2. CASE UNCHANGED sweepVars
    BY <2>2, SweepStutters
  <2> QED BY <2>1, <2>2 DEF Next, InBoot, InMatches, InPool, vars
<1> QED BY <1>1, <1>2, PTL DEF Spec

\* However many runs a sweep takes, killed, failing or of other binaries, over the
\* same file, and wherever a full disk cuts a line: the run that exits with 0 leaves
\* one whole, successful row of every point, all of one sweep, but for what one
\* line cut at its very end took with it.
THEOREM SweepsComplete == Spec => []SweptInFull
<1>1. SweepInv => SweptInFull
  BY DEF SweepInv
<1> QED BY <1>1, SweepHolds, PTL

\* And the breakdown never holds a configuration that the results file has no
\* whole row of (run.go:302, the row is flushed first), but for the first where
\* that row was begun on an open header.
THEOREM BreakdownsBehind == Spec => []BreakdownWithinOut
<1>1. SweepInv => BreakdownWithinOut
  BY DEF SweepInv, BreakdownBehind, HeadJoined, BreakdownWithinOut, S!BreakdownWithinOut
<1> QED BY <1>1, SweepHolds, PTL

===============================================================================

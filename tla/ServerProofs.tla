---------------------------- MODULE ServerProofs ----------------------------
(***************************************************************************)
(* Machine-checked facts about the parts of MCServer: processes that start *)
(* together on one database migrate it in order; records and summaries     *)
(* account for every order at the exchange; an equity snapshot of the      *)
(* settlement loop is off by no more than what explains it; what the       *)
(* dashboard tells of the facts agrees; and, with MeasureProofs, the       *)
(* composition keeps the promises of its parts.                            *)
(***************************************************************************)
EXTENDS MCServer, LangProofs, MeasureProofs, ReportProofs, FiniteSetTheorems, WellFoundedInduction

-----------------------------------------------------------------------------
(* Boot: the migrations, for any number of processes and of files. *)

\* Between lock and unlock a process holds the lock.
Held == \A p \in Processes : at[p] \in {"list", "apply"} => lock = p

\* Attempts to seed the account are counted from the start of a process on.
Early == {"pool", "ping", "lock", "list", "apply", "sources", "wire"}
Trying == \A p \in Processes : (at[p] \in Early => tries[p] = 0) /\ (at[p] = "seed" => tries[p] < MaxTries)

\* The two parts of MigratedInOrder, over values.
InOrder(s) == s = UpTo(Len(s))
Planned(where, files, rec) == where # "clash" /\ (where = "apply" => files = Files \ rec)

\* The invariant: mutual exclusion makes the plan of the holder stay true.
WInv == BootTypeOK /\ MigratedInOrder /\ Held

LEMMA Parts ==
  MigratedInOrder <=> InOrder(applied) /\ \A p \in Processes : Planned(at[p], todo[p], Recorded)
BY DEF MigratedInOrder, InOrder, Planned

LEMMA FileTypes == Files \subseteq Nat /\ NumFiles \in Nat /\ \A f \in Files : 1 <= f
BY BootAssumption DEF Files

\* After n files the recorded ones are the first n.
LEMMA RecordedFirst ==
  ASSUME applied \in Seq(Files), InOrder(applied)
  PROVE  /\ Len(applied) \in Nat /\ Len(applied) <= NumFiles
         /\ \A f \in Files : f \in Recorded <=> f <= Len(applied)
<1> USE FileTypes
<1>1. Len(applied) \in Nat /\ DOMAIN applied = 1..Len(applied) /\ \A i \in 1..Len(applied) : applied[i] \in Files
  OBVIOUS
<1>2. \A i \in 1..Len(applied) : applied[i] = i
  BY <1>1 DEF InOrder, UpTo
<1>3. Len(applied) <= NumFiles
  <2>1. CASE Len(applied) = 0
    BY <2>1
  <2>2. CASE Len(applied) # 0
    <3>1. Len(applied) \in 1..Len(applied)
      BY <1>1, <2>2
    <3>2. applied[Len(applied)] = Len(applied) /\ applied[Len(applied)] \in Files
      BY <1>1, <1>2, <3>1
    <3> QED
      BY <3>2 DEF Files
  <2> QED
    BY <2>1, <2>2
<1>4. \A f \in Files : f \in Recorded <=> f <= Len(applied)
  BY <1>1, <1>2 DEF Recorded, Files
<1> QED
  BY <1>1, <1>3, <1>4

\* The next file is the one after those recorded.
LEMMA NextFile ==
  ASSUME applied \in Seq(Files), InOrder(applied), NEW p \in Processes,
         todo[p] = Files \ Recorded, todo[p] # {}
  PROVE  /\ Foremost(p) \in Files /\ Foremost(p) \notin Recorded
         /\ InOrder(Append(applied, Foremost(p))) /\ Append(applied, Foremost(p)) \in Seq(Files)
<1> DEFINE n == Len(applied)
<1>1. n \in Nat /\ n <= NumFiles /\ \A f \in Files : f \in Recorded <=> f <= n
  BY RecordedFirst
<1>2. \A f \in Files : f \in todo[p] <=> n + 1 <= f
  BY <1>1, FileTypes
<1>3. n + 1 \in Files
  BY <1>1, <1>2, FileTypes DEF Files
<1>4. n + 1 \in todo[p] /\ \A g \in todo[p] : n + 1 <= g
  BY <1>1, <1>2, <1>3
<1>5. \A m \in todo[p] : (\A g \in todo[p] : m <= g) => m = n + 1
  <2>1. todo[p] \subseteq Nat
    BY FileTypes
  <2> QED
    BY <1>1, <1>4, <2>1
<1>6. Foremost(p) = n + 1
  BY <1>4, <1>5 DEF Foremost
<1>7. Append(applied, n + 1) = UpTo(n + 1)
  BY <1>1, <1>3 DEF InOrder, UpTo
<1>8. Len(Append(applied, n + 1)) = n + 1 /\ Append(applied, n + 1) \in Seq(Files)
  BY <1>1, <1>3
<1> QED
  BY <1>1, <1>3, <1>4, <1>6, <1>7, <1>8 DEF InOrder

LEMMA BootInitInv == BootInit => WInv /\ Trying
<1> SUFFICES ASSUME BootInit PROVE WInv /\ Trying
  OBVIOUS
<1>1. PICK n \in 0..NumFiles : applied = UpTo(n)
  BY DEF BootInit
<1>2. n \in Nat /\ Len(applied) = n /\ applied \in Seq(Files)
  BY <1>1, BootAssumption DEF UpTo, Files
<1>3. BootTypeOK
  BY <1>2, BootAssumption DEF BootInit, BootTypeOK, Working
<1>4. InOrder(applied)
  BY <1>1, <1>2 DEF InOrder
<1>5. \A p \in Processes : at[p] = "off"
  BY DEF BootInit
<1> QED
  BY <1>3, <1>4, <1>5, Parts DEF WInv, Held, Planned, Trying, Early

\* A step of process p that leaves records and plans alone, and takes the lock only when it is free.
LEMMA Elsewhere ==
  ASSUME WInv, NEW p \in Processes, NEW to,
         at' = [at EXCEPT ![p] = to], to \notin {"list", "apply", "clash"},
         applied' = applied, lock' = lock \/ lock' = Freed(p),
         \A q \in Processes : q # p => todo'[q] = todo[q]
  PROVE  MigratedInOrder' /\ Held'
<1>1. Recorded' = Recorded
  BY DEF Recorded
<1>2. at \in [Processes -> Working \cup {"off", "running", "idle", "clash", "failed"}]
  BY DEF WInv, BootTypeOK
<1>3. \A q \in Processes : Planned(at[q], todo[q], Recorded)
  BY Parts DEF WInv
<1>4. \A q \in Processes : Planned(at'[q], todo'[q], Recorded')
  BY <1>1, <1>2, <1>3 DEF Planned
<1>5. InOrder(applied')
  BY Parts DEF WInv
<1>6. MigratedInOrder'
  BY <1>4, <1>5 DEF MigratedInOrder, Planned, InOrder, UpTo
<1>7. Held'
  BY <1>2 DEF WInv, Held, Freed
<1> QED
  BY <1>6, <1>7

LEMMA TryingStep == WInv /\ Trying /\ [BootNext]_wvars => Trying'
<1> SUFFICES ASSUME WInv, Trying, [BootNext]_wvars PROVE Trying'
  OBVIOUS
<1>0. /\ at \in [Processes -> Working \cup {"off", "running", "idle", "clash", "failed"}]
      /\ tries \in [Processes -> 0..MaxTries] /\ MaxTries \in Nat /\ 1 <= MaxTries
  BY BootAssumption DEF WInv, BootTypeOK
<1>1. ASSUME NEW p \in Processes, Launch(p) PROVE Trying'
  BY <1>0, <1>1 DEF Launch, Trying, Early
<1>2. ASSUME NEW p \in Processes, Pool(p) \/ Ping(p) \/ Lock(p) \/ ListPending(p) \/ Unlock(p) \/ LoadSources(p)
      PROVE  Trying'
  <2>1. PICK to \in Early : at' = [at EXCEPT ![p] = to]
    BY <1>2 DEF Pool, Ping, Lock, ListPending, Unlock, LoadSources, Goes, Early
  <2>2. at[p] \in Early /\ tries' = tries
    BY <1>2 DEF Pool, Ping, Lock, ListPending, Unlock, LoadSources, Goes, Early
  <2> QED
    BY <1>0, <2>1, <2>2 DEF Trying, Early
<1>3. ASSUME NEW p \in Processes, Apply(p) PROVE Trying'
  <2>1. at' = at \/ at' = [at EXCEPT ![p] = "clash"]
    BY <1>3 DEF Apply, Goes
  <2>2. tries' = tries
    BY <1>3 DEF Apply
  <2> QED
    BY <1>0, <2>1, <2>2 DEF Trying, Early
<1>4. ASSUME NEW p \in Processes, Wire(p) PROVE Trying'
  <2>1. PICK to \in {"idle", "seed", "rules"} : at' = [at EXCEPT ![p] = to]
    BY <1>4 DEF Wire, Goes
  <2>2. at[p] \in Early /\ tries' = tries
    BY <1>4 DEF Wire, Goes, Early
  <2> QED
    BY <1>0, <2>1, <2>2 DEF Trying, Early
<1>5. ASSUME NEW p \in Processes, Seed(p) PROVE Trying'
  <2>1. CASE Reaches(AccountFile)
    BY <1>0, <1>5, <2>1 DEF Seed, Goes, Trying, Early
  <2>2. CASE ~Reaches(AccountFile)
    <3>1. tries' = [tries EXCEPT ![p] = @ + 1] /\ at[p] = "seed" /\ tries[p] < MaxTries
      BY <1>5, <2>2 DEF Seed, Trying
    <3>2. tries'[p] = tries[p] + 1 /\ tries'[p] <= MaxTries
      BY <1>0, <3>1
    <3>3. at' = [at EXCEPT ![p] = IF tries'[p] = MaxTries THEN "failed" ELSE "seed"]
      BY <1>5, <2>2 DEF Seed
    <3> QED
      BY <1>0, <3>1, <3>2, <3>3 DEF Trying, Early
  <2> QED
    BY <2>1, <2>2
<1>6. ASSUME NEW p \in Processes, SeedRules(p) \/ NewEngine(p) \/ Crash(p) PROVE Trying'
  <2>1. PICK to \in {"engine", "running", "failed"} : at' = [at EXCEPT ![p] = to]
    BY <1>6 DEF SeedRules, NewEngine, Crash, Fails, Goes
  <2>2. tries' = tries
    BY <1>6 DEF SeedRules, NewEngine, Crash
  <2> QED
    BY <1>0, <2>1, <2>2 DEF Trying, Early
<1>7. CASE DatabaseFails \/ DatabaseBack \/ UNCHANGED wvars
  <2>1. tries' = tries /\ \A p \in Processes : at'[p] = at[p] \/ at'[p] = "failed"
    BY <1>0, <1>7 DEF DatabaseFails, DatabaseBack, wvars
  <2> QED
    BY <2>1 DEF Trying, Early
<1> QED
  BY <1>1, <1>2, <1>3, <1>4, <1>5, <1>6, <1>7 DEF BootNext, Proceeds

LEMMA BootStepInv == WInv /\ Trying /\ [BootNext]_wvars => WInv'
<1> SUFFICES ASSUME WInv, Trying, [BootNext]_wvars PROVE WInv'
  OBVIOUS
<1>0. /\ dsn \in BOOLEAN /\ simOK \in BOOLEAN /\ pg \in BOOLEAN
      /\ applied \in Seq(Files) /\ lock \in Processes \cup {Nobody} /\ Nobody \notin Processes
      /\ at \in [Processes -> Working \cup {"off", "running", "idle", "clash", "failed"}]
      /\ todo \in [Processes -> SUBSET Files] /\ tries \in [Processes -> 0..MaxTries]
      /\ err \in [Processes -> {"nil", "dsn"}] /\ bootErr \in [Processes -> {"nil", "dsn"}]
      /\ outages \in Nat /\ MaxTries \in Nat /\ 1 <= MaxTries /\ MaxOutages \in Nat
      /\ InOrder(applied) /\ Held
      /\ \A q \in Processes : Planned(at[q], todo[q], Recorded)
  BY BootAssumption, Parts DEF WInv, BootTypeOK
<1> DEFINE Spots == Working \cup {"off", "running", "idle", "clash", "failed"}
<1>1. ASSUME NEW p \in Processes, Launch(p) PROVE WInv'
  <2>1. BootTypeOK'
    BY <1>0, <1>1 DEF Launch, Same, BootTypeOK, Working
  <2> QED
    BY <1>0, <1>1, <2>1, Elsewhere DEF Launch, WInv
<1>2. ASSUME NEW p \in Processes, Pool(p) PROVE WInv'
  <2>1. PICK to \in {"ping", "sources"} : at' = [at EXCEPT ![p] = to]
    BY <1>2 DEF Pool, Goes
  <2>2. err' \in [Processes -> {"nil", "dsn"}]
    BY <1>0, <1>2 DEF Pool
  <2>3. BootTypeOK'
    BY <1>0, <1>2, <2>1, <2>2 DEF Pool, Same, BootTypeOK, Working
  <2> QED
    BY <1>0, <1>2, <2>1, <2>3, Elsewhere DEF Pool, WInv
<1>3. ASSUME NEW p \in Processes, Ping(p) PROVE WInv'
  <2>1. PICK to \in {"lock", "sources"} : at' = [at EXCEPT ![p] = to]
    BY <1>3 DEF Ping, Goes
  <2>2. BootTypeOK'
    BY <1>0, <1>3, <2>1 DEF Ping, Same, BootTypeOK, Working
  <2> QED
    BY <1>0, <1>3, <2>1, <2>2, Elsewhere DEF Ping, WInv
<1>4. ASSUME NEW p \in Processes, Lock(p) PROVE WInv'
  <2>1. /\ lock = Nobody /\ lock' = p /\ at' = [at EXCEPT ![p] = "list"]
        /\ UNCHANGED <<applied, todo, dsn, simOK, pg, tries, err, bootErr, outages>>
    BY <1>4 DEF Lock, Goes, Same
  <2>2. BootTypeOK'
    BY <1>0, <2>1 DEF BootTypeOK, Working
  <2>3. \A q \in Processes : at[q] \notin {"list", "apply"}
    BY <1>0, <2>1 DEF Held
  <2>4. Held'
    BY <1>0, <2>1, <2>3 DEF Held
  <2>5. Recorded' = Recorded
    BY <2>1 DEF Recorded
  <2>6. MigratedInOrder'
    BY <1>0, <2>1, <2>3, <2>5 DEF MigratedInOrder, Planned, InOrder, UpTo
  <2> QED
    BY <2>2, <2>4, <2>6 DEF WInv
<1>5. ASSUME NEW p \in Processes, ListPending(p) PROVE WInv'
  <2>1. /\ at[p] = "list" /\ at' = [at EXCEPT ![p] = "apply"]
        /\ todo' = [todo EXCEPT ![p] = Files \ Recorded]
        /\ UNCHANGED <<applied, lock, dsn, simOK, pg, tries, err, bootErr, outages>>
    BY <1>5 DEF ListPending, Goes, Same
  <2>2. BootTypeOK'
    BY <1>0, <2>1 DEF BootTypeOK, Working
  <2>3. Held'
    BY <1>0, <2>1 DEF Held
  <2>4. Recorded' = Recorded
    BY <2>1 DEF Recorded
  <2>5. MigratedInOrder'
    BY <1>0, <2>1, <2>4 DEF MigratedInOrder, Planned, InOrder, UpTo
  <2> QED
    BY <2>2, <2>3, <2>5 DEF WInv
<1>6. ASSUME NEW p \in Processes, Apply(p) PROVE WInv'
  <2>1. at[p] = "apply" /\ todo[p] # {} /\ todo[p] = Files \ Recorded
    BY <1>0, <1>6 DEF Apply, Planned
  <2>2. /\ Foremost(p) \in Files /\ Foremost(p) \notin Recorded
        /\ InOrder(Append(applied, Foremost(p))) /\ Append(applied, Foremost(p)) \in Seq(Files)
    BY <1>0, <2>1, NextFile
  <2>3. /\ applied' = Append(applied, Foremost(p)) /\ UNCHANGED <<at, lock>>
        /\ todo' = [todo EXCEPT ![p] = @ \ {Foremost(p)}]
        /\ UNCHANGED <<dsn, simOK, pg, tries, err, bootErr, outages>>
    BY <1>6, <2>2 DEF Apply, Same
  <2> DEFINE f == Foremost(p)
  <2> HIDE DEF f
  <2>4. /\ f \in Files /\ applied' = Append(applied, f) /\ InOrder(applied') /\ applied' \in Seq(Files)
        /\ todo' = [todo EXCEPT ![p] = @ \ {f}]
    BY <2>2, <2>3 DEF f
  <2>5. BootTypeOK'
    BY <1>0, <2>3, <2>4 DEF BootTypeOK
  <2>6. Held'
    BY <1>0, <2>3 DEF Held
  <2>7. Recorded' = Recorded \cup {f}
    <3>1. Len(applied') = Len(applied) + 1 /\ Len(applied) \in Nat
      BY <1>0, <2>4
    <3>2. \A i \in 1..Len(applied') : applied'[i] = IF i = Len(applied) + 1 THEN f ELSE applied[i]
      BY <1>0, <2>4
    <3> QED
      BY <3>1, <3>2 DEF Recorded
  <2>8. \A q \in Processes : q # p => at[q] # "apply"
    BY <1>0, <2>1 DEF Held
  <2>9. \A q \in Processes : Planned(at'[q], todo'[q], Recorded')
    BY <1>0, <2>1, <2>3, <2>4, <2>7, <2>8 DEF Planned
  <2>10. MigratedInOrder'
    BY <2>4, <2>9 DEF MigratedInOrder, Planned, InOrder, UpTo
  <2> QED
    BY <2>5, <2>6, <2>10 DEF WInv
<1>7. ASSUME NEW p \in Processes, Unlock(p) PROVE WInv'
  <2>1. at' = [at EXCEPT ![p] = "sources"] /\ lock' = Freed(p)
        /\ UNCHANGED <<applied, todo, dsn, simOK, pg, tries, err, bootErr, outages>>
    BY <1>7 DEF Unlock, Goes, Same
  <2>2. BootTypeOK'
    BY <1>0, <2>1 DEF BootTypeOK, Working, Freed
  <2> QED
    BY <1>0, <2>1, <2>2, Elsewhere DEF WInv
<1>8. ASSUME NEW p \in Processes, LoadSources(p) PROVE WInv'
  <2>1. BootTypeOK'
    BY <1>0, <1>8 DEF LoadSources, Goes, Same, BootTypeOK, Working
  <2> QED
    BY <1>0, <1>8, <2>1, Elsewhere DEF LoadSources, Goes, WInv
<1>9. ASSUME NEW p \in Processes, Wire(p) PROVE WInv'
  <2>1. PICK to \in {"idle", "seed", "rules"} : at' = [at EXCEPT ![p] = to]
    BY <1>9 DEF Wire, Goes
  <2>2. BootTypeOK'
    BY <1>0, <1>9, <2>1 DEF Wire, Same, BootTypeOK, Working
  <2> QED
    BY <1>0, <1>9, <2>1, <2>2, Elsewhere DEF Wire, WInv
<1>10. ASSUME NEW p \in Processes, Seed(p) PROVE WInv'
  <2>1. PICK to \in {"rules", "seed", "failed"} : at' = [at EXCEPT ![p] = to]
    BY <1>10 DEF Seed, Goes
  <2>2. UNCHANGED <<applied, lock, todo, dsn, simOK, pg, err, bootErr, outages>>
    BY <1>10 DEF Seed, Same
  <2>3. tries' \in [Processes -> 0..MaxTries]
    <3>1. CASE Reaches(AccountFile)
      BY <1>0, <1>10, <3>1 DEF Seed
    <3>2. CASE ~Reaches(AccountFile)
      <4>1. tries' = [tries EXCEPT ![p] = @ + 1] /\ tries[p] < MaxTries
        BY <1>10, <3>2 DEF Seed, Trying
      <4> QED
        BY <1>0, <4>1
    <3> QED
      BY <3>1, <3>2
  <2>4. BootTypeOK'
    BY <1>0, <2>1, <2>2, <2>3 DEF BootTypeOK, Working
  <2> QED
    BY <1>0, <2>1, <2>2, <2>4, Elsewhere DEF WInv
<1>11. ASSUME NEW p \in Processes, SeedRules(p) \/ NewEngine(p) PROVE WInv'
  <2>1. PICK to \in {"engine", "running", "failed"} : at' = [at EXCEPT ![p] = to]
    BY <1>11 DEF SeedRules, NewEngine, Goes
  <2>2. UNCHANGED <<applied, lock, todo, dsn, simOK, pg, tries, err, bootErr, outages>>
    BY <1>11 DEF SeedRules, NewEngine, Same
  <2>3. BootTypeOK'
    BY <1>0, <2>1, <2>2 DEF BootTypeOK, Working
  <2> QED
    BY <1>0, <2>1, <2>2, <2>3, Elsewhere DEF WInv
<1>12. ASSUME NEW p \in Processes, Crash(p) PROVE WInv'
  <2>1. at' = [at EXCEPT ![p] = "failed"] /\ lock' = Freed(p) /\ outages' = outages + 1
        /\ UNCHANGED <<applied, todo, dsn, simOK, pg, tries, err, bootErr>>
    BY <1>12 DEF Crash, Fails, Goes, Same
  <2>2. BootTypeOK'
    BY <1>0, <2>1 DEF BootTypeOK, Working, Freed
  <2> QED
    BY <1>0, <2>1, <2>2, Elsewhere DEF WInv
<1>13. CASE DatabaseFails
  <2>1. /\ lock' = Nobody /\ pg' = FALSE /\ outages' = outages + 1
        /\ at' = [p \in Processes |-> IF at[p] \in {"lock", "list", "apply"} THEN "failed" ELSE at[p]]
        /\ UNCHANGED <<dsn, simOK, applied, todo, tries, err, bootErr>>
    BY <1>13 DEF DatabaseFails
  <2>2. BootTypeOK'
    <3>1. \A p \in Processes : at'[p] \in Spots
      BY <1>0, <2>1
    <3>2. at' \in [Processes -> Spots]
      BY <2>1, <3>1
    <3>3. /\ applied' \in Seq(Files) /\ todo' \in [Processes -> SUBSET Files]
          /\ tries' \in [Processes -> 0..MaxTries] /\ outages' \in Nat
      BY <1>0, <2>1
    <3>4. dsn' \in BOOLEAN /\ simOK' \in BOOLEAN /\ pg' \in BOOLEAN /\ lock' \in Processes \cup {Nobody}
      BY <1>0, <2>1, Zenon
    <3>5. err' \in [Processes -> {"nil", "dsn"}] /\ bootErr' \in [Processes -> {"nil", "dsn"}]
      BY <1>0, <2>1
    <3> QED
      BY <3>2, <3>3, <3>4, <3>5 DEF BootTypeOK
  <2>3. Held'
    BY <2>1 DEF Held
  <2>4. Recorded' = Recorded
    BY <2>1 DEF Recorded
  <2>5. MigratedInOrder'
    BY <1>0, <2>1, <2>4 DEF MigratedInOrder, Planned, InOrder, UpTo
  <2> QED
    BY <2>2, <2>3, <2>5 DEF WInv
<1>14. CASE DatabaseBack \/ UNCHANGED wvars
  <2>1. pg' \in BOOLEAN /\ UNCHANGED <<dsn, simOK, applied, lock, at, todo, tries, err, bootErr, outages>>
    BY <1>0, <1>14 DEF DatabaseBack, wvars
  <2>2. Recorded' = Recorded
    BY <2>1 DEF Recorded
  <2> QED
    BY <1>0, <2>1, <2>2 DEF WInv, BootTypeOK, Held, MigratedInOrder, Planned, InOrder, UpTo
<1> QED
  BY <1>1, <1>2, <1>3, <1>4, <1>5, <1>6, <1>7, <1>8, <1>9, <1>10, <1>11, <1>12, <1>13, <1>14
  DEF BootNext, Proceeds

(* The types of the boot. *)
THEOREM BootTypes == BootSpec => []BootTypeOK
<1>1. WInv => BootTypeOK
  BY DEF WInv
<1> QED
  BY BootInitInv, BootStepInv, TryingStep, <1>1, PTL DEF BootSpec

(* However many processes start, fail and start again, the migrations are    *)
(* applied once and in the order of the files, no process runs into the      *)
(* record of another, and the plan of the one at work is what is missing.    *)
THEOREM MigrationsInOrder == BootSpec => []MigratedInOrder
<1>1. WInv => MigratedInOrder
  BY DEF WInv
<1> QED
  BY BootInitInv, BootStepInv, TryingStep, <1>1, PTL DEF BootSpec

-----------------------------------------------------------------------------
(* Mirror: for any number of concurrent confirmations and any answers of the exchange. *)


\* What a request may have left of the legs of a hedge, and the legs in it.
Tails == {<<>>, <<"perp">>, <<"spot", "perp">>}
LeftOf(L) == IF L = <<>> THEN {} ELSE IF L = <<"perp">> THEN {"perp"} ELSE Legs

Ends == {"skipped", "recorded", "unrecorded", "failed"}
Unbegun == {"off", "gate"}

\* A request is at a leg or has none left.
LegsLeft ==
  \A c \in Confirms :
    /\ legs[c] \in Tails
    /\ ctl[c] \in {"place", "record"} => legs[c] # <<>>

\* A leg it has not got to has no outcome.
OutcomesLater ==
  \A c \in Confirms, l \in Legs :
    l \in LeftOf(legs[c]) \/ ctl[c] \in Unbegun => ended[c][l] = "open"

\* Nor is it at the exchange, unless it has just been placed; one that is there without an outcome
\* has just been placed too, or its request went down with the process.
OrdersLater ==
  \A o \in orders :
    /\ ctl[o.by] \notin Unbegun
    /\ o.leg \in LeftOf(legs[o.by]) => ctl[o.by] = "record" /\ o.leg = Head(legs[o.by])
    /\ \/ ended[o.by][o.leg] # "open"
       \/ ctl[o.by] = "crashed"
       \/ ctl[o.by] = "record" /\ o.leg = Head(legs[o.by])

\* A result with a quantity was read back from the exchange.
ResultBacked ==
  \A c \in Confirms : ctl[c] = "record" /\ result[c].sized =>
    \E o \in orders : o.by = c /\ o.leg = Head(legs[c]) /\ ReadBack(o.state).status = result[c].status

(* The inductive invariant: rows, orders and outcomes agree on the legs a    *)
(* request has behind it, and have nothing on those before it.               *)
MInv ==
  /\ MirrorTypeOK
  /\ LegsLeft /\ OutcomesLater /\ OrdersLater /\ ResultBacked
  /\ MirrorAccounted

-----------------------------------------------------------------------------
LEMMA TailFacts ==
  ASSUME NEW L \in Tails, L # <<>>
  PROVE /\ Head(L) \in Legs /\ Head(L) \in LeftOf(L)
        /\ Tail(L) \in Tails /\ LeftOf(Tail(L)) = LeftOf(L) \ {Head(L)}
<1>1. CASE L = <<"perp">>
  <2>1. Head(L) = "perp" /\ Tail(L) = <<>>
    BY <1>1
  <2> QED
    BY <1>1, <2>1 DEF Tails, LeftOf, Legs
<1>2. CASE L = <<"spot", "perp">>
  <2>1. Head(L) = "spot" /\ Tail(L) = <<"perp">>
    BY <1>2
  <2>2. L # <<"perp">> /\ <<"perp">> # <<>>
    BY <1>2
  <2> QED
    BY <1>2, <2>1, <2>2 DEF Tails, LeftOf, Legs
<1> QED
  BY <1>1, <1>2 DEF Tails

LEMMA TailsAreSeqs == Tails \subseteq Seq(Legs)
BY DEF Tails, Legs

LEMMA MirroredTails == Mirrored \in Tails
BY DEF Mirrored, Tails

LEMMA ReadBackType == \A s \in Answers : ReadBack(s) \in ExecResult
BY DEF ReadBack, ExecResult, ExecStatuses

LEMMA NoResultType == NoResult \in ExecResult /\ ~NoResult.sized
BY DEF NoResult, ExecResult, ExecStatuses

LEMMA MirrorInitInv == MirrorInit => MInv
<1> SUFFICES ASSUME MirrorInit PROVE MInv
  OBVIOUS
<1>1. MirrorTypeOK
  BY NoResultType DEF MirrorInit, MirrorTypeOK, Legs
<1>2. LegsLeft /\ OutcomesLater /\ OrdersLater /\ ResultBacked
  BY DEF MirrorInit, LegsLeft, OutcomesLater, OrdersLater, ResultBacked, Tails, Unbegun
<1>3. MirrorAccounted
  BY DEF MirrorInit, MirrorAccounted
<1> QED
  BY <1>1, <1>2, <1>3 DEF MInv

\* The types of what ends at a leg.
LEMMA LegEndsTypes ==
  ASSUME MirrorTypeOK, LegsLeft, NEW c \in Confirms, NEW how \in Ends, LegEnds(c, how),
         ctl[c] \in {"place", "record"}
  PROVE /\ ended' \in [Confirms -> [Legs -> {"open", "skipped", "recorded", "unrecorded", "failed"}]]
        /\ legs' \in [Confirms -> Seq(Legs)]
        /\ result' \in [Confirms -> ExecResult]
        /\ ctl' = [ctl EXCEPT ![c] = ctl'[c]] /\ ctl'[c] \in {"accept", "place"}
        /\ ended' = [ended EXCEPT ![c] = ended'[c]] /\ ended'[c] = [ended[c] EXCEPT ![Head(legs[c])] = how]
        /\ legs'[c] = Tail(legs[c]) /\ \A d \in Confirms \ {c} : legs'[d] = legs[d]
        /\ Head(legs[c]) \in Legs
<1>1. Head(legs[c]) \in Legs /\ Tail(legs[c]) \in Tails
  BY TailFacts DEF LegsLeft
<1>2. legs' \in [Confirms -> Seq(Legs)]
  BY <1>1, TailsAreSeqs DEF LegEnds, MirrorTypeOK
<1>3. result' \in [Confirms -> ExecResult]
  BY NoResultType DEF LegEnds, MirrorTypeOK
<1>4. [ended[c] EXCEPT ![Head(legs[c])] = how] \in [Legs -> {"open", "skipped", "recorded", "unrecorded", "failed"}]
  BY DEF MirrorTypeOK, Ends
<1>5. ended' = [ended EXCEPT ![c] = [ended[c] EXCEPT ![Head(legs[c])] = how]]
  BY DEF LegEnds, MirrorTypeOK
<1>6. ended'[c] = [ended[c] EXCEPT ![Head(legs[c])] = how] /\ ended' = [ended EXCEPT ![c] = ended'[c]]
  BY <1>5 DEF MirrorTypeOK
<1>7. ctl' = [ctl EXCEPT ![c] = ctl'[c]] /\ ctl'[c] \in {"accept", "place"}
  BY DEF LegEnds, Moves, MirrorTypeOK
<1>8. legs'[c] = Tail(legs[c]) /\ \A d \in Confirms \ {c} : legs'[d] = legs[d]
  BY DEF LegEnds, MirrorTypeOK
<1>9. ended' \in [Confirms -> [Legs -> {"open", "skipped", "recorded", "unrecorded", "failed"}]]
  BY <1>4, <1>5 DEF MirrorTypeOK
<1> QED
  BY <1>1, <1>2, <1>3, <1>6, <1>7, <1>8, <1>9

LEMMA LegEndsTypeOK ==
  ASSUME MirrorTypeOK, LegsLeft, NEW c \in Confirms, NEW how \in Ends, LegEnds(c, how),
         ctl[c] \in {"place", "record"}, rows' \subseteq Row,
         UNCHANGED <<venue, kind, status, gone, late, orders>>
  PROVE MirrorTypeOK'
<1>1. /\ ended' \in [Confirms -> [Legs -> {"open", "skipped", "recorded", "unrecorded", "failed"}]]
      /\ legs' \in [Confirms -> Seq(Legs)]
      /\ result' \in [Confirms -> ExecResult]
  BY LegEndsTypes
<1>2. ctl' = [ctl EXCEPT ![c] = ctl'[c]] /\ ctl'[c] \in {"accept", "place"}
  BY LegEndsTypes
<1>3. ctl' \in [Confirms -> Under \cup {"off", "accepted", "refused", "failed", "broken", "crashed"}]
  BY <1>2 DEF MirrorTypeOK, Under
<1> QED
  BY <1>1, <1>3 DEF MirrorTypeOK

\* The end of a leg leaves the legs before a request as they were.
LEMMA LegEndsLater ==
  ASSUME MInv, NEW c \in Confirms, NEW how \in Ends, LegEnds(c, how),
         ctl[c] \in {"place", "record"}, orders' = orders
  PROVE LegsLeft' /\ OutcomesLater' /\ OrdersLater' /\ ResultBacked'
<1>0. MirrorTypeOK /\ LegsLeft /\ OutcomesLater /\ OrdersLater /\ ResultBacked
  BY DEF MInv
<1>1. /\ ctl' = [ctl EXCEPT ![c] = ctl'[c]] /\ ctl'[c] \in {"accept", "place"}
      /\ ended' = [ended EXCEPT ![c] = ended'[c]] /\ ended'[c] = [ended[c] EXCEPT ![Head(legs[c])] = how]
      /\ legs'[c] = Tail(legs[c]) /\ \A d \in Confirms \ {c} : legs'[d] = legs[d]
      /\ Head(legs[c]) \in Legs
  BY <1>0, LegEndsTypes
<1>2. legs[c] \in Tails /\ legs[c] # <<>>
  BY <1>0 DEF LegsLeft
<1>3. Tail(legs[c]) \in Tails /\ LeftOf(Tail(legs[c])) = LeftOf(legs[c]) \ {Head(legs[c])}
  BY <1>2, TailFacts
<1>4. \A d \in Confirms \ {c} : ctl'[d] = ctl[d] /\ ended'[d] = ended[d] /\ result'[d] = result[d]
  BY <1>0, <1>1 DEF MirrorTypeOK, LegEnds
<1>5. legs'[c] # <<>> \/ ctl'[c] = "accept"
  BY <1>0 DEF LegEnds, Moves, MirrorTypeOK
<1>6. LegsLeft'
  BY <1>0, <1>1, <1>3, <1>4, <1>5 DEF LegsLeft
<1>7. OutcomesLater'
  <2> SUFFICES ASSUME NEW d \in Confirms, NEW l \in Legs, l \in LeftOf(legs'[d]) \/ ctl'[d] \in Unbegun
               PROVE ended'[d][l] = "open"
    BY DEF OutcomesLater
  <2>1. CASE d = c
    <3>1. l \in LeftOf(legs[c]) /\ l # Head(legs[c])
      BY <1>1, <1>3, <2>1 DEF Unbegun
    <3>2. ended[c][l] = "open"
      BY <1>0, <3>1 DEF OutcomesLater
    <3>3. ended'[c][l] = ended[c][l]
      BY <1>0, <1>1, <3>1 DEF MirrorTypeOK
    <3> QED
      BY <2>1, <3>2, <3>3
  <2>2. CASE d # c
    BY <1>0, <1>1, <1>4, <2>2 DEF OutcomesLater
  <2> QED
    BY <2>1, <2>2
<1>8. OrdersLater'
  <2> SUFFICES ASSUME NEW o \in orders
               PROVE /\ ctl'[o.by] \notin Unbegun
                     /\ o.leg \in LeftOf(legs'[o.by]) => ctl'[o.by] = "record" /\ o.leg = Head(legs'[o.by])
                     /\ \/ ended'[o.by][o.leg] # "open"
                        \/ ctl'[o.by] = "crashed"
                        \/ ctl'[o.by] = "record" /\ o.leg = Head(legs'[o.by])
    BY DEF OrdersLater
  <2>1. o.by \in Confirms /\ o.leg \in Legs
    BY <1>0 DEF MirrorTypeOK, Order
  <2>2. CASE o.by = c
    <3>1. o.leg \in LeftOf(legs[c]) => o.leg = Head(legs[c])
      BY <1>0, <2>2 DEF OrdersLater
    <3>2. ended'[c][o.leg] # "open"
      <4>1. o.leg = Head(legs[c]) \/ ended[c][o.leg] # "open"
        BY <1>0, <2>2 DEF OrdersLater
      <4>2. ended'[c][o.leg] = IF o.leg = Head(legs[c]) THEN how ELSE ended[c][o.leg]
        BY <1>0, <1>1, <2>1 DEF MirrorTypeOK
      <4> QED
        BY <4>1, <4>2 DEF Ends
    <3> QED
      BY <1>1, <1>3, <2>2, <3>1, <3>2 DEF Unbegun
  <2>3. CASE o.by # c
    BY <1>0, <1>1, <1>4, <2>1, <2>3 DEF OrdersLater
  <2> QED
    BY <2>2, <2>3
<1>9. ResultBacked'
  BY <1>0, <1>1, <1>4 DEF ResultBacked
<1> QED
  BY <1>6, <1>7, <1>8, <1>9

LEMMA RowTyped ==
  ASSUME MirrorTypeOK, LegsLeft, NEW c \in Confirms, ctl[c] = "record"
  PROVE RowOf(c) \in Row
<1>1. Head(legs[c]) \in Legs
  BY TailFacts DEF LegsLeft
<1> QED
  BY <1>1 DEF RowOf, MirrorTypeOK, ExecResult, Row

LEMMA MirrorTypeStep == MirrorTypeOK /\ LegsLeft /\ [MirrorNext]_rvars => MirrorTypeOK'
<1> SUFFICES ASSUME MirrorTypeOK, LegsLeft, [MirrorNext]_rvars PROVE MirrorTypeOK'
  OBVIOUS
<1>1. CASE UNCHANGED rvars
  BY <1>1 DEF rvars, MirrorTypeOK
<1>2. ASSUME NEW c \in Confirms, MirrorStep(c) PROVE MirrorTypeOK'
  <2>1. CASE Read(c) \/ GateRefuses(c)
    BY <2>1 DEF Read, GateRefuses, Moves, Steady, NoMirror, Returns, Taken, Under, MirrorTypeOK
  <2>2. CASE GatePasses(c)
    <3>1. legs' \in [Confirms -> Seq(Legs)]
      BY <2>2, MirroredTails, TailsAreSeqs DEF GatePasses, MirrorTypeOK
    <3> QED
      BY <2>2, <3>1 DEF GatePasses, Moves, Steady, Under, MirrorTypeOK
  <2>3. CASE ClientLeaves(c) \/ BudgetEnds(c)
    BY <2>3 DEF ClientLeaves, BudgetEnds, Steady, MirrorTypeOK
  <2>4. CASE SkipLeg(c)
    <3>1. rows' \subseteq Row /\ "skipped" \in Ends
      BY <2>4 DEF SkipLeg, MirrorTypeOK, Ends
    <3> QED
      BY <2>4, <3>1, LegEndsTypeOK DEF SkipLeg, Steady
  <2>5. ASSUME NEW r \in ExecResult, NEW states \in SUBSET Answers, Placed(c, r, states) PROVE MirrorTypeOK'
    <3>1. Head(legs[c]) \in Legs
      BY <2>5, TailFacts DEF LegsLeft, Placed, Moves
    <3>2. orders' \subseteq Order
      BY <2>5, <3>1 DEF Placed, MirrorTypeOK, Order
    <3> QED
      BY <2>5, <3>2 DEF Placed, Moves, Steady, Under, MirrorTypeOK
  <2>6. CASE PlaceAnswered(c)
    BY <2>5, <2>6, ReadBackType DEF PlaceAnswered
  <2>7. CASE PlaceRefused(c) \/ PlaceUnanswered(c) \/ PlaceFails(c)
    <3>1. [NoResult EXCEPT !.status = "rejected"] \in ExecResult
      BY NoResultType DEF ExecResult, ExecStatuses
    <3> QED
      BY <2>5, <2>7, <3>1, NoResultType DEF PlaceRefused, PlaceUnanswered, PlaceFails
  <2>8. CASE Record(c) \/ RecordUnanswered(c)
    <3>1. rows' \subseteq Row /\ ctl[c] = "record"
      <4>1. Insertable(c) /\ rows' = rows \cup {RowOf(c)}
        BY <2>8 DEF Record, RecordUnanswered, Stored
      <4> QED
        BY <4>1, RowTyped DEF Insertable, MirrorTypeOK
    <3>2. PICK how \in Ends : LegEnds(c, how)
      BY <2>8 DEF Record, RecordUnanswered, Ends
    <3> QED
      BY <2>8, <3>1, <3>2, LegEndsTypeOK DEF Record, RecordUnanswered, Steady
  <2>9. CASE RecordFails(c) \/ RecordRefused(c)
    <3>1. rows' \subseteq Row /\ ctl[c] = "record"
      BY <2>9 DEF RecordFails, RecordRefused, MirrorTypeOK
    <3>2. PICK how \in Ends : LegEnds(c, how)
      BY <2>9 DEF RecordFails, RecordRefused, Ends
    <3> QED
      BY <2>9, <3>1, <3>2, LegEndsTypeOK DEF RecordFails, RecordRefused, Steady
  <2>10. CASE Accept(c) \/ AcceptCancelled(c) \/ ReadFails(c) \/ GateFails(c) \/ AcceptFails(c)
    BY <2>10 DEF Accept, AcceptCancelled, ReadFails, GateFails, AcceptFails, Moves, Steady, Returns, Taken, Under,
                 MirrorTypeOK
  <2> QED
    BY <1>2, <2>1, <2>2, <2>3, <2>4, <2>6, <2>7, <2>8, <2>9, <2>10 DEF MirrorStep
<1>3. CASE ServerDies
  <2>1. rows' \subseteq Row
    BY <1>3, RowTyped DEF ServerDies, Insertable, MirrorTypeOK
  <2>2. result' \in [Confirms -> ExecResult] /\ legs' \in [Confirms -> Seq(Legs)]
    BY <1>3, NoResultType, TailsAreSeqs DEF ServerDies, Tails
  <2>3. ctl' \in [Confirms -> Under \cup {"off", "accepted", "refused", "failed", "broken", "crashed"}]
    BY <1>3 DEF ServerDies, MirrorTypeOK
  <2>4. status' \in {"suggested", "filled", "rejected"}
    BY <1>3 DEF ServerDies, Taken, MirrorTypeOK
  <2> QED
    BY <1>3, <2>1, <2>2, <2>3, <2>4 DEF ServerDies, Steady, MirrorTypeOK
<1> QED
  BY <1>1, <1>2, <1>3 DEF MirrorNext

-----------------------------------------------------------------------------
\* A step that moves no request past or into a leg.
LEMMA Aside ==
  ASSUME MInv, [MirrorNext]_rvars, UNCHANGED <<legs, result, orders, rows, ended>>,
         \A d \in Confirms :
           /\ ctl'[d] = ctl[d] \/ ctl'[d] \notin {"place", "record"}
           /\ ctl'[d] \in Unbegun => ctl[d] \in Unbegun
           /\ ctl[d] \in {"record", "crashed"} => ctl'[d] = ctl[d]
  PROVE MInv'
<1>0. MirrorTypeOK /\ LegsLeft /\ OutcomesLater /\ OrdersLater /\ ResultBacked /\ MirrorAccounted
  BY DEF MInv
<1>1. MirrorTypeOK'
  BY <1>0, MirrorTypeStep
<1>2. LegsLeft' /\ OutcomesLater'
  BY <1>0 DEF LegsLeft, OutcomesLater
<1>3. \A o \in orders : o.by \in Confirms
  BY <1>0 DEF MirrorTypeOK, Order
<1>4. \A r \in rows : r.by \in Confirms
  BY <1>0 DEF MirrorTypeOK, Row
<1>5. OrdersLater'
  BY <1>0, <1>3 DEF OrdersLater
<1>6. ResultBacked'
  BY <1>0 DEF ResultBacked
<1>7. MirrorAccounted'
  BY <1>0, <1>3, <1>4 DEF MirrorAccounted
<1> QED
  BY <1>1, <1>2, <1>5, <1>6, <1>7 DEF MInv

\* The mirror begins.
LEMMA Begins ==
  ASSUME MInv, NEW c \in Confirms, GatePasses(c), MirrorTypeOK'
  PROVE MInv'
<1>0. MirrorTypeOK /\ LegsLeft /\ OutcomesLater /\ OrdersLater /\ ResultBacked /\ MirrorAccounted
  BY DEF MInv
<1>1. /\ ctl[c] = "gate" /\ ctl'[c] = (IF Mirrored = <<>> THEN "accept" ELSE "place")
      /\ \A d \in Confirms \ {c} : ctl'[d] = ctl[d] /\ legs'[d] = legs[d]
      /\ legs'[c] = Mirrored
      /\ UNCHANGED <<result, orders, rows, ended>>
  BY <1>0 DEF GatePasses, Moves, MirrorTypeOK
<1>2. LegsLeft'
  BY <1>0, <1>1, MirroredTails DEF LegsLeft
<1>3. OutcomesLater'
  BY <1>0, <1>1 DEF OutcomesLater, Unbegun
<1>4. OrdersLater'
  <2> SUFFICES ASSUME NEW o \in orders
               PROVE /\ ctl'[o.by] \notin Unbegun
                     /\ o.leg \in LeftOf(legs'[o.by]) => ctl'[o.by] = "record" /\ o.leg = Head(legs'[o.by])
                     /\ \/ ended'[o.by][o.leg] # "open"
                        \/ ctl'[o.by] = "crashed"
                        \/ ctl'[o.by] = "record" /\ o.leg = Head(legs'[o.by])
    BY <1>1 DEF OrdersLater
  <2>1. o.by \in Confirms /\ o.by # c
    BY <1>0, <1>1 DEF MirrorTypeOK, Order, OrdersLater, Unbegun
  <2> QED
    BY <1>0, <1>1, <2>1 DEF OrdersLater
<1>5. ResultBacked'
  BY <1>0, <1>1 DEF ResultBacked
<1>6. MirrorAccounted'
  <2>1. \A r \in rows : r.by \in Confirms
    BY <1>0 DEF MirrorTypeOK, Row
  <2>2. \A o \in orders : o.by \in Confirms
    BY <1>0 DEF MirrorTypeOK, Order
  <2>3. ctl[c] \notin {"record", "crashed"}
    BY <1>1
  <2> QED
    BY <1>0, <1>1, <2>1, <2>2, <2>3 DEF MirrorAccounted
<1> QED
  BY <1>2, <1>3, <1>4, <1>5, <1>6 DEF MInv

\* A leg is placed, or at least tried.
LEMMA Spots ==
  ASSUME MInv, NEW c \in Confirms, NEW r \in ExecResult, NEW states \in SUBSET Answers, Placed(c, r, states),
         r.sized => \E s \in Answers : states = {s} /\ ReadBack(s).status = r.status,
         MirrorTypeOK'
  PROVE MInv'
<1>0. MirrorTypeOK /\ LegsLeft /\ OutcomesLater /\ OrdersLater /\ ResultBacked /\ MirrorAccounted
  BY DEF MInv
<1>1. /\ ctl[c] = "place" /\ ctl'[c] = "record" /\ result'[c] = r
      /\ \A d \in Confirms \ {c} : ctl'[d] = ctl[d] /\ result'[d] = result[d]
      /\ UNCHANGED <<legs, rows, ended>>
  BY <1>0 DEF Placed, Moves, MirrorTypeOK
<1>2. legs[c] \in Tails /\ legs[c] # <<>>
  BY <1>0, <1>1 DEF LegsLeft
<1>3. Head(legs[c]) \in Legs /\ Head(legs[c]) \in LeftOf(legs[c])
  BY <1>2, TailFacts
<1>4. orders' = orders \/ \E s \in states : orders' = orders \cup {[by |-> c, leg |-> Head(legs[c]), state |-> s]}
  BY DEF Placed
<1>5. orders \subseteq orders'
  BY <1>4
<1>6. \A o \in orders' \ orders : o.by = c /\ o.leg = Head(legs[c])
  BY <1>4
<1>7. LegsLeft' /\ OutcomesLater'
  BY <1>0, <1>1, <1>2 DEF LegsLeft, OutcomesLater, Unbegun
<1>8. OrdersLater'
  <2> SUFFICES ASSUME NEW o \in orders'
               PROVE /\ ctl'[o.by] \notin Unbegun
                     /\ o.leg \in LeftOf(legs[o.by]) => ctl'[o.by] = "record" /\ o.leg = Head(legs[o.by])
                     /\ \/ ended[o.by][o.leg] # "open"
                        \/ ctl'[o.by] = "crashed"
                        \/ ctl'[o.by] = "record" /\ o.leg = Head(legs[o.by])
    BY <1>1 DEF OrdersLater
  <2>1. CASE o \in orders
    <3>1. o.by \in Confirms
      BY <1>0, <2>1 DEF MirrorTypeOK, Order
    <3> QED
      BY <1>0, <1>1, <2>1, <3>1 DEF OrdersLater, Unbegun
  <2>2. CASE o \notin orders
    BY <1>1, <1>6, <2>2 DEF Unbegun
  <2> QED
    BY <2>1, <2>2
<1>9. ResultBacked'
  <2> SUFFICES ASSUME NEW d \in Confirms, ctl'[d] = "record", result'[d].sized
               PROVE \E o \in orders' : o.by = d /\ o.leg = Head(legs[d]) /\ ReadBack(o.state).status = result'[d].status
    BY <1>1 DEF ResultBacked
  <2>1. CASE d = c
    <3>1. PICK s \in Answers : states = {s} /\ ReadBack(s).status = r.status
      BY <1>1, <2>1
    <3>2. [by |-> c, leg |-> Head(legs[c]), state |-> s] \in orders'
      BY <3>1 DEF Placed
    <3> QED
      BY <1>1, <2>1, <3>1, <3>2
  <2>2. CASE d # c
    BY <1>0, <1>1, <1>5, <2>2 DEF ResultBacked
  <2> QED
    BY <2>1, <2>2
<1>10. ended[c][Head(legs[c])] = "open"
  BY <1>0, <1>3 DEF OutcomesLater
<1>11. MirrorAccounted'
  <2>1. ASSUME NEW x \in rows
        PROVE  /\ \E o \in orders' : o.by = x.by /\ o.leg = x.leg /\ ReadBack(o.state).status = x.status
               /\ \A t \in rows' : t.by = x.by /\ t.leg = x.leg => t = x
               /\ \/ ended'[x.by][x.leg] \in {"recorded", "failed"}
                  \/ ended'[x.by][x.leg] = "open" /\ ctl'[x.by] = "crashed"
    <3>1. x.by \in Confirms
      BY <1>0, <2>1 DEF MirrorTypeOK, Row
    <3>2. ctl[x.by] = "crashed" => ctl'[x.by] = "crashed"
      BY <1>1, <3>1
    <3> QED
      BY <1>0, <1>1, <1>5, <2>1, <3>2 DEF MirrorAccounted
  <2>2. ASSUME NEW o \in orders', NEW p \in orders', p.by = o.by, p.leg = o.leg
        PROVE  p = o
    <3>1. \A q \in orders : ~(q.by = c /\ q.leg = Head(legs[c]))
      BY <1>0, <1>1, <1>3 DEF OrdersLater
    <3>2. CASE o \in orders /\ p \in orders
      BY <1>0, <2>2, <3>2 DEF MirrorAccounted
    <3>3. CASE o \notin orders \/ p \notin orders
      <4>1. o.by = c /\ o.leg = Head(legs[c])
        BY <1>6, <2>2, <3>3
      <4>2. o \notin orders /\ p \notin orders
        BY <2>2, <3>1, <4>1
      <4> QED
        BY <1>4, <4>2
    <3> QED
      BY <3>2, <3>3
  <2>3. ASSUME NEW o \in orders'
        PROVE  \/ \E x \in rows : x.by = o.by /\ x.leg = o.leg
               \/ ended[o.by][o.leg] \in {"unrecorded", "failed"}
               \/ ended[o.by][o.leg] = "open" /\ ctl'[o.by] \in {"record", "crashed"}
    <3>1. CASE o \in orders
      <4>1. o.by \in Confirms
        BY <1>0, <3>1 DEF MirrorTypeOK, Order
      <4> QED
        BY <1>0, <1>1, <3>1, <4>1 DEF MirrorAccounted
    <3>2. CASE o \notin orders
      BY <1>1, <1>6, <1>10, <3>2
    <3> QED
      BY <3>1, <3>2
  <2> QED
    BY <1>0, <1>1, <2>1, <2>2, <2>3 DEF MirrorAccounted
<1> QED
  BY <1>7, <1>8, <1>9, <1>11 DEF MInv

\* The end of a leg, with a row or without: what is said of the others stays.
LEMMA EndsElsewhere ==
  ASSUME MInv, NEW c \in Confirms, NEW how \in Ends, LegEnds(c, how), ctl[c] \in {"place", "record"}
  PROVE /\ Head(legs[c]) \in Legs
        /\ \A d \in Confirms, l \in Legs :
             ended'[d][l] = IF d = c /\ l = Head(legs[c]) THEN how ELSE ended[d][l]
        /\ \A d \in Confirms : d # c => ctl'[d] = ctl[d]
        /\ \A r \in rows :
             /\ r.by \in Confirms /\ r.leg \in Legs
             /\ ~(r.by = c /\ r.leg = Head(legs[c]))
             /\ \/ ended'[r.by][r.leg] \in {"recorded", "failed"}
                \/ ended'[r.by][r.leg] = "open" /\ ctl'[r.by] = "crashed"
        /\ \A o \in orders :
             /\ o.by \in Confirms /\ o.leg \in Legs
             /\ o.by = c /\ o.leg = Head(legs[c]) => ctl[c] = "record"
             /\ ~(o.by = c /\ o.leg = Head(legs[c])) =>
                  \/ \E r \in rows : r.by = o.by /\ r.leg = o.leg
                  \/ ended'[o.by][o.leg] \in {"unrecorded", "failed"}
                  \/ ended'[o.by][o.leg] = "open" /\ ctl'[o.by] \in {"record", "crashed"}
<1>0. MirrorTypeOK /\ LegsLeft /\ OrdersLater /\ OutcomesLater /\ MirrorAccounted
  BY DEF MInv
<1>1. /\ ended' = [ended EXCEPT ![c] = ended'[c]] /\ ended'[c] = [ended[c] EXCEPT ![Head(legs[c])] = how]
      /\ ctl' = [ctl EXCEPT ![c] = ctl'[c]]
  BY <1>0, LegEndsTypes
<1>2. legs[c] \in Tails /\ legs[c] # <<>>
  BY <1>0 DEF LegsLeft
<1>3. Head(legs[c]) \in Legs /\ Head(legs[c]) \in LeftOf(legs[c])
  BY <1>2, TailFacts
<1>4. ended[c][Head(legs[c])] = "open"
  BY <1>0, <1>3 DEF OutcomesLater
<1>5. \A d \in Confirms, l \in Legs :
        ended'[d][l] = IF d = c /\ l = Head(legs[c]) THEN how ELSE ended[d][l]
  BY <1>0, <1>1 DEF MirrorTypeOK
<1>6. \A d \in Confirms : d # c => ctl'[d] = ctl[d]
  BY <1>0, <1>1 DEF MirrorTypeOK
<1>7. ASSUME NEW r \in rows
      PROVE /\ r.by \in Confirms /\ r.leg \in Legs
            /\ ~(r.by = c /\ r.leg = Head(legs[c]))
            /\ \/ ended'[r.by][r.leg] \in {"recorded", "failed"}
               \/ ended'[r.by][r.leg] = "open" /\ ctl'[r.by] = "crashed"
  <2>1. r.by \in Confirms /\ r.leg \in Legs
    BY <1>0, <1>7 DEF MirrorTypeOK, Row
  <2>2. \/ ended[r.by][r.leg] \in {"recorded", "failed"}
        \/ ended[r.by][r.leg] = "open" /\ ctl[r.by] = "crashed"
    BY <1>0, <1>7 DEF MirrorAccounted
  <2>3. ~(r.by = c /\ r.leg = Head(legs[c])) /\ (r.by = c => ctl[r.by] # "crashed")
    BY <1>4, <2>2
  <2> QED
    BY <1>5, <1>6, <2>1, <2>2, <2>3
<1>8. ASSUME NEW o \in orders
      PROVE /\ o.by \in Confirms /\ o.leg \in Legs
            /\ o.by = c /\ o.leg = Head(legs[c]) => ctl[c] = "record"
            /\ ~(o.by = c /\ o.leg = Head(legs[c])) =>
                 \/ \E r \in rows : r.by = o.by /\ r.leg = o.leg
                 \/ ended'[o.by][o.leg] \in {"unrecorded", "failed"}
                 \/ ended'[o.by][o.leg] = "open" /\ ctl'[o.by] \in {"record", "crashed"}
  <2>1. o.by \in Confirms /\ o.leg \in Legs
    BY <1>0, <1>8 DEF MirrorTypeOK, Order
  <2>2. o.by = c /\ o.leg = Head(legs[c]) => ctl[c] = "record"
    BY <1>0, <1>3 DEF OrdersLater
  <2>3. ASSUME ~(o.by = c /\ o.leg = Head(legs[c]))
        PROVE  \/ \E r \in rows : r.by = o.by /\ r.leg = o.leg
               \/ ended'[o.by][o.leg] \in {"unrecorded", "failed"}
               \/ ended'[o.by][o.leg] = "open" /\ ctl'[o.by] \in {"record", "crashed"}
    <3>1. ended'[o.by][o.leg] = ended[o.by][o.leg]
      BY <1>5, <2>1, <2>3
    <3>2. ended[o.by][o.leg] = "open" => o.by # c
      BY <1>0, <2>3 DEF OrdersLater
    <3>3. \/ \E r \in rows : r.by = o.by /\ r.leg = o.leg
          \/ ended[o.by][o.leg] \in {"unrecorded", "failed"}
          \/ ended[o.by][o.leg] = "open" /\ ctl[o.by] \in {"record", "crashed"}
      BY <1>0, <1>8 DEF MirrorAccounted
    <3> QED
      BY <1>6, <2>1, <3>1, <3>2, <3>3
  <2> QED
    BY <2>1, <2>2, <2>3
<1> QED
  BY <1>3, <1>5, <1>6, <1>7, <1>8

\* A leg ends without a row.
LEMMA EndsWithout ==
  ASSUME MInv, NEW c \in Confirms, NEW how \in Ends, LegEnds(c, how), how # "recorded",
         \/ ctl[c] = "place" /\ how = "skipped"
         \/ ctl[c] = "record" /\ how \in {"unrecorded", "failed"},
         orders' = orders, rows' = rows, MirrorTypeOK'
  PROVE MInv'
<1>0. MirrorAccounted /\ ctl[c] \in {"place", "record"}
  BY DEF MInv
<1>1. LegsLeft' /\ OutcomesLater' /\ OrdersLater' /\ ResultBacked'
  BY <1>0, LegEndsLater
<1>2. /\ Head(legs[c]) \in Legs
      /\ \A d \in Confirms, l \in Legs :
           ended'[d][l] = IF d = c /\ l = Head(legs[c]) THEN how ELSE ended[d][l]
  BY <1>0, EndsElsewhere
<1>3. \A r \in rows :
        \/ ended'[r.by][r.leg] \in {"recorded", "failed"}
        \/ ended'[r.by][r.leg] = "open" /\ ctl'[r.by] = "crashed"
  <2> SUFFICES ASSUME NEW r \in rows
               PROVE \/ ended'[r.by][r.leg] \in {"recorded", "failed"}
                     \/ ended'[r.by][r.leg] = "open" /\ ctl'[r.by] = "crashed"
    OBVIOUS
  <2> QED
    BY <1>0, EndsElsewhere
<1>4. ASSUME NEW o \in orders
      PROVE \/ \E r \in rows : r.by = o.by /\ r.leg = o.leg
            \/ ended'[o.by][o.leg] \in {"unrecorded", "failed"}
            \/ ended'[o.by][o.leg] = "open" /\ ctl'[o.by] \in {"record", "crashed"}
  <2>1. CASE o.by = c /\ o.leg = Head(legs[c])
    <3>1. ctl[c] = "record"
      BY <1>0, <1>4, <2>1, EndsElsewhere
    <3>2. how \in {"unrecorded", "failed"}
      BY <3>1
    <3> QED
      BY <1>2, <2>1, <3>2
  <2>2. CASE ~(o.by = c /\ o.leg = Head(legs[c]))
    BY <1>0, <1>4, <2>2, EndsElsewhere
  <2> QED
    BY <2>1, <2>2
<1>5. \A d \in Confirms, l \in Legs : ended'[d][l] = "recorded" => \E r \in rows : r.by = d /\ r.leg = l
  BY <1>0, <1>2 DEF MirrorAccounted
<1>6. MirrorAccounted'
  BY <1>0, <1>3, <1>4, <1>5 DEF MirrorAccounted
<1> QED
  BY <1>1, <1>6 DEF MInv

\* A leg ends with a row, whether the insertion was answered or not.
LEMMA EndsStored ==
  ASSUME MInv, NEW c \in Confirms, NEW how \in {"recorded", "failed"}, LegEnds(c, how), Stored(c),
         orders' = orders, MirrorTypeOK'
  PROVE MInv'
<1>0. MirrorAccounted /\ ResultBacked /\ ctl[c] = "record" /\ result[c].sized /\ how \in Ends
  BY DEF MInv, Stored, Insertable, Ends
<1> DEFINE new == RowOf(c)
<1>1. LegsLeft' /\ OutcomesLater' /\ OrdersLater' /\ ResultBacked'
  BY <1>0, LegEndsLater
<1>2. new.by = c /\ new.leg = Head(legs[c]) /\ new.status = result[c].status /\ rows' = rows \cup {new}
  BY DEF RowOf, Stored
<1> HIDE DEF new
<1>3. /\ Head(legs[c]) \in Legs
      /\ \A d \in Confirms, l \in Legs :
           ended'[d][l] = IF d = c /\ l = Head(legs[c]) THEN how ELSE ended[d][l]
      /\ \A r \in rows :
           /\ ~(r.by = c /\ r.leg = Head(legs[c]))
           /\ \/ ended'[r.by][r.leg] \in {"recorded", "failed"}
              \/ ended'[r.by][r.leg] = "open" /\ ctl'[r.by] = "crashed"
  BY <1>0, EndsElsewhere
<1>4. \E o \in orders : o.by = c /\ o.leg = Head(legs[c]) /\ ReadBack(o.state).status = result[c].status
  BY <1>0 DEF ResultBacked
<1>5. ASSUME NEW r \in rows'
      PROVE /\ \E o \in orders : o.by = r.by /\ o.leg = r.leg /\ ReadBack(o.state).status = r.status
            /\ \A t \in rows' : t.by = r.by /\ t.leg = r.leg => t = r
            /\ \/ ended'[r.by][r.leg] \in {"recorded", "failed"}
               \/ ended'[r.by][r.leg] = "open" /\ ctl'[r.by] = "crashed"
  <2>1. CASE r = new
    BY <1>2, <1>3, <1>4, <2>1
  <2>2. CASE r # new
    <3>1. r \in rows
      BY <1>2, <2>2
    <3>2. \A t \in rows' : t.by = r.by /\ t.leg = r.leg => t = r
      BY <1>0, <1>2, <1>3, <3>1 DEF MirrorAccounted
    <3> QED
      BY <1>0, <1>3, <3>1, <3>2 DEF MirrorAccounted
  <2> QED
    BY <2>1, <2>2
<1>6. ASSUME NEW o \in orders
      PROVE \/ \E r \in rows' : r.by = o.by /\ r.leg = o.leg
            \/ ended'[o.by][o.leg] \in {"unrecorded", "failed"}
            \/ ended'[o.by][o.leg] = "open" /\ ctl'[o.by] \in {"record", "crashed"}
  <2>1. CASE o.by = c /\ o.leg = Head(legs[c])
    BY <1>2, <2>1
  <2>2. CASE ~(o.by = c /\ o.leg = Head(legs[c]))
    BY <1>0, <1>2, <1>6, <2>2, EndsElsewhere
  <2> QED
    BY <2>1, <2>2
<1>7. \A d \in Confirms, l \in Legs : ended'[d][l] = "recorded" => \E r \in rows' : r.by = d /\ r.leg = l
  BY <1>0, <1>2, <1>3 DEF MirrorAccounted
<1>8. MirrorAccounted'
  BY <1>0, <1>5, <1>6, <1>7 DEF MirrorAccounted
<1> QED
  BY <1>1, <1>8 DEF MInv

\* The process ends: the rows it may still get are of the legs just placed, one of each.
LEMMA DiesInv ==
  ASSUME MInv, ServerDies, MirrorTypeOK'
  PROVE MInv'
<1>0. MirrorTypeOK /\ LegsLeft /\ OrdersLater /\ OutcomesLater /\ ResultBacked /\ MirrorAccounted
  BY DEF MInv
<1>1. PICK done \in SUBSET {c \in Confirms : Insertable(c)} : rows' = rows \cup {RowOf(c) : c \in done}
  BY DEF ServerDies
<1>2. orders' = orders /\ ended' = ended /\ \A c \in Confirms : legs'[c] = <<>>
  BY DEF ServerDies
<1>3. \A c \in Confirms :
        /\ ctl'[c] \notin {"place", "record"}
        /\ ctl'[c] \in Unbegun => ctl[c] \in Unbegun
        /\ ctl[c] \in {"record", "crashed"} => ctl'[c] = "crashed"
  BY DEF ServerDies, Under, Unbegun
<1>4. LegsLeft' /\ OutcomesLater' /\ ResultBacked'
  <2>1. LegsLeft'
    BY <1>2, <1>3 DEF LegsLeft, Tails
  <2>2. OutcomesLater'
    BY <1>0, <1>2, <1>3 DEF OutcomesLater, LeftOf
  <2>3. ResultBacked'
    BY <1>3 DEF ResultBacked
  <2> QED
    BY <2>1, <2>2, <2>3
<1>5. \A o \in orders : o.by \in Confirms
  BY <1>0 DEF MirrorTypeOK, Order
<1>6. OrdersLater'
  <2> SUFFICES ASSUME NEW o \in orders
               PROVE /\ ctl'[o.by] \notin Unbegun
                     /\ o.leg \in LeftOf(legs'[o.by]) => ctl'[o.by] = "record" /\ o.leg = Head(legs'[o.by])
                     /\ \/ ended[o.by][o.leg] # "open"
                        \/ ctl'[o.by] = "crashed"
                        \/ ctl'[o.by] = "record" /\ o.leg = Head(legs'[o.by])
    BY <1>2 DEF OrdersLater
  <2>1. o.by \in Confirms /\ LeftOf(legs'[o.by]) = {}
    BY <1>2, <1>5 DEF LeftOf
  <2> QED
    BY <1>0, <1>3, <2>1 DEF OrdersLater
<1>7. ASSUME NEW c \in done
      PROVE  /\ c \in Confirms /\ ctl[c] = "record" /\ ended[c][Head(legs[c])] = "open"
             /\ RowOf(c).by = c /\ RowOf(c).leg = Head(legs[c])
             /\ \E o \in orders : o.by = c /\ o.leg = Head(legs[c]) /\ ReadBack(o.state).status = RowOf(c).status
             /\ \A r \in rows : ~(r.by = c /\ r.leg = Head(legs[c]))
  <2>1. c \in Confirms /\ ctl[c] = "record" /\ result[c].sized
    BY <1>7 DEF Insertable
  <2>2. legs[c] \in Tails /\ legs[c] # <<>>
    BY <1>0, <2>1 DEF LegsLeft
  <2>3. ended[c][Head(legs[c])] = "open"
    BY <1>0, <2>1, <2>2, TailFacts DEF OutcomesLater
  <2>4. \A r \in rows : ~(r.by = c /\ r.leg = Head(legs[c]))
    BY <1>0, <2>1, <2>3 DEF MirrorAccounted
  <2> QED
    BY <1>0, <2>1, <2>3, <2>4 DEF RowOf, ResultBacked
<1>8. ASSUME NEW r \in rows'
      PROVE /\ \E o \in orders : o.by = r.by /\ o.leg = r.leg /\ ReadBack(o.state).status = r.status
            /\ \A t \in rows' : t.by = r.by /\ t.leg = r.leg => t = r
            /\ \/ ended[r.by][r.leg] \in {"recorded", "failed"}
               \/ ended[r.by][r.leg] = "open" /\ ctl'[r.by] = "crashed"
  <2>1. CASE r \in rows
    <3>1. r.by \in Confirms
      BY <1>0, <2>1 DEF MirrorTypeOK, Row
    <3>2. \A t \in rows' : t.by = r.by /\ t.leg = r.leg => t = r
      BY <1>0, <1>1, <1>7, <2>1 DEF MirrorAccounted
    <3>3. /\ \E o \in orders : o.by = r.by /\ o.leg = r.leg /\ ReadBack(o.state).status = r.status
          /\ \/ ended[r.by][r.leg] \in {"recorded", "failed"}
             \/ ended[r.by][r.leg] = "open" /\ ctl[r.by] = "crashed"
      BY <1>0, <2>1 DEF MirrorAccounted
    <3>4. ctl[r.by] = "crashed" => ctl'[r.by] = "crashed"
      BY <1>3, <3>1
    <3> QED
      BY <3>2, <3>3, <3>4
  <2>2. CASE r \notin rows
    <3>1. PICK c \in done : r = RowOf(c)
      BY <1>1, <2>2
    <3>2. \A t \in rows' : t.by = r.by /\ t.leg = r.leg => t = r
      BY <1>1, <1>7, <3>1
    <3>3. /\ c \in Confirms /\ ctl[c] = "record" /\ ended[c][r.leg] = "open" /\ r.by = c
          /\ \E o \in orders : o.by = r.by /\ o.leg = r.leg /\ ReadBack(o.state).status = r.status
      BY <1>7, <3>1
    <3>4. ctl'[c] = "crashed"
      BY <1>3, <3>3
    <3> QED
      BY <3>2, <3>3, <3>4
  <2> QED
    BY <2>1, <2>2
<1>9. \A o \in orders :
        \/ \E r \in rows' : r.by = o.by /\ r.leg = o.leg
        \/ ended[o.by][o.leg] \in {"unrecorded", "failed"}
        \/ ended[o.by][o.leg] = "open" /\ ctl'[o.by] \in {"record", "crashed"}
  <2> SUFFICES ASSUME NEW o \in orders
               PROVE \/ \E r \in rows' : r.by = o.by /\ r.leg = o.leg
                     \/ ended[o.by][o.leg] \in {"unrecorded", "failed"}
                     \/ ended[o.by][o.leg] = "open" /\ ctl'[o.by] \in {"record", "crashed"}
    OBVIOUS
  <2>1. o.by \in Confirms /\ (ctl[o.by] \in {"record", "crashed"} => ctl'[o.by] = "crashed")
    BY <1>3, <1>5
  <2>2. \/ \E r \in rows : r.by = o.by /\ r.leg = o.leg
        \/ ended[o.by][o.leg] \in {"unrecorded", "failed"}
        \/ ended[o.by][o.leg] = "open" /\ ctl[o.by] \in {"record", "crashed"}
    BY <1>0 DEF MirrorAccounted
  <2> QED
    BY <1>1, <2>1, <2>2
<1>10. MirrorAccounted'
  BY <1>0, <1>1, <1>2, <1>8, <1>9 DEF MirrorAccounted
<1> QED
  BY <1>4, <1>6, <1>10 DEF MInv

LEMMA MirrorStepInv == MInv /\ [MirrorNext]_rvars => MInv'
<1> SUFFICES ASSUME MInv, [MirrorNext]_rvars PROVE MInv'
  OBVIOUS
<1>0. MirrorTypeOK /\ LegsLeft /\ MirrorTypeOK'
  BY MirrorTypeStep DEF MInv
<1>1. CASE UNCHANGED rvars
  BY <1>1, Aside DEF rvars
<1>2. ASSUME NEW c \in Confirms, MirrorStep(c) PROVE MInv'
  <2>1. CASE \/ Read(c) \/ GateRefuses(c) \/ Accept(c) \/ AcceptCancelled(c)
             \/ ReadFails(c) \/ GateFails(c) \/ AcceptFails(c)
    <3>1. UNCHANGED <<legs, result, orders, rows, ended>>
      BY <2>1 DEF Read, GateRefuses, Accept, AcceptCancelled, ReadFails, GateFails, AcceptFails, NoMirror, Returns
    <3>2. /\ \A d \in Confirms \ {c} : ctl'[d] = ctl[d]
          /\ ctl[c] \in {"off", "gate", "accept"}
          /\ ctl'[c] \in {"gate", "accepted", "refused", "failed", "broken"}
          /\ ctl'[c] = "gate" => ctl[c] = "off"
      BY <1>0, <2>1 DEF Read, GateRefuses, Accept, AcceptCancelled, ReadFails, GateFails, AcceptFails, Moves,
                        MirrorTypeOK
    <3>3. \A d \in Confirms :
            /\ ctl'[d] = ctl[d] \/ ctl'[d] \notin {"place", "record"}
            /\ ctl'[d] \in Unbegun => ctl[d] \in Unbegun
            /\ ctl[d] \in {"record", "crashed"} => ctl'[d] = ctl[d]
      BY <3>2 DEF Unbegun
    <3> QED
      BY <3>1, <3>3, Aside
  <2>2. CASE ClientLeaves(c) \/ BudgetEnds(c)
    BY <2>2, Aside DEF ClientLeaves, BudgetEnds
  <2>3. CASE GatePasses(c)
    BY <1>0, <2>3, Begins
  <2>4. CASE SkipLeg(c)
    BY <1>0, <2>4, EndsWithout DEF SkipLeg, Ends
  <2>5. CASE PlaceAnswered(c)
    <3>1. PICK s \in Answers : Placed(c, ReadBack(s), {s})
      BY <2>5 DEF PlaceAnswered
    <3>2. ReadBack(s) \in ExecResult /\ {s} \in SUBSET Answers
      BY <3>1, ReadBackType
    <3> QED
      BY <1>0, <3>1, <3>2, Spots
  <2>6. CASE PlaceRefused(c) \/ PlaceUnanswered(c) \/ PlaceFails(c)
    <3>1. /\ [NoResult EXCEPT !.status = "rejected"] \in ExecResult
          /\ ~[NoResult EXCEPT !.status = "rejected"].sized
      BY NoResultType DEF ExecResult, ExecStatuses
    <3>2. CASE PlaceRefused(c)
      <4>1. PICK r \in ExecResult : Placed(c, r, {}) /\ ~r.sized
        BY <3>1, <3>2 DEF PlaceRefused
      <4> QED
        BY <1>0, <4>1, Spots
    <3>3. CASE PlaceUnanswered(c)
      BY <1>0, <3>3, NoResultType, Spots DEF PlaceUnanswered
    <3>4. CASE PlaceFails(c)
      BY <1>0, <3>4, NoResultType, Spots DEF PlaceFails
    <3> QED
      BY <2>6, <3>2, <3>3, <3>4
  <2>7. CASE Record(c)
    BY <1>0, <2>7, EndsStored DEF Record
  <2>8. CASE RecordUnanswered(c)
    BY <1>0, <2>8, EndsStored DEF RecordUnanswered
  <2>9. CASE RecordFails(c)
    BY <1>0, <2>9, EndsWithout DEF RecordFails, Ends
  <2>10. CASE RecordRefused(c)
    BY <1>0, <2>10, EndsWithout DEF RecordRefused, Ends
  <2> QED
    BY <1>2, <2>1, <2>2, <2>3, <2>4, <2>5, <2>6, <2>7, <2>8, <2>9, <2>10 DEF MirrorStep
<1>3. CASE ServerDies
  BY <1>0, <1>3, DiesInv
<1> QED
  BY <1>1, <1>2, <1>3 DEF MirrorNext

(* The types of the mirror. *)
THEOREM MirrorTypes == MirrorSpec => []MirrorTypeOK
<1>1. MInv => MirrorTypeOK
  BY DEF MInv
<1> QED
  BY MirrorInitInv, MirrorStepInv, <1>1, PTL DEF MirrorSpec

(* However many requests confirm one order, whatever the exchange answers,  *)
(* whatever is lost and wherever the process ends: every record is about an *)
(* order at the exchange in the state it was read back in, no leg is placed  *)
(* or recorded twice, and an order without a record was just placed, shows   *)
(* as failed or unrecorded, or its request went down with the process        *)
(* (mirrorToExec and InsertSimExecution).                                    *)
THEOREM MirrorsAccounted == MirrorSpec => []MirrorAccounted
<1>1. MInv => MirrorAccounted
  BY DEF MInv
<1> QED
  BY MirrorInitInv, MirrorStepInv, <1>1, PTL DEF MirrorSpec

-----------------------------------------------------------------------------
(* The settlement loop, for any groups, rates, prices and trades. *)

\* How far the cash that was read, with the legs as they are now, is from what the account was worth.
Gap == seen + Value(open) - was

(* The inductive invariant: as long as a snapshot is being taken, the cash it *)
(* has read is off by no more than the single legs traded since.              *)
LInv ==
  /\ LoopTypeOK
  /\ loop = "legs" => -trades <= Gap /\ Gap <= trades
  /\ loop # "legs" => trades = 0
  /\ SnapshotExplained

LEMMA GroupsFinite ==
  ASSUME NEW S \in SUBSET Groups
  PROVE IsFiniteSet(S) /\ Cardinality(S) \in Nat
<1>1. IsFiniteSet(Groups)
  BY FS_Interval, LoopAssumption DEF Groups
<1>2. IsFiniteSet(S)
  BY <1>1, FS_Subset
<1> QED
  BY <1>2, FS_CardinalityType

LEMMA ValueType ==
  ASSUME NEW S \in SUBSET Groups
  PROVE Value(S) \in Nat
<1>1. S \ Hedges \in SUBSET Groups
  OBVIOUS
<1> QED
  BY <1>1, GroupsFinite DEF Value

\* A leg has a ticker or it has none.
LEMMA Priced ==
  ASSUME NEW S \in SUBSET Groups
  PROVE Value(S \cap WithPrice) + Value(S \ WithPrice) = Value(S)
<1> DEFINE P == (S \cap WithPrice) \ Hedges
           Q == (S \ WithPrice) \ Hedges
<1>1. IsFiniteSet(P) /\ IsFiniteSet(Q) /\ Cardinality(P) \in Nat /\ Cardinality(Q) \in Nat
  BY GroupsFinite
<1>2. P \cup Q = S \ Hedges /\ P \cap Q = {}
  OBVIOUS
<1>3. Cardinality(P \cup Q) = Cardinality(P) + Cardinality(Q) - Cardinality(P \cap Q)
  BY <1>1, FS_Union
<1>4. Cardinality(P \cap Q) = 0
  BY <1>2, FS_EmptySet
<1>5. Cardinality(P \cup Q) = Cardinality(S \ Hedges)
  BY <1>2
<1> HIDE DEF P, Q
<1>6. Cardinality(S \ Hedges) = Cardinality(P) + Cardinality(Q)
  BY <1>1, <1>3, <1>4, <1>5
<1> QED
  BY <1>6 DEF Value, P, Q

\* A trade of a single leg moves the value of the legs by one, that of a hedge leaves it.
LEMMA OneTraded ==
  ASSUME NEW S \in SUBSET Groups, NEW g \in Groups
  PROVE /\ g \in Hedges => Value(S \cup {g}) = Value(S) /\ Value(S \ {g}) = Value(S)
        /\ g \notin Hedges /\ g \in S => Value(S \ {g}) = Value(S) - 1
        /\ g \notin Hedges /\ g \notin S => Value(S \cup {g}) = Value(S) + 1
<1>1. ASSUME g \in Hedges PROVE (S \cup {g}) \ Hedges = S \ Hedges /\ (S \ {g}) \ Hedges = S \ Hedges
  BY <1>1
<1>2. ASSUME g \notin Hedges PROVE /\ (S \cup {g}) \ Hedges = (S \ Hedges) \cup {g}
                                  /\ (S \ {g}) \ Hedges = (S \ Hedges) \ {g}
  BY <1>2
<1>3. IsFiniteSet(S \ Hedges)
  BY GroupsFinite
<1>4. ASSUME g \notin Hedges, g \in S PROVE Cardinality((S \ Hedges) \ {g}) = Cardinality(S \ Hedges) - 1
  BY <1>3, <1>4, FS_RemoveElement
<1>5. ASSUME g \notin Hedges, g \notin S PROVE Cardinality((S \ Hedges) \cup {g}) = Cardinality(S \ Hedges) + 1
  BY <1>3, <1>5, FS_AddElement
<1> QED
  BY <1>1, <1>2, <1>4, <1>5 DEF Value

LEMMA LoopInitInv == LoopInit => LInv
<1> SUFFICES ASSUME LoopInit PROVE LInv
  OBVIOUS
<1>1. 0 \in 0..(ReportEvery - 1) /\ 0 \in 0..MaxTrades /\ Capital \in Int
  BY LoopAssumption
<1>2. NoSnapshot \in [equity : Int, was : Int, unpriced : Nat, trades : Nat, written : BOOLEAN]
  BY <1>1 DEF NoSnapshot
<1>3. LoopTypeOK
  BY <1>1, <1>2 DEF LoopInit, LoopTypeOK
<1> QED
  BY <1>3, LoopAssumption DEF LoopInit, LInv, SnapshotExplained, NoSnapshot

LEMMA LoopTypeStep == LoopTypeOK /\ [LoopNext]_lvars => LoopTypeOK'
<1> SUFFICES ASSUME LoopTypeOK, [LoopNext]_lvars PROVE LoopTypeOK'
  OBVIOUS
<1>0. First \in rest => {First} \subseteq Groups
  BY DEF LoopTypeOK
<1>1. CASE StoreFlips
  BY <1>1 DEF LoopTypeOK, StoreFlips
<1>2. ASSUME NEW g \in Groups, Trade(g) PROVE LoopTypeOK'
  <2>1. trades' \in 0..MaxTrades
    BY <1>2, LoopAssumption DEF LoopTypeOK, Trade
  <2>2. open' \subseteq Groups
    BY <1>2 DEF LoopTypeOK, Trade
  <2>3. cash' \in Int
    BY <1>2 DEF LoopTypeOK, Trade, OpenCash, CloseCash
  <2> QED
    BY <1>2, <2>1, <2>2, <2>3 DEF LoopTypeOK, Trade
<1>3. CASE StartLoop
  BY <1>3, LoopAssumption DEF LoopTypeOK, StartLoop, Step, Calm
<1>4. CASE StopLoop
  <2>1. trades' \in 0..MaxTrades
    BY <1>4, LoopAssumption DEF StopLoop
  <2> QED
    BY <1>4, <2>1 DEF LoopTypeOK, StopLoop
<1>5. CASE Tick
  <2>1. snapshot' \in [equity : Int, was : Int, unpriced : Nat, trades : Nat, written : BOOLEAN]
    BY <1>5, LoopAssumption DEF Tick, NoSnapshot
  <2>2. loop' \in {"settle", "count"} /\ rest' \subseteq Groups /\ paid' \subseteq Groups /\ saved' \subseteq Exchanges
    BY <1>5 DEF LoopTypeOK, Tick, Step
  <2> QED
    BY <1>5, <2>1, <2>2 DEF LoopTypeOK, Tick, Calm
<1>6. CASE NoFact
  BY <1>6 DEF LoopTypeOK, NoFact, Calm
<1>7. CASE Settle
  BY <1>7 DEF LoopTypeOK, Settle, Calm
<1>8. CASE SettleEnds
  BY <1>8 DEF LoopTypeOK, SettleEnds, Step, Calm
<1>9. CASE Count
  <2>1. (tick + 1) % ReportEvery \in 0..(ReportEvery - 1)
    BY LoopAssumption DEF LoopTypeOK
  <2>2. tick' \in 0..(ReportEvery - 1) /\ loop' \in {"report", "probe"}
    BY <1>9, <2>1 DEF Count, Step
  <2> QED
    BY <1>9, <2>2 DEF LoopTypeOK, Count, Calm
<1>10. CASE RenderReport
  BY <1>10 DEF LoopTypeOK, RenderReport, Step, Calm
<1>11. CASE ProbeTick
  BY <1>11, LoopAssumption DEF LoopTypeOK, ProbeTick, Accounts, Step, Calm
<1>12. CASE ProbeEarly
  BY <1>12, LoopAssumption DEF LoopTypeOK, ProbeEarly, Accounts, Calm
<1>13. CASE ReadCash
  <2>1. Value(open) \in Nat
    BY ValueType DEF LoopTypeOK
  <2>2. seen' \in Int /\ was' \in Int /\ loop' \in {"legs", "wait"}
    BY <1>13, <2>1 DEF LoopTypeOK, ReadCash, Step
  <2> QED
    BY <1>13, <2>2 DEF LoopTypeOK, ReadCash, Calm
<1>14. CASE ReadLegs
  <2>1. Value(open \cap WithPrice) \in Nat /\ Value(open \ WithPrice) \in Nat
    BY ValueType DEF LoopTypeOK
  <2>2. trades \in Nat /\ seen + Value(open \cap WithPrice) \in Int
    BY <2>1, LoopAssumption DEF LoopTypeOK
  <2>3. snapshot' \in [equity : Int, was : Int, unpriced : Nat, trades : Nat, written : BOOLEAN]
    BY <1>14, <2>1, <2>2 DEF LoopTypeOK, ReadLegs
  <2>4. trades' \in 0..MaxTrades /\ loop' = "wait"
    BY <1>14, LoopAssumption DEF ReadLegs, Step
  <2> QED
    BY <1>14, <2>3, <2>4 DEF LoopTypeOK, ReadLegs
<1>15. CASE UNCHANGED lvars
  BY <1>15 DEF LoopTypeOK, lvars
<1> QED
  BY <1>1, <1>2, <1>3, <1>4, <1>5, <1>6, <1>7, <1>8, <1>9, <1>10, <1>11, <1>12, <1>13, <1>14, <1>15 DEF LoopNext, LoopProceeds

LEMMA LoopStepInv == LInv /\ [LoopNext]_lvars => LInv'
<1> SUFFICES ASSUME LInv, [LoopNext]_lvars PROVE LInv'
  OBVIOUS
<1>0. LoopTypeOK /\ LoopTypeOK'
  BY LoopTypeStep DEF LInv
<1>t. /\ open \subseteq Groups /\ seen \in Int /\ was \in Int /\ trades \in Nat /\ Capital \in Int
      /\ Value(open) \in Nat
      /\ snapshot.equity \in Int /\ snapshot.was \in Int /\ snapshot.unpriced \in Nat /\ snapshot.trades \in Nat
  BY <1>0, ValueType, LoopAssumption DEF LoopTypeOK
<1>1. ASSUME NEW g \in Groups, Trade(g) PROVE LInv'
  <2>1. \/ g \in Hedges /\ Value(open') = Value(open)
        \/ g \notin Hedges /\ Value(open') = Value(open) + 1
        \/ g \notin Hedges /\ Value(open') = Value(open) - 1
    BY <1>1, <1>t, OneTraded DEF Trade
  <2>2. SnapshotExplained'
    BY <1>1 DEF Trade, LInv, SnapshotExplained
  <2>3. CASE loop = "legs"
    <3>1. /\ trades' = IF g \in Hedges THEN trades ELSE trades + 1
          /\ seen' = seen /\ was' = was /\ loop' = loop
      BY <1>1, <2>3 DEF Trade
    <3>2. -trades <= Gap /\ Gap <= trades
      BY <2>3 DEF LInv
    <3>3. (-trades <= Gap /\ Gap <= trades)'
      BY <1>t, <2>1, <3>1, <3>2 DEF Gap
    <3> QED
      BY <1>0, <2>2, <2>3, <3>1, <3>3 DEF LInv
  <2>4. CASE loop # "legs"
    BY <1>0, <1>1, <2>2, <2>4 DEF Trade, LInv
  <2> QED
    BY <2>3, <2>4
<1>2. CASE ReadCash
  <2>1. SnapshotExplained'
    BY <1>2 DEF ReadCash, LInv, SnapshotExplained
  <2>2. trades = 0 /\ trades' = 0 /\ open' = open /\ seen' = cash /\ was' = cash + Value(open)
    BY <1>2 DEF ReadCash, LInv, Step, Calm
  <2>3. (-trades <= Gap /\ Gap <= trades)'
    <3>1. cash \in Int
      BY <1>0 DEF LoopTypeOK
    <3> QED
      BY <1>t, <2>2, <3>1 DEF Gap
  <2> QED
    BY <1>0, <2>1, <2>2, <2>3 DEF LInv
<1>3. CASE ReadLegs
  <2>1. trades' = 0 /\ loop' = "wait" /\ loop = "legs"
    BY <1>3 DEF ReadLegs, Step
  <2>2. -trades <= Gap /\ Gap <= trades
    BY <2>1 DEF LInv
  <2>3. CASE db
    <3>1. /\ snapshot'.equity = seen + Value(open \cap WithPrice) /\ snapshot'.was = was
          /\ snapshot'.unpriced = Value(open \ WithPrice) /\ snapshot'.trades = trades
      BY <1>3, <2>3 DEF ReadLegs
    <3>2. Value(open \cap WithPrice) \in Nat /\ Value(open \ WithPrice) \in Nat
      BY <1>t, ValueType
    <3>3. Value(open \cap WithPrice) + Value(open \ WithPrice) = Value(open)
      BY <1>t, Priced
    <3>4. snapshot'.equity + snapshot'.unpriced - snapshot'.was = seen + Value(open) - was
      BY <1>t, <3>1, <3>2, <3>3
    <3>5. SnapshotExplained'
      BY <2>2, <3>1, <3>4 DEF SnapshotExplained, Gap
    <3> QED
      BY <1>0, <2>1, <3>5 DEF LInv
  <2>4. CASE ~db
    BY <1>0, <1>3, <2>1, <2>4 DEF ReadLegs, LInv, SnapshotExplained
  <2> QED
    BY <2>3, <2>4
<1>4. CASE Tick
  <2>1. SnapshotExplained'
    BY <1>4, LoopAssumption DEF Tick, NoSnapshot, SnapshotExplained
  <2>2. trades' = 0 /\ loop' # "legs"
    BY <1>4 DEF Tick, Step, Calm, LInv
  <2> QED
    BY <1>0, <2>1, <2>2 DEF LInv
<1>5. CASE StopLoop
  BY <1>0, <1>5 DEF StopLoop, LInv, SnapshotExplained
<1>6. CASE StoreFlips \/ ProbeEarly \/ NoFact \/ Settle
  BY <1>0, <1>6 DEF StoreFlips, ProbeEarly, NoFact, Settle, Calm, LInv, Gap, SnapshotExplained
<1>7. CASE StartLoop \/ SettleEnds \/ Count \/ RenderReport \/ ProbeTick
  <2>1. loop # "legs" /\ loop' # "legs" /\ trades' = trades /\ snapshot' = snapshot
    BY <1>7 DEF StartLoop, SettleEnds, Count, RenderReport, ProbeTick, Step, Calm
  <2> QED
    BY <1>0, <2>1 DEF LInv, SnapshotExplained
<1>8. CASE UNCHANGED lvars
  BY <1>0, <1>8 DEF lvars, LInv, Gap, SnapshotExplained
<1> QED
  BY <1>1, <1>2, <1>3, <1>4, <1>5, <1>6, <1>7, <1>8 DEF LoopNext, LoopProceeds

(* The types of the settlement loop. *)
THEOREM LoopTypes == LoopSpec => []LoopTypeOK
<1>1. LInv => LoopTypeOK
  BY DEF LInv
<1> QED
  BY LoopInitInv, LoopStepInv, <1>1, PTL DEF LoopSpec

(* For any groups, hedged or single, any prices and any trades: the equity   *)
(* of a snapshot is what the account was worth when its cash was read, with  *)
(* the signs of the ledger, but for the single legs without a ticker and one *)
(* for each single leg traded between its two statements.                    *)
THEOREM SnapshotsExplained == LoopSpec => []SnapshotExplained
<1>1. LInv => SnapshotExplained
  BY DEF LInv
<1> QED
  BY LoopInitInv, LoopStepInv, <1>1, PTL DEF LoopSpec

-----------------------------------------------------------------------------
(* The evidence on the facts: what the dashboard tells agrees. *)

\* A fact of a venue with no later one in the 30 days is the newest that there is.
NewestTold ==
  \A i \in DOMAIN told :
    (\A j \in DOMAIN told : i < j => told[j].of # told[i].of) => newest[told[i].of] = <<told[i].rate>>

\* What the row of the entry and its reviews have in common.
ReviewsKept ==
  /\ reviewed.any => entry.present /\ entry.validated /\ entry.status = reviewed.status
  /\ ~reviewed.any => ~entry.validated /\ reviewed.direction = ""
  /\ entry.direction = reviewed.direction

ToldInv ==
  /\ told \in Seq([of : AllVenues, rate : AllRates]) /\ fresh \in 0..Len(told)
  /\ newest \in [AllVenues -> {NoRate} \cup {<<r>> : r \in AllRates}]
  /\ \A i \in DOMAIN told : told[i].of \in VenuesOf
  /\ NewestTold

EntryInv ==
  /\ entry \in [present : BOOLEAN, status : {"active"} \cup ReviewStatuses, validated : BOOLEAN,
                direction : {"", "hit", "miss"}]
  /\ reviewed \in [status : {"active"} \cup ReviewStatuses, direction : {"", "hit", "miss"}, any : BOOLEAN]
  /\ ReviewsKept

(* The inductive invariant, of the facts and of the entry. *)
EInv == ToldInv /\ EntryInv /\ sig \in Signatures /\ recent \in BOOLEAN

LEMMA EInvTypes == EInv => EvidenceTypeOK
BY Zenon DEF EInv, ToldInv, EntryInv, EvidenceTypeOK

\* The rows of a venue: they are finitely many, and the greatest of them is the last.
LEMMA RowsFinite ==
  ASSUME NEW S, NEW rs \in Seq(S), NEW v
  PROVE  IsFiniteSet(RowsOf(rs, v)) /\ CountOf(rs, v) \in Nat
<1>1. RowsOf(rs, v) \subseteq 1..Len(rs) /\ Len(rs) \in Nat
  BY DEF RowsOf
<1>2. IsFiniteSet(1..Len(rs))
  BY <1>1, FS_Interval
<1>3. IsFiniteSet(RowsOf(rs, v))
  BY <1>1, <1>2, FS_Subset
<1> QED
  BY <1>3, FS_CardinalityType DEF CountOf

LEMMA CountPositive ==
  ASSUME NEW S, NEW rs \in Seq(S), NEW v, RowsOf(rs, v) # {}
  PROVE  CountOf(rs, v) > 0
<1>1. IsFiniteSet(RowsOf(rs, v)) /\ CountOf(rs, v) \in Nat
  BY RowsFinite
<1>2. CountOf(rs, v) # 0
  BY <1>1, FS_EmptySet DEF CountOf
<1> QED
  BY <1>1, <1>2

LEMMA LastRow ==
  ASSUME NEW S, NEW rs \in Seq(S), NEW v, RowsOf(rs, v) # {}
  PROVE  \E i \in DOMAIN rs :
           /\ rs[i].of = v /\ LastOf(rs, v) = rs[i].rate
           /\ \A j \in DOMAIN rs : i < j => rs[j].of # v
<1> DEFINE P == RowsOf(rs, v)
<1>1. P \in SUBSET (1..Len(rs)) /\ Len(rs) \in Nat
  BY DEF RowsOf
<1>2. Max(P) \in P /\ \A i \in P : i <= Max(P)
  BY <1>1, GreatestPosition
<1>3. /\ Max(P) \in DOMAIN rs /\ rs[Max(P)].of = v
      /\ \A j \in DOMAIN rs : rs[j].of = v => j <= Max(P)
  BY <1>2 DEF RowsOf
<1>4. \A j \in DOMAIN rs : Max(P) < j => rs[j].of # v
  BY <1>1, <1>2, <1>3
<1> QED
  BY <1>3, <1>4 DEF LastOf


LEMMA EvidenceInitInv == EvidenceInit => EInv
<1> SUFFICES ASSUME EvidenceInit PROVE EInv
  OBVIOUS
<1>1. told = <<>> /\ Len(told) = 0 /\ DOMAIN told = {} /\ fresh = 0
  BY DEF EvidenceInit
<1>2. told \in Seq([of : AllVenues, rate : AllRates]) /\ fresh \in 0..Len(told)
  BY <1>1
<1>3. newest \in [AllVenues -> {NoRate} \cup {<<r>> : r \in AllRates}]
  BY DEF EvidenceInit
<1>4. NewestTold /\ \A i \in DOMAIN told : told[i].of \in VenuesOf
  BY <1>1 DEF NewestTold
<1>5. EntryInv
  BY DEF EvidenceInit, EntryInv, ReviewsKept, NoEntry, Nothing
<1>6. sig \in Signatures /\ recent \in BOOLEAN
  BY DEF EvidenceInit
<1> QED
  BY <1>2, <1>3, <1>4, <1>5, <1>6 DEF EInv, ToldInv

LEMMA VenueTypes == VenuesOf \subseteq AllVenues /\ RatesOf \subseteq AllRates
BY DEF VenuesOf, RatesOf, AllVenues, AllRates, Kind

LEMMA RecordStep ==
  ASSUME ToldInv, NEW v \in VenuesOf, NEW r \in RatesOf, RecordFact(v, r)
  PROVE  ToldInv'
<1> DEFINE n == Len(told)
           row == [of |-> v, rate |-> r]
<1>1. /\ told' = Append(told, row) /\ fresh' = fresh + 1 /\ sig' = sig
      /\ newest' = [newest EXCEPT ![v] = <<r>>]
  BY DEF RecordFact
<1>2. v \in AllVenues /\ r \in AllRates /\ row \in [of : AllVenues, rate : AllRates]
  BY VenueTypes
<1>3. /\ told \in Seq([of : AllVenues, rate : AllRates]) /\ n \in Nat /\ DOMAIN told = 1..n
      /\ fresh \in 0..n /\ newest \in [AllVenues -> {NoRate} \cup {<<s>> : s \in AllRates}]
  BY DEF ToldInv
<1>4. /\ told' \in Seq([of : AllVenues, rate : AllRates]) /\ Len(told') = n + 1
      /\ DOMAIN told' = 1..(n + 1) /\ told'[n + 1] = row
      /\ \A i \in 1..n : told'[i] = told[i]
  BY <1>1, <1>2, <1>3
<1>5. fresh' \in 0..Len(told')
  BY <1>1, <1>3, <1>4
<1>6. newest' \in [AllVenues -> {NoRate} \cup {<<s>> : s \in AllRates}]
  BY <1>1, <1>2, <1>3
<1>7. VenuesOf' = VenuesOf
  BY <1>1 DEF VenuesOf, Kind
<1>8. \A i \in DOMAIN told' : told'[i].of \in VenuesOf'
  BY <1>3, <1>4, <1>7 DEF ToldInv
<1>9. ASSUME NEW i \in DOMAIN told', \A j \in DOMAIN told' : i < j => told'[j].of # told'[i].of
      PROVE  newest'[told'[i].of] = <<told'[i].rate>>
  <2>1. CASE i = n + 1
    BY <1>1, <1>2, <1>3, <1>4, <2>1
  <2>2. CASE i # n + 1
    <3>1. i \in 1..n /\ told'[i] = told[i] /\ i < n + 1
      BY <1>3, <1>4, <2>2
    <3>2. told[i].of # v
      BY <1>3, <1>4, <1>9, <3>1
    <3>3. \A j \in DOMAIN told : i < j => told[j].of # told[i].of
      BY <1>3, <1>4, <1>9, <3>1
    <3>4. newest[told[i].of] = <<told[i].rate>>
      BY <1>3, <3>1, <3>3 DEF ToldInv, NewestTold
    <3>5. told[i].of \in AllVenues
      BY <1>3, <3>1, VenueTypes DEF ToldInv
    <3> QED
      BY <1>1, <1>3, <3>1, <3>2, <3>4, <3>5
  <2> QED
    BY <2>1, <2>2
<1>10. NewestTold'
  BY <1>9 DEF NewestTold
<1> QED
  BY <1>4, <1>5, <1>6, <1>8, <1>10 DEF ToldInv

LEMMA AgeStep ==
  ASSUME ToldInv, AgeMonth
  PROVE  ToldInv'
<1> DEFINE n == Len(told)
<1>1. told' = Tail(told) /\ n > fresh /\ fresh' = fresh /\ sig' = sig /\ newest' = newest
  BY DEF AgeMonth
<1>2. /\ told \in Seq([of : AllVenues, rate : AllRates]) /\ n \in Nat /\ DOMAIN told = 1..n
      /\ fresh \in 0..n /\ newest \in [AllVenues -> {NoRate} \cup {<<s>> : s \in AllRates}]
  BY DEF ToldInv
<1>3. n # 0 /\ n - 1 \in Nat /\ fresh \in 0..(n - 1)
  BY <1>1, <1>2
<1>4. /\ told' \in Seq([of : AllVenues, rate : AllRates]) /\ Len(told') = n - 1
      /\ DOMAIN told' = 1..(n - 1) /\ \A i \in 1..(n - 1) : told'[i] = told[i + 1]
  BY <1>1, <1>2, <1>3
<1>5. \A i \in 1..(n - 1) : i + 1 \in 1..n
  BY <1>2
<1>6. VenuesOf' = VenuesOf
  BY <1>1 DEF VenuesOf, Kind
<1>7. \A i \in DOMAIN told' : told'[i].of \in VenuesOf'
  BY <1>2, <1>4, <1>5, <1>6 DEF ToldInv
<1>8. ASSUME NEW i \in DOMAIN told', \A j \in DOMAIN told' : i < j => told'[j].of # told'[i].of
      PROVE  newest'[told'[i].of] = <<told'[i].rate>>
  <2>1. i + 1 \in DOMAIN told /\ told'[i] = told[i + 1] /\ i \in Nat
    BY <1>2, <1>4, <1>5
  <2>2. ASSUME NEW k \in DOMAIN told, i + 1 < k PROVE told[k].of # told[i + 1].of
    <3>1. k - 1 \in 1..(n - 1) /\ i < k - 1 /\ told'[k - 1] = told[k]
      BY <1>2, <1>4, <2>1, <2>2
    <3> QED
      BY <1>4, <1>8, <2>1, <3>1
  <2>3. newest[told[i + 1].of] = <<told[i + 1].rate>>
    BY <2>1, <2>2 DEF ToldInv, NewestTold
  <2> QED
    BY <1>1, <2>1, <2>3
<1>9. NewestTold'
  BY <1>8 DEF NewestTold
<1> QED
  BY <1>1, <1>2, <1>3, <1>4, <1>7, <1>9 DEF ToldInv

LEMMA SeedStep == ASSUME EntryInv, SeedEntry PROVE EntryInv'
<1>1. reviewed' = reviewed
  BY DEF SeedEntry
<1>2. CASE entry.present
  BY <1>1, <1>2 DEF SeedEntry, EntryInv, ReviewsKept
<1>3. CASE ~entry.present
  <2>1. entry' = [present |-> TRUE, status |-> "active", validated |-> FALSE, direction |-> ""]
    BY <1>3 DEF SeedEntry, NoEntry
  <2> QED
    BY <1>1, <1>3, <2>1 DEF EntryInv, ReviewsKept
<1> QED
  BY <1>2, <1>3

LEMMA ReviewStep == ASSUME EntryInv, NEW st \in ReviewStatuses, Review(st) PROVE EntryInv'
<1>1. PICK says \in {"", "hit", "miss"} :
        /\ entry.present
        /\ entry' = [entry EXCEPT !.status = st, !.validated = TRUE,
                                  !.direction = IF says = "" THEN entry.direction ELSE says]
        /\ reviewed' = [status |-> st, direction |-> IF says = "" THEN reviewed.direction ELSE says, any |-> TRUE]
  BY Zenon DEF Review
<1>2. /\ entry'.present = entry.present /\ entry'.status = st /\ entry'.validated = TRUE
      /\ entry'.direction = IF says = "" THEN entry.direction ELSE says
  BY <1>1 DEF EntryInv
<1>3. /\ reviewed'.status = st /\ reviewed'.any = TRUE
      /\ reviewed'.direction = IF says = "" THEN reviewed.direction ELSE says
  BY <1>1
<1>4. ReviewsKept'
  BY <1>1, <1>2, <1>3 DEF EntryInv, ReviewsKept
<1>5. /\ entry' \in [present : BOOLEAN, status : {"active"} \cup ReviewStatuses, validated : BOOLEAN,
                     direction : {"", "hit", "miss"}]
      /\ reviewed' \in [status : {"active"} \cup ReviewStatuses, direction : {"", "hit", "miss"}, any : BOOLEAN]
  BY <1>1 DEF EntryInv
<1> QED
  BY <1>4, <1>5 DEF EntryInv

LEMMA EvidenceStepInv == EInv /\ [EvidenceNext]_evidencevars => EInv'
<1> SUFFICES ASSUME EInv, [EvidenceNext]_evidencevars PROVE EInv'
  OBVIOUS
<1>0. ToldInv /\ EntryInv /\ sig \in Signatures /\ recent \in BOOLEAN
  BY DEF EInv
<1>1. ASSUME entry' = entry, reviewed' = reviewed PROVE EntryInv'
  BY <1>0, <1>1 DEF EntryInv, ReviewsKept
<1>2. ASSUME sig' = sig, told' = told, fresh' = fresh, newest' = newest PROVE ToldInv'
  BY <1>0, <1>2 DEF ToldInv, NewestTold, VenuesOf, Kind
<1>3. sig' = sig
  BY DEF EvidenceNext, RecordFact, AgeDay, AgeMonth, OrderComesOrAges, SeedEntry, Review, evidencevars
<1>4. recent' \in BOOLEAN
  BY <1>0, Zenon DEF EvidenceNext, RecordFact, AgeDay, AgeMonth, OrderComesOrAges, SeedEntry, Review, evidencevars
<1>5. ASSUME NEW v \in VenuesOf, NEW r \in RatesOf, RecordFact(v, r) PROVE ToldInv' /\ EntryInv'
  BY <1>0, <1>1, <1>5, RecordStep DEF RecordFact
<1>6. ASSUME AgeDay PROVE ToldInv' /\ EntryInv'
  <2>1. fresh' = fresh - 1 /\ fresh > 0 /\ told' = told /\ newest' = newest /\ entry' = entry /\ reviewed' = reviewed
    BY <1>6 DEF AgeDay
  <2>2. VenuesOf' = VenuesOf
    BY <1>3 DEF VenuesOf, Kind
  <2>3. fresh \in 0..Len(told) /\ Len(told) \in Nat
    BY <1>0 DEF ToldInv
  <2>4. fresh' \in 0..Len(told')
    BY <2>1, <2>3
  <2>5. NewestTold'
    BY <1>0, <2>1 DEF ToldInv, NewestTold
  <2>6. ToldInv'
    BY <1>0, <2>1, <2>2, <2>4, <2>5 DEF ToldInv
  <2> QED
    BY <1>1, <2>1, <2>6
<1>7. ASSUME AgeMonth PROVE ToldInv' /\ EntryInv'
  BY <1>0, <1>1, <1>7, AgeStep DEF AgeMonth
<1>8. ASSUME OrderComesOrAges PROVE ToldInv' /\ EntryInv'
  BY <1>1, <1>2, <1>8 DEF OrderComesOrAges
<1>9. ASSUME SeedEntry PROVE ToldInv' /\ EntryInv'
  BY <1>0, <1>2, <1>9, SeedStep DEF SeedEntry
<1>10. ASSUME NEW st \in ReviewStatuses, Review(st) PROVE ToldInv' /\ EntryInv'
  BY <1>0, <1>2, <1>10, ReviewStep DEF Review
<1>11. ASSUME UNCHANGED evidencevars PROVE ToldInv' /\ EntryInv'
  BY <1>1, <1>2, <1>11 DEF evidencevars
<1> QED
  BY <1>0, <1>3, <1>4, <1>5, <1>6, <1>7, <1>8, <1>9, <1>10, <1>11 DEF EvidenceNext, EInv

-----------------------------------------------------------------------------
(* What follows from the invariant. *)

\* The last row of a venue tells its newest fact, unless a limit cut it off.
LEMMA LastIsNewest ==
  ASSUME EInv, NEW v, RowsOf(told, v) # {}
  PROVE  v \in VenuesOf /\ newest[v] = <<LastOf(told, v)>>
<1>1. told \in Seq([of : AllVenues, rate : AllRates])
  BY DEF EInv, ToldInv
<1>2. PICK i \in DOMAIN told :
        /\ told[i].of = v /\ LastOf(told, v) = told[i].rate
        /\ \A j \in DOMAIN told : i < j => told[j].of # v
  BY <1>1, LastRow
<1> QED
  BY <1>2 DEF EInv, ToldInv, NewestTold

LEMMA AskedAll ==
  ASSUME NEW S, NEW rs \in Seq(S), Len(rs) <= DefaultLimit
  PROVE  Asked(rs) = rs
BY EvidenceAssumption DEF Asked

\* A card worth taking is of no spike.
LEMMA GrabIsNoSpike ==
  ASSUME EInv, NEW v \in Having(Month), Kind = "funding", Len(told) <= DefaultLimit, <<v, "grab">> \in OppCards
  PROVE  ~FundingSpikeTrap(told, v)
<1>1. told \in Seq([of : AllVenues, rate : AllRates]) /\ Month = told
  BY AskedAll DEF EInv, ToldInv, Month
<1>2. RowsOf(told, v) # {}
  BY <1>1 DEF Having
<1>3. newest[v] = <<LastOf(told, v)>> /\ CountOf(told, v) > 0
  BY <1>1, <1>2, LastIsNewest, CountPositive
<1>4. Card(v) = "grab"
  BY DEF OppCards
<1>5. newest[v] # NoRate /\ Head(newest[v]) = LastOf(told, v)
  BY <1>3 DEF NoRate
<1>6. RatingFor(LastOf(told, v), SumOf(told, v), CountOf(told, v), SumOf(told, v) - HedgeCost * CountOf(told, v)) = "grab"
  BY <1>1, <1>4, <1>5, Zenon DEF Card
<1>7. ~(CountOf(told, v) > 0 /\ SumOf(told, v) > 0 /\ LastOf(told, v) * CountOf(told, v) > 2 * SumOf(told, v))
  BY <1>6, Zenon DEF RatingFor
<1> QED
  BY <1>3, <1>7 DEF FundingSpikeTrap

\* A hint that nothing is near entry is not given while a rate of the day is.
LEMMA HintIsTrue ==
  ASSUME EInv, Len(told) <= DefaultLimit, NoOrderHint, NEW i \in (Len(told) - fresh + 1)..Len(told)
  PROVE  Head(newest[told[i].of]) < EntryRate
<1> DEFINE n == Len(told)
           rs == SubSeq(told, n - fresh + 1, n)
           v == told[i].of
<1>1. /\ told \in Seq([of : AllVenues, rate : AllRates]) /\ n \in Nat /\ DOMAIN told = 1..n
      /\ fresh \in 0..n
  BY DEF EInv, ToldInv
<1>2. /\ rs \in Seq([of : AllVenues, rate : AllRates]) /\ Len(rs) = fresh /\ DOMAIN rs = 1..fresh
      /\ \A j \in 1..fresh : rs[j] = told[n - fresh + j]
  <2>1. \A j \in (n - fresh + 1)..n : told[j] \in [of : AllVenues, rate : AllRates]
    <3> DEFINE row == [of : AllVenues, rate : AllRates]
    <3>0. told \in Seq(row) /\ DOMAIN told = 1..n
      BY <1>1
    <3> HIDE DEF n, v, row
    <3>1. \A j \in 1..n : told[j] \in row
      BY <3>0, ElementsOf
    <3>2. \A j \in (n - fresh + 1)..n : j \in 1..n
      BY <1>1
    <3> QED
      BY <3>1, <3>2 DEF row
  <2>2. n - fresh + 1 \in 1..(n + 1) /\ n - (n - fresh + 1) + 1 = fresh /\ fresh \in Nat
    BY <1>1
  <2>3. rs = [j \in 1..fresh |-> told[n - fresh + j]]
    <3>1. rs = [j \in 1..(n - (n - fresh + 1) + 1) |-> told[(n - fresh + 1) + j - 1]]
      BY <1>1, <2>2, SubSequenceIs DEF rs
    <3>2. \A j \in 1..fresh : (n - fresh + 1) + j - 1 = n - fresh + j
      BY <1>1
    <3> QED
      BY <2>2, <3>1, <3>2
  <2>4. \A j \in 1..fresh : n - fresh + j \in (n - fresh + 1)..n
    BY <1>1
  <2> HIDE DEF rs
  <2>5. \A j \in 1..fresh : rs[j] \in [of : AllVenues, rate : AllRates]
    BY <2>1, <2>3, <2>4
  <2>6. rs \in [1..fresh -> [of : AllVenues, rate : AllRates]]
    BY <2>3, <2>5
  <2>7. rs \in Seq([of : AllVenues, rate : AllRates]) /\ Len(rs) = fresh
    BY <2>2, <2>6, SequenceIs
  <2> QED
    BY <2>3, <2>7
<1> HIDE DEF rs
<1>3. LastDay = rs
  <2>1. LastDay = Asked(rs)
    BY DEF LastDay, rs
  <2>2. Len(rs) <= DefaultLimit
    BY <1>1, <1>2, EvidenceAssumption
  <2> QED
    BY <1>2, <2>1, <2>2, AskedAll
<1>4. i \in 1..n /\ i - (n - fresh) \in 1..fresh /\ rs[i - (n - fresh)] = told[i]
  BY <1>1, <1>2
<1>5. RowsOf(rs, v) # {}
  BY <1>2, <1>4 DEF RowsOf
<1>6. v \in VenuesOf
  BY <1>1, <1>4 DEF EInv, ToldInv
<1>7. v \in Having(LastDay)
  BY <1>3, <1>5, <1>6 DEF Having
<1>8. LastOf(rs, v) < EntryRate
  BY <1>3, <1>7 DEF NoOrderHint
<1>9. PICK k \in DOMAIN rs :
        /\ rs[k].of = v /\ LastOf(rs, v) = rs[k].rate
        /\ \A j \in DOMAIN rs : k < j => rs[j].of # v
  BY <1>2, <1>5, LastRow
<1>10. n - fresh + k \in 1..n /\ rs[k] = told[n - fresh + k]
  BY <1>1, <1>2, <1>9
<1>11. ASSUME NEW j \in DOMAIN told, n - fresh + k < j PROVE told[j].of # v
  <2>1. j - (n - fresh) \in 1..fresh /\ k < j - (n - fresh) /\ n - fresh + (j - (n - fresh)) = j
    BY <1>1, <1>2, <1>9, <1>11
  <2> QED
    BY <1>2, <1>9, <2>1
<1>12. newest[v] = <<told[n - fresh + k].rate>>
  BY <1>1, <1>9, <1>10, <1>11 DEF EInv, ToldInv, NewestTold
<1>13. newest[v] = <<LastOf(rs, v)>>
  BY <1>9, <1>10, <1>12
<1> QED
  BY <1>8, <1>13

\* What an insight matches is what a review sees.
LEMMA MatchesAreHits ==
  ASSUME EInv, ListInsights.matches # {}
  PROVE  EvidenceNow = "hit"
<1>1. Matches # {} /\ sig \in Signatures
  BY DEF ListInsights, EInv
<1>2. CASE sig = "spike_trap"
  <2>1. PICK v \in Having(Month) : FundingSpikeTrap(Month, v)
    BY <1>1, <1>2 DEF Matches
  <2> QED
    BY <1>2, <2>1 DEF EvidenceNow, SpikeEvidence
<1>3. CASE sig = "single_pool"
  <2>1. PoolSpikes(Month) # {}
    BY <1>1, <1>3 DEF Matches
  <2>2. Having(Month) # {}
    BY <2>1 DEF PoolSpikes
  <2> QED
    BY <1>3, <2>1, <2>2 DEF EvidenceNow, DefiEvidence
<1>4. CASE sig = "cross_venue"
  <2>1. CrossVenueDivergence(Month)
    BY <1>1, <1>4 DEF Matches
  <2>2. Cardinality(Having(Month)) \in Nat
    <3>1. told \in Seq([of : AllVenues, rate : AllRates])
      BY DEF EInv, ToldInv
    <3>2. Month \in Seq([of : AllVenues, rate : AllRates])
      BY <3>1, EvidenceAssumption DEF Month, Asked
    <3>3. IsFiniteSet(DOMAIN Month)
      BY <3>2, FS_Interval
    <3>4. IsFiniteSet({Month[i].of : i \in DOMAIN Month})
      <4> DEFINE venueAt == [i \in DOMAIN Month |-> Month[i].of]
      <4>1. venueAt \in Surjection(DOMAIN Month, {Month[i].of : i \in DOMAIN Month})
        BY DEF Surjection
      <4> QED
        BY <3>3, <4>1, FS_Surjection
    <3>5. Having(Month) \subseteq {Month[i].of : i \in DOMAIN Month}
      BY DEF Having, RowsOf
    <3> QED
      BY <3>4, <3>5, FS_Subset, FS_CardinalityType
  <2>3. ~(Cardinality(Having(Month)) < 2)
    BY <2>1, <2>2 DEF CrossVenueDivergence
  <2> QED
    BY <1>4, <2>1, <2>3 DEF EvidenceNow, CrossVenueEvidence
<1> QED
  BY <1>1, <1>2, <1>3, <1>4 DEF Matches, Signatures

LEMMA RecheckExact ==
  ASSUME EInv
  PROVE  ListedEntry.recheck <=>
           (reviewed.any /\ <<reviewed.direction, ListedEntry.evidence>> \in {<<"hit", "miss">>, <<"miss", "hit">>})
<1>1. ListedEntry.recheck = RecheckNeeded(EvidenceNow) /\ ListedEntry.evidence = EvidenceNow
  BY DEF ListedEntry
<1>2. /\ reviewed.direction \in {"", "hit", "miss"} /\ entry.direction = reviewed.direction
      /\ reviewed.any => entry.validated
      /\ ~reviewed.any => ~entry.validated
  BY DEF EInv, EntryInv, ReviewsKept
<1> QED
  BY <1>1, <1>2 DEF RecheckNeeded

LEMMA EInvAgrees == EInv => EvidenceAgrees
<1> SUFFICES ASSUME EInv PROVE EvidenceAgrees
  OBVIOUS
<1>1. ListedEntry.evidence = EvidenceNow /\ ListInsights.hint = NoOrderHint
  BY DEF ListedEntry, ListInsights
<1>2. reviewed.any => entry.status = reviewed.status /\ entry.validated
  BY DEF EInv, EntryInv, ReviewsKept
<1> QED
  BY <1>1, <1>2, GrabIsNoSpike, HintIsTrue, MatchesAreHits, RecheckExact DEF EvidenceAgrees

(* The types of the facts and of the entry. *)
THEOREM EvidenceTypes == EvidenceSpec => []EvidenceTypeOK
BY EvidenceInitInv, EvidenceStepInv, EInvTypes, PTL DEF EvidenceSpec

(* For any venues, rates, limits and times at which facts age, the ways in   *)
(* which the dashboard judges the same facts agree, and a restart never      *)
(* undoes a review.                                                          *)
THEOREM JudgementsAgree == EvidenceSpec => []EvidenceAgrees
BY EvidenceInitInv, EvidenceStepInv, EInvAgrees, PTL DEF EvidenceSpec

-----------------------------------------------------------------------------
(* This half of the program as a whole. *)

LEMMA ServerStep ==
  [ServerNext]_svars => /\ [BootNext]_wvars /\ [MirrorNext]_rvars /\ [LoopNext]_lvars
                        /\ [MeasureNext]_measvars /\ [EvidenceNext]_evidencevars /\ [ReportNext]_reportvars
                        /\ [ReplayNext]_replayvars /\ [LangNext]_langvars
BY DEF ServerNext, svars

LEMMA ServerStart ==
  ServerInit => BootInit /\ MirrorInit /\ LoopInit /\ LangInit /\ MeasureInit /\ EvidenceInit /\ ReportInit /\ ReplayInit
BY DEF ServerInit

ServerInv ==
  /\ WInv /\ Trying /\ MInv /\ LInv /\ LangInv /\ ReadInv /\ BooksInv /\ GateHonest /\ EInv /\ RInv /\ RPInv

LEMMA ServerInvHolds == ServerSpec => []ServerInv
<1>1. ServerInit => ServerInv
  BY ServerStart, BootInitInv, MirrorInitInv, LoopInitInv, LangStart, ReadStart, MeasureStart, GateStart, EvidenceInitInv,
     ReportStart, ReplayStart DEF ServerInv, BooksInv
<1>2. ServerInv /\ [ServerNext]_svars => ServerInv'
  BY ServerStep, BootStepInv, TryingStep, MirrorStepInv, LoopStepInv, LangStep, ReadStep, MeasureStep, GateStep,
     EvidenceStepInv, ReportStep, ReplayStep DEF ServerInv, BooksInv
<1> QED
  BY <1>1, <1>2, PTL DEF ServerSpec

(* The types of every component of this half of the program hold in the      *)
(* program composed of them.                                                 *)
THEOREM ServerTypes == ServerSpec => []ServerTypeOK
<1>1. ServerInv => ServerTypeOK
  BY LangInvTypes, EInvTypes, ReportInvTypes, Zenon
  DEF ServerInv, ServerTypeOK, WInv, MInv, LInv, BooksInv, RPInv
<1> QED
  BY ServerInvHolds, <1>1, PTL

(* What is proved of each component holds of the program composed of them:   *)
(* migrations are applied in order, mirrored orders are accounted for,       *)
(* snapshots are explained, rules are what their texts say and the verdicts  *)
(* those their conditions have, the gate on real money is honest, what the   *)
(* dashboard tells agrees, and the weekly report and the replay of history   *)
(* are exact.                                                                *)
THEOREM ServerKeepsPromises ==
  ServerSpec => /\ []MigratedInOrder /\ []MirrorAccounted /\ []SnapshotExplained /\ []ParsedExactly
                /\ []VerdictsExact /\ []GateHonest /\ []EvidenceAgrees /\ []ReportExact /\ []ReplayExact
<1>1. ServerInv => /\ MigratedInOrder /\ MirrorAccounted /\ SnapshotExplained /\ ParsedExactly /\ VerdictsExact
                   /\ GateHonest /\ EvidenceAgrees /\ ReportExact /\ ReplayExact
  BY EInvAgrees, ReportInvExact, LangInvExact, ReadExact DEF ServerInv, WInv, MInv, LInv, RPInv
<1> QED
  BY ServerInvHolds, <1>1, PTL
=============================================================================

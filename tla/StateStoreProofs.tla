-------------------------- MODULE StateStoreProofs --------------------------
(***************************************************************************)
(* What StateStore guarantees for any number of writers and processes,     *)
(* with or without a read replica, and for any number of retries.          *)
(***************************************************************************)
EXTENDS StateStore, TLAPS

\* The change counts order the copies of the row: what was loaded is not
\* newer than the primary, and a replica with the primary's count is equal
\* to it.
VersionInv ==
    /\ replica.ver <= db.ver
    /\ replica.ver = db.ver => replica = db
    /\ \A w \in Writers : seen[w] <= db.ver /\ base[w] <= db.ver

\* A save past its guard whose loaded row is still the current one carries
\* a terminal snapshot if the row is terminal.
GuardInv ==
    \A w \in Writers :
        pc[w] \in {"preserve", "write"} /\ seen[w] = db.ver /\ Terminal(db.row)
            => Terminal(snap[w])

\* A save about to write holds its own snapshot, with the volatile key of
\* the row it loaded.
MergeInv ==
    \A w \in Writers :
        pc[w] = "write" =>
            /\ merged[w].status = snap[w].status
            /\ base[w] = db.ver => merged[w] = Preserve(snap[w], db.row)

\* A save that is still running has an attempt left.
RetryInv ==
    \A w \in Writers : pc[w] # "idle" => tries[w] < MaxRetries

Inv == TypeOK /\ VersionInv /\ RetryInv /\ GuardInv /\ MergeInv

-----------------------------------------------------------------------------
\* Snapshots and the absent row are rows.
LEMMA RowTypes ==
    /\ NoRow \in Rows
    /\ Snapshots \subseteq Rows
    /\ \A s, r \in Rows : Preserve(s, r) \in Rows
BY StoreAssumption DEF NoRow, Rows, Snapshots, TaskStatus, Gate, Preserve

\* Merging keeps the status and decides the volatile key.
LEMMA PreserveFields ==
    ASSUME NEW s \in Rows, NEW r \in Rows
    PROVE  /\ Preserve(s, r).status = s.status
           /\ Preserve(s, r).gate = IF s.gate = "absent" THEN r.gate ELSE s.gate
BY DEF Preserve, Rows

\* What a read_only load returns is a row with a change count.
LEMMA ReadSourceType ==
    ASSUME TypeOK, VersionInv
    PROVE  /\ ReadSource \in [row : Rows, ver : Nat]
           /\ ReadSource.ver <= db.ver
           /\ ReadSource.ver = db.ver => ReadSource = db
BY DEF ReadSource, TypeOK, VersionInv

\* The initial state is well typed.
LEMMA InitType == Init => TypeOK
BY StoreAssumption, RowTypes DEF Init, TypeOK

\* Every step of the store keeps the variables well typed.
LEMMA NextType == Inv /\ [Next]_vars => TypeOK'
<1> SUFFICES ASSUME Inv, [Next]_vars PROVE TypeOK'
  OBVIOUS
<1> USE DEF Inv
<1>1. ASSUME NEW w \in Writers, NEW s \in Snapshots, SaveBegin(w, s)
      PROVE  TypeOK'
  BY <1>1, RowTypes, StoreAssumption DEF TypeOK, SaveBegin
<1>2. ASSUME NEW w \in Writers, CheckTombstone(w)
      PROVE  TypeOK'
  BY <1>2 DEF TypeOK, CheckTombstone
<1>3. ASSUME NEW w \in Writers, CheckTerminal(w)
      PROVE  TypeOK'
  <2>1. ReadSource.ver \in Nat
    BY ReadSourceType
  <2> QED
    BY <1>3, <2>1 DEF TypeOK, CheckTerminal
<1>4. ASSUME NEW w \in Writers, PreserveVolatile(w)
      PROVE  TypeOK'
  <2>1. ReadSource.ver \in Nat /\ Preserve(snap[w], ReadSource.row) \in Rows
    BY ReadSourceType, RowTypes DEF TypeOK
  <2> QED
    BY <1>4, <2>1 DEF TypeOK, PreserveVolatile
<1>5. ASSUME NEW w \in Writers, Write(w)
      PROVE  TypeOK'
  BY <1>5 DEF TypeOK, Write
<1>6. ASSUME NEW w \in Writers, NEW e \in Errors, SaveFails(w, e)
      PROVE  TypeOK'
  <2>1. tries[w] + 1 \in 0 .. MaxRetries
    BY <1>6, StoreAssumption DEF TypeOK, RetryInv, SaveFails
  <2> QED
    BY <1>6, <2>1 DEF TypeOK, SaveFails, Retryable
<1>7. ASSUME NEW p \in Procs, DeleteStep(p)
      PROVE  TypeOK'
  <2>1. CASE DeleteBegin(p)
    BY <2>1 DEF TypeOK, DeleteBegin, saveVars, storeVars
  <2>2. CASE DeleteRow(p)
    BY <2>2, RowTypes DEF TypeOK, DeleteRow, saveVars
  <2>3. CASE MarkTombstone(p)
    BY <2>3 DEF TypeOK, MarkTombstone, saveVars
  <2> QED
    BY <1>7, <2>1, <2>2, <2>3 DEF DeleteStep
<1>8. CASE Replicate
  BY <1>8 DEF TypeOK, Replicate, saveVars
<1>9. CASE UNCHANGED vars
  BY <1>9 DEF TypeOK, vars
<1> QED
  BY <1>1, <1>2, <1>3, <1>4, <1>5, <1>6, <1>7, <1>8, <1>9 DEF Next, SaveStep

-----------------------------------------------------------------------------
\* The inductive invariant holds initially.
LEMMA InitInv == Init => Inv
<1> SUFFICES ASSUME Init PROVE Inv
  OBVIOUS
<1>1. TypeOK
  BY InitType
<1>2. VersionInv /\ RetryInv /\ GuardInv /\ MergeInv
  BY StoreAssumption DEF Init, VersionInv, RetryInv, GuardInv, MergeInv
<1> QED
  BY <1>1, <1>2 DEF Inv

\* A change of the row leaves every count that was loaded before it behind,
\* so that it trivially keeps what GuardInv and MergeInv say of the other
\* saves.
LEMMA RowChange ==
    ASSUME Inv, TypeOK', db'.ver = db.ver + 1,
           UNCHANGED <<replica, snap, merged, seen, base, tries>>,
           \A w \in Writers : pc'[w] \in {pc[w], "idle"}
    PROVE  VersionInv' /\ RetryInv' /\ GuardInv' /\ MergeInv'
<1> USE DEF Inv
<1>1. VersionInv'
  BY DEF TypeOK, VersionInv
<1>2. RetryInv'
  BY DEF TypeOK, RetryInv
<1>3. \A w \in Writers : seen'[w] # db'.ver /\ base'[w] # db'.ver
  BY DEF TypeOK, VersionInv
<1>4. GuardInv'
  BY <1>3 DEF GuardInv
<1>5. MergeInv'
  BY <1>3 DEF TypeOK, MergeInv
<1> QED
  BY <1>1, <1>2, <1>4, <1>5

\* Every step of the store keeps the inductive invariant.
LEMMA NextInv == Inv /\ [Next]_vars => Inv'
<1> SUFFICES ASSUME Inv, [Next]_vars PROVE Inv'
  OBVIOUS
<1>t. TypeOK'
  BY NextType
<1> SUFFICES VersionInv' /\ RetryInv' /\ GuardInv' /\ MergeInv'
  BY <1>t DEF Inv
<1> USE DEF Inv
<1>1. ASSUME NEW w \in Writers, NEW s \in Snapshots, SaveBegin(w, s)
      PROVE  VersionInv' /\ RetryInv' /\ GuardInv' /\ MergeInv'
  BY <1>1, StoreAssumption
     DEF TypeOK, SaveBegin, VersionInv, RetryInv, GuardInv, MergeInv
<1>2. ASSUME NEW w \in Writers, CheckTombstone(w)
      PROVE  VersionInv' /\ RetryInv' /\ GuardInv' /\ MergeInv'
  BY <1>2 DEF TypeOK, CheckTombstone, VersionInv, RetryInv, GuardInv, MergeInv
<1>3. ASSUME NEW w \in Writers, CheckTerminal(w)
      PROVE  VersionInv' /\ RetryInv' /\ GuardInv' /\ MergeInv'
  <2>1. /\ ReadSource.ver \in Nat
        /\ ReadSource.ver <= db.ver
        /\ ReadSource.ver = db.ver => ReadSource = db
    BY ReadSourceType
  <2>2. VersionInv'
    BY <1>3, <2>1 DEF TypeOK, CheckTerminal, VersionInv
  <2>3. RetryInv'
    BY <1>3 DEF TypeOK, CheckTerminal, RetryInv
  <2>4. GuardInv'
    BY <1>3, <2>1 DEF TypeOK, CheckTerminal, GuardInv
  <2>5. MergeInv'
    BY <1>3 DEF TypeOK, CheckTerminal, MergeInv
  <2> QED
    BY <2>2, <2>3, <2>4, <2>5
<1>4. ASSUME NEW w \in Writers, PreserveVolatile(w)
      PROVE  VersionInv' /\ RetryInv' /\ GuardInv' /\ MergeInv'
  <2>1. /\ ReadSource.ver \in Nat
        /\ ReadSource.ver <= db.ver
        /\ ReadSource.ver = db.ver => ReadSource = db
    BY ReadSourceType
  <2>2. VersionInv'
    BY <1>4, <2>1 DEF TypeOK, PreserveVolatile, VersionInv
  <2>3. RetryInv'
    BY <1>4 DEF TypeOK, PreserveVolatile, RetryInv
  <2>4. GuardInv'
    BY <1>4 DEF TypeOK, PreserveVolatile, GuardInv
  <2>5. /\ merged'[w] = Preserve(snap[w], ReadSource.row)
        /\ merged'[w].status = snap[w].status
    BY <1>4, ReadSourceType, PreserveFields DEF TypeOK, PreserveVolatile
  <2>6. MergeInv'
    BY <1>4, <2>1, <2>5 DEF TypeOK, PreserveVolatile, MergeInv
  <2> QED
    BY <2>2, <2>3, <2>4, <2>6
<1>5. ASSUME NEW w \in Writers, Write(w)
      PROVE  VersionInv' /\ RetryInv' /\ GuardInv' /\ MergeInv'
  <2>1. /\ db'.ver = db.ver + 1
        /\ \A v \in Writers : pc'[v] \in {pc[v], "idle"}
    BY <1>5 DEF TypeOK, Write
  <2> QED
    BY <1>5, <1>t, <2>1, RowChange DEF Write
<1>6. ASSUME NEW w \in Writers, NEW e \in Errors, SaveFails(w, e)
      PROVE  VersionInv' /\ RetryInv' /\ GuardInv' /\ MergeInv'
  <2>1. /\ pc'[w] # "idle" => tries[w] # MaxRetries - 1
        /\ pc'[w] \in {"tomb", "idle"}
        /\ tries[w] < MaxRetries
    BY <1>6 DEF TypeOK, RetryInv, SaveFails, Retryable
  <2>2. RetryInv'
    BY <1>6, <2>1, StoreAssumption DEF TypeOK, RetryInv, SaveFails
  <2>3. VersionInv' /\ GuardInv' /\ MergeInv'
    BY <1>6, <2>1 DEF TypeOK, SaveFails, VersionInv, GuardInv, MergeInv
  <2> QED
    BY <2>2, <2>3
<1>7. ASSUME NEW p \in Procs, DeleteRow(p)
      PROVE  VersionInv' /\ RetryInv' /\ GuardInv' /\ MergeInv'
  <2>1. /\ db'.ver = db.ver + 1
        /\ \A v \in Writers : pc'[v] \in {pc[v], "idle"}
    BY <1>7 DEF TypeOK, DeleteRow, saveVars
  <2> QED
    BY <1>7, <1>t, <2>1, RowChange DEF DeleteRow, saveVars
<1>8. ASSUME NEW p \in Procs, DeleteBegin(p) \/ MarkTombstone(p)
      PROVE  VersionInv' /\ RetryInv' /\ GuardInv' /\ MergeInv'
  BY <1>8 DEF DeleteBegin, MarkTombstone, saveVars, storeVars,
              VersionInv, RetryInv, GuardInv, MergeInv
<1>9. CASE Replicate
  BY <1>9 DEF TypeOK, Replicate, saveVars, VersionInv, RetryInv, GuardInv, MergeInv
<1>10. CASE UNCHANGED vars
  BY <1>10 DEF vars, VersionInv, RetryInv, GuardInv, MergeInv
<1> QED
  BY <1>1, <1>2, <1>3, <1>4, <1>5, <1>6, <1>7, <1>8, <1>9, <1>10
     DEF Next, SaveStep, DeleteStep

\* The inductive invariant holds in every behaviour of the store.
THEOREM Invariance == Spec => []Inv
BY InitInv, NextInv, PTL DEF Spec

\* The state of the store, of its saves and of its delete handlers is well
\* typed; in particular no save of StateStore.save makes more attempts than
\* DB_SAVE_MAX_RETRIES.
THEOREM TypeCorrect == Spec => []TypeOK
<1>1. Inv => TypeOK
  BY DEF Inv
<1> QED
  BY <1>1, Invariance, PTL

-----------------------------------------------------------------------------
\* A write whose guard loaded the current row does not turn a terminal row
\* into one that is not: _TERMINAL_PROTECT_STATUSES of StateStore._save
\* fails only through a change between the guard and the write.
THEOREM TerminalGuardHolds == Spec => TerminalGuard
<1> DEFINE Step == \A w \in Writers :
        Write(w) /\ seen[w] = db.ver /\ Terminal(db.row) => Terminal(db'.row)
<1>1. Inv => Step
  <2> SUFFICES ASSUME Inv, NEW w \in Writers, Write(w),
                      seen[w] = db.ver, Terminal(db.row)
               PROVE  Terminal(db'.row)
    OBVIOUS
  <2>1. pc[w] = "write" /\ db'.row = merged[w]
    BY DEF Write
  <2>2. Terminal(snap[w])
    BY <2>1 DEF Inv, GuardInv
  <2>3. merged[w].status = snap[w].status
    BY <2>1 DEF Inv, MergeInv
  <2> QED
    BY <2>1, <2>2, <2>3 DEF Terminal
<1>2. Inv /\ [Next]_vars => [Step]_vars
  BY <1>1
<1>3. Spec => [][Step]_vars
  BY <1>2, Invariance, PTL DEF Spec
<1> QED
  BY <1>3 DEF TerminalGuard

\* A save carries a volatile key of the stored row over when its snapshot
\* lacks the key and the row it loaded is still the current one
\* (StateStore._preserve_volatile_fields).
THEOREM GateCarriedOverHolds == Spec => GateCarriedOver
<1> DEFINE Step == \A w \in Writers :
        Write(w) /\ base[w] = db.ver =>
           db'.row.gate = IF snap[w].gate = "absent" THEN db.row.gate
                          ELSE snap[w].gate
<1>1. Inv => Step
  <2> SUFFICES ASSUME Inv, NEW w \in Writers, Write(w), base[w] = db.ver
               PROVE  db'.row.gate = IF snap[w].gate = "absent" THEN db.row.gate
                                     ELSE snap[w].gate
    OBVIOUS
  <2>1. pc[w] = "write" /\ db'.row = merged[w]
    BY DEF Write
  <2>2. merged[w] = Preserve(snap[w], db.row)
    BY <2>1 DEF Inv, MergeInv
  <2>3. snap[w] \in Rows /\ db.row \in Rows
    BY DEF Inv, TypeOK
  <2> QED
    BY <2>1, <2>2, <2>3, PreserveFields
<1>2. Inv /\ [Next]_vars => [Step]_vars
  BY <1>1
<1>3. Spec => [][Step]_vars
  BY <1>2, Invariance, PTL DEF Spec
<1> QED
  BY <1>3 DEF GateCarriedOver

\* Once every process has the tombstone and no save is past its look at it,
\* the row is never written again (task_tombstone.py, delete_task).
THEOREM LateWritesDroppedHolds == Spec => LateWritesDropped
<1>1. Inv /\ [Next]_vars => [Drained => Drained' /\ db' = db]_vars
  <2> SUFFICES ASSUME Inv, Drained, Next
               PROVE  Drained' /\ db' = db
    OBVIOUS
  <2> USE DEF Inv
  <2>1. ASSUME NEW w \in Writers, NEW s \in Snapshots, SaveBegin(w, s)
        PROVE  Drained' /\ db' = db
    BY <2>1 DEF TypeOK, Drained, SaveBegin
  <2>2. ASSUME NEW w \in Writers, CheckTombstone(w)
        PROVE  Drained' /\ db' = db
    <3>1. tomb[ProcOf[w]]
      BY StoreAssumption DEF Drained
    <3> QED
      BY <2>2, <3>1 DEF TypeOK, Drained, CheckTombstone
  <2>3. ASSUME NEW w \in Writers, NEW e \in Errors,
               \/ CheckTerminal(w) \/ PreserveVolatile(w)
               \/ Write(w) \/ SaveFails(w, e)
        PROVE  FALSE
    BY <2>3 DEF Drained, CheckTerminal, PreserveVolatile, Write, SaveFails
  <2>4. ASSUME NEW p \in Procs, DeleteStep(p)
        PROVE  FALSE
    BY <2>4 DEF Drained, DeleteStep, DeleteBegin, DeleteRow, MarkTombstone
  <2>5. CASE Replicate
    BY <2>5 DEF Drained, Replicate, saveVars
  <2> QED
    BY <2>1, <2>2, <2>3, <2>4, <2>5 DEF Next, SaveStep, Errors
<1> QED
  BY <1>1, Invariance, PTL DEF Spec, LateWritesDropped
=============================================================================

--------------------------- MODULE AuthorityProofs ---------------------------
(***************************************************************************)
(* Proofs about the two authorities kept in PostgreSQL.                    *)
(*                                                                         *)
(* SchemaAuthority: for any number of processes, writers and rows the      *)
(* migration loses no acknowledged row, the stamp of this build is on its  *)
(* own layout, readiness implies the stamp, and the stamp only moves       *)
(* forward.                                                                *)
(*                                                                         *)
(* RollbackCheckpoint: for any number of callers and epochs and any        *)
(* ceiling a generation is handed out at most once, whatever snapshots     *)
(* Redis is restored to and however often the witness is lost.             *)
(***************************************************************************)
EXTENDS MCAuthorities, TLAPS

Attesting(p) == op[p].kind \in {"ready", "provision", "adopt"}
Migrating(p) == op[p].kind \in {"prepare", "migrate"}

\* The process that migrates is the one that holds both tables.
LockHeld == \A p \in Procs : Migrating(p) <=> lock = p

\* While the tables are held no writer has a transaction, and the rows that the
\* migration read are the committed ones.
Quiesced ==
  /\ lock # None => \A w \in Writers : wtx[w] = None
  /\ \A p \in Procs : Migrating(p) => op[p].rows = table

\* A snapshot is never younger than the stamp it shows, and what it attested still
\* holds unless someone altered the layout.
SnapshotsAge ==
  \A p \in Procs :
    Attesting(p) => /\ op[p].snap.meta <= meta
                    /\ Attested(op[p].snap) /\ ~tampered => infra = "v3" /\ pairs = "v3"

IInv ==
  /\ TypeOK
  /\ LockHeld
  /\ Quiesced
  /\ SnapshotsAge
  /\ AcknowledgedRowsSurvive
  /\ StampMatchesLayout
  /\ ReadyIsStamped

\* What the operation of a process holds.
LEMMA OpType ==
  ASSUME TypeOK, NEW p \in Procs
  PROVE  /\ Attesting(p) => op[p] \in [kind : {"ready", "provision", "adopt"}, snap : Catalog]
         /\ Attesting(p) => op[p].snap \in Catalog /\ op[p].snap.meta \in Stamps
         /\ Migrating(p) => op[p] \in [kind : {"prepare", "migrate"}, rows : Tables]
         /\ Migrating(p) => op[p].rows \in Tables /\ ~Attesting(p)
         /\ op[p] # Idle => Attesting(p) \/ Migrating(p)
         /\ op[p] = Idle => ~Attesting(p) /\ ~Migrating(p)
<1>1. op[p] \in Op \cup {Idle}
  BY DEF TypeOK
<1>. QED BY <1>1 DEF Op, Idle, Attesting, Migrating, Catalog

\* A step after which no process runs another operation than before keeps what is said
\* of the operations.
LEMMA OpFrame ==
  ASSUME UNCHANGED op, NEW p \in Procs
  PROVE  /\ Attesting(p)' <=> Attesting(p)
         /\ Migrating(p)' <=> Migrating(p)
BY DEF Attesting, Migrating

\* Operations other than that of p stay as they are.
LEMMA OpOthers ==
  ASSUME TypeOK, NEW p \in Procs, NEW new, op' = [op EXCEPT ![p] = new]
  PROVE  /\ op'[p] = new
         /\ \A q \in Procs : q # p => /\ op'[q] = op[q]
                                      /\ Attesting(q)' <=> Attesting(q)
                                      /\ Migrating(q)' <=> Migrating(q)
BY DEF TypeOK, Attesting, Migrating

LEMMA InitIInv == Init => IInv
<1> SUFFICES ASSUME Init PROVE IInv
  OBVIOUS
<1>1. TypeOK
  <2>1. tampered \in BOOLEAN /\ op \in [Procs -> Op \cup {Idle}]
    BY Zenon DEF Init
  <2>. QED BY <2>1 DEF Init, TypeOK, Layouts, Stamps, NoTable, Tables
<1>2. \A p \in Procs : op[p].kind = "idle" /\ lock # p
  BY SchemaAssumption DEF Init, Idle
<1>3. LockHeld /\ Quiesced /\ SnapshotsAge
  BY <1>2 DEF Init, LockHeld, Quiesced, SnapshotsAge, Attesting, Migrating
<1>4. AcknowledgedRowsSurvive /\ StampMatchesLayout /\ ReadyIsStamped
  BY DEF Init, AcknowledgedRowsSurvive, StampMatchesLayout, ReadyIsStamped, NoTable, Current
<1>. QED BY <1>1, <1>3, <1>4 DEF IInv

------------------------------------------------------------------------------
(* Writers and owners of the DDL.                                          *)

LEMMA WriterBeginPreserves ==
  ASSUME IInv, NEW w \in Writers, NEW c \in Changes, WriterBegin(w, c)
  PROVE  IInv'
<1> USE DEF WriterBegin
<1>1. TypeOK'
  BY DEF IInv, TypeOK
<1>2. LockHeld' /\ SnapshotsAge'
  BY OpFrame DEF IInv, LockHeld, SnapshotsAge
<1>3. Quiesced'
  BY OpFrame DEF IInv, Quiesced
<1>4. AcknowledgedRowsSurvive' /\ StampMatchesLayout' /\ ReadyIsStamped'
  BY DEF IInv, AcknowledgedRowsSurvive, StampMatchesLayout, ReadyIsStamped
<1>. QED BY <1>1, <1>2, <1>3, <1>4 DEF IInv

LEMMA WriterCommitPreserves ==
  ASSUME IInv, NEW w \in Writers, WriterCommit(w)
  PROVE  IInv'
<1> USE DEF WriterCommit
<1>1. wtx[w] \in Changes /\ lock = None
  BY SchemaAssumption DEF IInv, TypeOK, Quiesced
<1>2. TypeOK'
  BY <1>1 DEF IInv, TypeOK, Changes, Tables
<1>3. \A p \in Procs : ~Migrating(p)
  BY <1>1, SchemaAssumption DEF IInv, LockHeld
<1>4. LockHeld' /\ SnapshotsAge'
  BY OpFrame DEF IInv, LockHeld, SnapshotsAge
<1>5. Quiesced'
  BY <1>1, <1>3, OpFrame DEF Quiesced
<1>6. AcknowledgedRowsSurvive' /\ StampMatchesLayout' /\ ReadyIsStamped'
  BY DEF IInv, AcknowledgedRowsSurvive, StampMatchesLayout, ReadyIsStamped
<1>. QED BY <1>2, <1>4, <1>5, <1>6 DEF IInv

LEMMA WriterAbortPreserves ==
  ASSUME IInv, NEW w \in Writers, WriterAbort(w)
  PROVE  IInv'
<1> USE DEF WriterAbort
<1>1. TypeOK'
  BY DEF IInv, TypeOK
<1>2. LockHeld' /\ SnapshotsAge'
  BY OpFrame DEF IInv, LockHeld, SnapshotsAge
<1>3. Quiesced'
  <2>1. \A v \in Writers : wtx[v] = None => wtx'[v] = None
    BY DEF IInv, TypeOK
  <2>. QED BY <2>1, OpFrame DEF IInv, Quiesced
<1>4. AcknowledgedRowsSurvive' /\ StampMatchesLayout' /\ ReadyIsStamped'
  BY DEF IInv, AcknowledgedRowsSurvive, StampMatchesLayout, ReadyIsStamped
<1>. QED BY <1>1, <1>2, <1>3, <1>4 DEF IInv

LEMMA CreateSchemaPreserves == IInv /\ CreateSchema => IInv'
<1> SUFFICES ASSUME IInv, CreateSchema PROVE IInv'
  OBVIOUS
<1> USE DEF CreateSchema
<1>1. meta = NoTable
  BY DEF IInv, TypeOK
<1>2. TypeOK'
  BY DEF IInv, TypeOK, Layouts, Stamps, NoTable, Unstamped
<1>3. LockHeld' /\ Quiesced'
  BY OpFrame DEF IInv, LockHeld, Quiesced
<1>4. SnapshotsAge'
  <2> SUFFICES ASSUME NEW p \in Procs, Attesting(p)
               PROVE  /\ op[p].snap.meta <= meta'
                      /\ Attested(op[p].snap) /\ ~tampered => infra' = "v3" /\ pairs' = "v3"
    BY OpFrame DEF SnapshotsAge
  <2>1. op[p].snap.meta <= meta /\ op[p].snap.meta \in Stamps
    BY OpType DEF IInv, SnapshotsAge
  <2>2. Attested(op[p].snap) => tampered
    BY DEF IInv, SnapshotsAge
  <2>. QED BY <1>1, <2>1, <2>2 DEF NoTable, Unstamped, Stamps
<1>5. AcknowledgedRowsSurvive' /\ StampMatchesLayout' /\ ReadyIsStamped'
  BY <1>1 DEF IInv, AcknowledgedRowsSurvive, StampMatchesLayout, ReadyIsStamped,
              NoTable, Unstamped, Current
<1>. QED BY <1>2, <1>3, <1>4, <1>5 DEF IInv

LEMMA AlterPreserves ==
  ASSUME IInv, NEW layout \in {"legacy", "v3", "drifted"}, Alter(layout)
  PROVE  IInv'
<1> USE DEF Alter
<1>1. tampered' = (tampered \/ layout # "v3")
  BY DEF Alter
<1>2. tampered' \in BOOLEAN
  BY <1>1, Zenon
<1>3. TypeOK'
  BY <1>2 DEF IInv, TypeOK, Layouts
<1>4. LockHeld' /\ Quiesced'
  BY OpFrame DEF IInv, LockHeld, Quiesced
<1>5. SnapshotsAge'
  BY <1>1, OpFrame DEF IInv, SnapshotsAge
<1>6. AcknowledgedRowsSurvive' /\ StampMatchesLayout' /\ ReadyIsStamped'
  BY <1>1 DEF IInv, AcknowledgedRowsSurvive, StampMatchesLayout, ReadyIsStamped
<1>. QED BY <1>3, <1>4, <1>5, <1>6 DEF IInv

LEMMA LaterBuildPreserves == IInv /\ LaterBuild => IInv'
<1> SUFFICES ASSUME IInv, LaterBuild PROVE IInv'
  OBVIOUS
<1> USE DEF LaterBuild
<1>1. TypeOK'
  BY DEF IInv, TypeOK, Stamps, NoTable, Current
<1>2. LockHeld' /\ Quiesced'
  BY OpFrame DEF IInv, LockHeld, Quiesced
<1>3. SnapshotsAge'
  <2> SUFFICES ASSUME NEW p \in Procs, Attesting(p)
               PROVE  /\ op[p].snap.meta <= meta'
                      /\ Attested(op[p].snap) /\ ~tampered => infra = "v3" /\ pairs = "v3"
    BY OpFrame DEF SnapshotsAge
  <2>1. op[p].snap.meta <= meta /\ op[p].snap.meta \in Stamps
    BY OpType DEF IInv, SnapshotsAge
  <2>. QED BY <2>1 DEF IInv, SnapshotsAge, Stamps, NoTable, Current
<1>4. AcknowledgedRowsSurvive' /\ StampMatchesLayout' /\ ReadyIsStamped'
  BY DEF IInv, AcknowledgedRowsSurvive, StampMatchesLayout, ReadyIsStamped, Current
<1>. QED BY <1>1, <1>2, <1>3, <1>4 DEF IInv

------------------------------------------------------------------------------
(* The transactions of the processes.                                      *)

\* What every end of a transaction has in common: the process is idle, its locks are
\* released, no row is gone and no layout is left behind.
LEMMA FinishPreserves ==
  ASSUME IInv, NEW p \in Procs,
         op' = [op EXCEPT ![p] = Idle],
         lock' = IF lock = p THEN None ELSE lock,
         UNCHANGED <<table, wtx, acked, tampered>>,
         ready' \subseteq Procs,
         infra' = infra \/ infra' = "v3",
         pairs' = pairs \/ pairs' = "v3",
         meta' \in Stamps, meta' >= meta, meta' = NoTable <=> infra' = "none",
         StampMatchesLayout', ReadyIsStamped'
  PROVE  IInv'
<1>1. op'[p] = Idle /\ ~Attesting(p)' /\ ~Migrating(p)'
  BY DEF IInv, TypeOK, Attesting, Migrating, Idle
<1>2. \A q \in Procs : q # p => /\ op'[q] = op[q]
                                /\ Attesting(q)' <=> Attesting(q)
                                /\ Migrating(q)' <=> Migrating(q)
  BY OpOthers DEF IInv
<1>3. TypeOK'
  <2>1. op' \in [Procs -> Op \cup {Idle}]
    BY DEF IInv, TypeOK
  <2>. QED BY <2>1 DEF IInv, TypeOK, Layouts
<1>4. LockHeld'
  BY <1>1, <1>2, SchemaAssumption DEF IInv, LockHeld
<1>5. Quiesced'
  BY <1>1, <1>2 DEF IInv, Quiesced
<1>6. SnapshotsAge'
  <2> SUFFICES ASSUME NEW q \in Procs, Attesting(q)'
               PROVE  /\ op'[q].snap.meta <= meta'
                      /\ Attested(op'[q].snap) /\ ~tampered => infra' = "v3" /\ pairs' = "v3"
    BY DEF SnapshotsAge
  <2>1. q # p /\ op'[q] = op[q] /\ Attesting(q)
    BY <1>1, <1>2
  <2>2. op[q].snap.meta <= meta /\ op[q].snap.meta \in Stamps /\ meta \in Stamps
    BY <2>1, OpType DEF IInv, SnapshotsAge, TypeOK
  <2>3. op[q].snap.meta <= meta'
    BY <2>2 DEF Stamps, NoTable
  <2>4. Attested(op[q].snap) /\ ~tampered => infra = "v3" /\ pairs = "v3"
    BY <2>1 DEF IInv, SnapshotsAge
  <2>. QED BY <2>1, <2>3, <2>4
<1>7. AcknowledgedRowsSurvive'
  BY DEF IInv, AcknowledgedRowsSurvive
<1>. QED BY <1>3, <1>4, <1>5, <1>6, <1>7 DEF IInv

\* A process that attests holds no lock, so its end releases none.
LEMMA AttestingHoldsNoLock ==
  ASSUME IInv, NEW p \in Procs, Attesting(p)
  PROVE  lock # p
BY OpType DEF IInv, LockHeld, Attesting, Migrating

LEMMA BeginPreserves ==
  ASSUME IInv, NEW p \in Procs, NEW kind \in {"ready", "provision", "adopt"}, Begin(p, kind)
  PROVE  IInv'
<1> USE DEF Begin
<1> DEFINE new == [kind |-> kind, snap |-> Live]
<1>1. ~Migrating(p) /\ ~Attesting(p)
  BY OpType DEF IInv
<1>2. op'[p] = new /\ ~Migrating(p)' /\ Attesting(p)'
  BY DEF IInv, TypeOK, Attesting, Migrating
<1>3. \A q \in Procs : q # p => /\ op'[q] = op[q]
                                /\ Attesting(q)' <=> Attesting(q)
                                /\ Migrating(q)' <=> Migrating(q)
  BY OpOthers DEF IInv
<1>4. TypeOK'
  <2>1. Live \in Catalog
    BY DEF IInv, TypeOK, Live, Catalog
  <2>2. new \in Op
    BY <2>1 DEF Op
  <2>3. op' \in [Procs -> Op \cup {Idle}]
    BY <2>2 DEF IInv, TypeOK
  <2>. QED BY <2>3 DEF IInv, TypeOK
<1>5. LockHeld' /\ Quiesced'
  BY <1>1, <1>2, <1>3 DEF IInv, LockHeld, Quiesced
<1>6. SnapshotsAge'
  <2> SUFFICES ASSUME NEW q \in Procs, Attesting(q)'
               PROVE  /\ op'[q].snap.meta <= meta
                      /\ Attested(op'[q].snap) /\ ~tampered => infra = "v3" /\ pairs = "v3"
    BY DEF SnapshotsAge
  <2>1. CASE q = p
    <3>1. op'[q].snap = Live
      BY <1>2, <2>1
    <3>2. Live.meta = meta /\ meta \in Stamps
      BY DEF Live, IInv, TypeOK
    <3>3. Attested(Live) => infra = "v3" /\ pairs = "v3"
      BY DEF Live, Attested
    <3>. QED BY <3>1, <3>2, <3>3 DEF Stamps, NoTable
  <2>2. CASE q # p
    BY <1>3, <2>2 DEF IInv, SnapshotsAge
  <2>. QED BY <2>1, <2>2
<1>7. AcknowledgedRowsSurvive' /\ StampMatchesLayout' /\ ReadyIsStamped'
  BY DEF IInv, AcknowledgedRowsSurvive, StampMatchesLayout, ReadyIsStamped
<1>. QED BY <1>4, <1>5, <1>6, <1>7 DEF IInv

LEMMA ReadyPreserves ==
  ASSUME IInv, NEW p \in Procs, Ready(p)
  PROVE  IInv'
<1> USE DEF Ready, Mint
<1>1. Attesting(p) /\ lock # p
  BY AttestingHoldsNoLock DEF Attesting
<1>2. meta \in Stamps /\ meta >= Current
  BY <1>1 DEF IInv, SnapshotsAge, TypeOK, Stamps, NoTable, Current
<1>3. StampMatchesLayout'
  BY DEF IInv, StampMatchesLayout
<1>4. ReadyIsStamped'
  BY <1>2 DEF ReadyIsStamped
<1>5. ready' \subseteq Procs /\ meta' >= meta /\ (meta' = NoTable <=> infra' = "none")
  BY <1>2 DEF IInv, TypeOK, Stamps, NoTable
<1>. QED BY <1>1, <1>2, <1>3, <1>4, <1>5, FinishPreserves

\* The stamp is put on a catalog whose attestation is still true.
LEMMA StampPreserves ==
  ASSUME IInv, NEW p \in Procs, Attesting(p), Mint(p), Attested(op[p].snap),
         meta \in Unstamped..Current, meta' = Current,
         UNCHANGED <<infra, pairs, table, wtx, lock, acked, tampered>>
  PROVE  IInv'
<1> USE DEF Mint
<1>1. lock # p
  BY AttestingHoldsNoLock
<1>2. meta' \in Stamps /\ meta' >= meta /\ meta' # NoTable /\ meta # NoTable
  BY DEF Stamps, NoTable, Current, Unstamped
<1>3. infra' # "none"
  BY <1>2 DEF IInv, TypeOK
<1>4. StampMatchesLayout'
  BY DEF IInv, SnapshotsAge, StampMatchesLayout
<1>5. ReadyIsStamped' /\ ready' \subseteq Procs
  BY DEF ReadyIsStamped, IInv, TypeOK, Current
<1>. QED BY <1>1, <1>2, <1>3, <1>4, <1>5, FinishPreserves

LEMMA ProvisionPreserves ==
  ASSUME IInv, NEW p \in Procs, Provision(p)
  PROVE  IInv'
<1>1. Attesting(p) /\ meta \in Unstamped..Current
  BY DEF Provision, Attesting, Unstamped, Current
<1>. QED BY <1>1, StampPreserves DEF Provision

LEMMA AdoptPreserves ==
  ASSUME IInv, NEW p \in Procs, Adopt(p)
  PROVE  IInv'
<1>1. Attesting(p) /\ meta \in Unstamped..Current
  BY DEF Adopt, Attesting
<1>. QED BY <1>1, StampPreserves DEF Adopt

LEMMA LockPreserves ==
  ASSUME IInv, NEW p \in Procs, NEW kind \in {"prepare", "migrate"}, Lock(p, kind)
  PROVE  IInv'
<1> USE DEF Lock
<1> DEFINE new == [kind |-> kind, rows |-> table]
<1>1. op'[p] = new /\ Migrating(p)' /\ ~Attesting(p)'
  BY DEF IInv, TypeOK, Attesting, Migrating
<1>2. \A q \in Procs : q # p => /\ op'[q] = op[q]
                                /\ Attesting(q)' <=> Attesting(q)
                                /\ Migrating(q)' <=> Migrating(q)
  BY OpOthers DEF IInv
<1>3. \A q \in Procs : ~Migrating(q)
  BY SchemaAssumption DEF IInv, LockHeld
<1>4. TypeOK'
  <2>1. new \in Op
    BY DEF Op, IInv, TypeOK
  <2>2. op' \in [Procs -> Op \cup {Idle}]
    BY <2>1 DEF IInv, TypeOK
  <2>. QED BY <2>2 DEF IInv, TypeOK
<1>5. LockHeld'
  BY <1>1, <1>2, <1>3 DEF LockHeld
<1>6. Quiesced'
  BY <1>1, <1>2, <1>3 DEF Quiesced
<1>7. SnapshotsAge'
  BY <1>1, <1>2 DEF IInv, SnapshotsAge
<1>8. AcknowledgedRowsSurvive' /\ StampMatchesLayout' /\ ReadyIsStamped'
  BY DEF IInv, AcknowledgedRowsSurvive, StampMatchesLayout, ReadyIsStamped
<1>. QED BY <1>4, <1>5, <1>6, <1>7, <1>8 DEF IInv

LEMMA PreparePreserves ==
  ASSUME IInv, NEW p \in Procs, Prepare(p)
  PROVE  IInv'
<1> USE DEF Prepare
<1>1. lock = p
  BY DEF IInv, LockHeld, Migrating
<1>2. meta = NoTable
  BY DEF IInv, TypeOK
<1>3. meta' \in Stamps /\ meta' >= meta /\ meta' # NoTable /\ infra' # "none"
  BY <1>2 DEF Stamps, NoTable
<1>4. StampMatchesLayout'
  BY DEF StampMatchesLayout, Current
<1>5. ReadyIsStamped' /\ ready' \subseteq Procs
  BY <1>2 DEF IInv, TypeOK, ReadyIsStamped, NoTable, Current
<1>. QED BY <1>1, <1>3, <1>4, <1>5, FinishPreserves

\* The swapped-in copies are the rows the lock froze, so the table is what it was.
LEMMA MigratePreserves ==
  ASSUME IInv, NEW p \in Procs, Migrate(p)
  PROVE  IInv'
<1> USE DEF Migrate, Mint
<1>1. lock = p /\ table' = table
  BY DEF IInv, LockHeld, Quiesced, Migrating
<1>2. infra = "v3" /\ infra' = "v3" /\ pairs' = "v3"
  BY DEF Attested
<1>3. meta' \in Stamps /\ meta' >= meta /\ meta' # NoTable
  BY DEF Stamps, NoTable, Current
<1>4. StampMatchesLayout'
  BY <1>2 DEF StampMatchesLayout
<1>5. ReadyIsStamped' /\ ready' \subseteq Procs
  BY DEF IInv, TypeOK, ReadyIsStamped, Current
<1>. QED BY <1>1, <1>2, <1>3, <1>4, <1>5, FinishPreserves

LEMMA FailPreserves ==
  ASSUME IInv, NEW p \in Procs, Fail(p)
  PROVE  IInv'
<1> USE DEF Fail
<1>1. meta' \in Stamps /\ meta' >= meta /\ (meta' = NoTable <=> infra' = "none")
  BY DEF IInv, TypeOK, Stamps, NoTable
<1>2. StampMatchesLayout' /\ ReadyIsStamped' /\ ready' \subseteq Procs
  BY DEF IInv, TypeOK, StampMatchesLayout, ReadyIsStamped
<1>. QED BY <1>1, <1>2, FinishPreserves

------------------------------------------------------------------------------
(* The theorems.                                                           *)

LEMMA StutterPreserves == IInv /\ UNCHANGED vars => IInv'
BY OpFrame DEF IInv, vars, TypeOK, LockHeld, Quiesced, SnapshotsAge, AcknowledgedRowsSurvive,
               StampMatchesLayout, ReadyIsStamped

LEMMA NextPreserves == IInv /\ Next => IInv'
<1> SUFFICES ASSUME IInv, Next PROVE IInv'
  OBVIOUS
<1>1. CASE CreateSchema
  BY <1>1, CreateSchemaPreserves
<1>2. CASE LaterBuild
  BY <1>2, LaterBuildPreserves
<1>3. ASSUME NEW layout \in {"legacy", "v3", "drifted"}, Alter(layout) PROVE IInv'
  BY <1>3, AlterPreserves
<1>4. ASSUME NEW w \in Writers,
             WriterCommit(w) \/ WriterAbort(w) \/ \E c \in Changes : WriterBegin(w, c)
      PROVE  IInv'
  BY <1>4, WriterCommitPreserves, WriterAbortPreserves, WriterBeginPreserves
<1>5. ASSUME NEW p \in Procs, Proc(p) PROVE IInv'
  BY <1>5, BeginPreserves, LockPreserves, ReadyPreserves, ProvisionPreserves, AdoptPreserves,
     PreparePreserves, MigratePreserves, FailPreserves DEF Proc
<1>. QED BY <1>1, <1>2, <1>3, <1>4, <1>5 DEF Next

\* The inductive invariant holds in every reachable state of the schema authority: the
\* tables are held by the process that migrates, nobody writes meanwhile, and a snapshot
\* that was attested is still true of an untampered catalog when its stamp is written.
THEOREM SchemaCorrect == Spec => []IInv
<1>1. IInv /\ [Next]_vars => IInv'
  BY NextPreserves, StutterPreserves
<1>. QED BY InitIInv, <1>1, PTL DEF Spec

\* Every variable of the schema authority stays in its type.
THEOREM SchemaTyped == Spec => []TypeOK
<1>1. IInv => TypeOK
  BY DEF IInv
<1>. QED BY SchemaCorrect, <1>1, PTL

\* No row whose commit a legacy writer saw is lost by the migration that swaps the tables
\* of the pair authority.
THEOREM RowsSurvive == Spec => []AcknowledgedRowsSurvive
<1>1. IInv => AcknowledgedRowsSurvive
  BY DEF IInv
<1>. QED BY SchemaCorrect, <1>1, PTL

\* provisionSchemaVersion, adoptCurrentSchemaVersion and the migration stamp this build's
\* version on this build's layout only.
THEOREM StampOnLayout == Spec => []StampMatchesLayout
<1>1. IInv => StampMatchesLayout
  BY DEF IInv
<1>. QED BY SchemaCorrect, <1>1, PTL

\* A readiness token is held only on a database stamped for this build or a later one.
THEOREM ReadyStamped == Spec => []ReadyIsStamped
<1>1. IInv => ReadyIsStamped
  BY DEF IInv
<1>. QED BY SchemaCorrect, <1>1, PTL

LEMMA NextForward == IInv /\ Next => meta' >= meta
<1> SUFFICES ASSUME IInv, Next PROVE meta' >= meta
  OBVIOUS
<1>1. meta \in Stamps
  BY DEF IInv, TypeOK
<1> USE <1>1 DEF Stamps, NoTable, Unstamped, Current
<1>2. CASE UNCHANGED meta
  BY <1>2
<1>3. CASE CreateSchema
  BY <1>3 DEF CreateSchema, IInv, TypeOK
<1>4. CASE LaterBuild
  BY <1>4 DEF LaterBuild
<1>5. ASSUME NEW p \in Procs, Provision(p) \/ Adopt(p) PROVE meta' >= meta
  BY <1>5 DEF Provision, Adopt
<1>6. ASSUME NEW p \in Procs, Prepare(p) PROVE meta' >= meta
  BY <1>6 DEF Prepare, IInv, TypeOK
<1>7. ASSUME NEW p \in Procs, Migrate(p) PROVE meta' >= meta
  BY <1>7 DEF Migrate
<1>8. ASSUME NEW layout \in {"legacy", "v3", "drifted"}, Alter(layout) PROVE UNCHANGED meta
  BY <1>8 DEF Alter
<1>9. ASSUME NEW w \in Writers,
             WriterCommit(w) \/ WriterAbort(w) \/ \E c \in Changes : WriterBegin(w, c)
      PROVE  UNCHANGED meta
  BY <1>9 DEF WriterCommit, WriterAbort, WriterBegin
<1>10. ASSUME NEW p \in Procs,
              \/ \E kind \in {"ready", "provision", "adopt"} : Begin(p, kind)
              \/ \E kind \in {"prepare", "migrate"} : Lock(p, kind)
              \/ Ready(p)
              \/ Fail(p)
       PROVE  UNCHANGED meta
  BY <1>10 DEF Begin, Lock, Ready, Fail
<1>. QED BY <1>2, <1>3, <1>4, <1>5, <1>6, <1>7, <1>8, <1>9, <1>10 DEF Next, Proc

\* The version in ha_outbox_meta only moves forward, whichever attestations, migrations and
\* later builds race.
THEOREM StampForward == Spec => NoDowngrade
<1>1. IInv /\ [Next]_vars => [meta' >= meta]_vars
  BY NextForward
<1>. QED BY SchemaCorrect, <1>1, PTL DEF Spec, NoDowngrade

------------------------------------------------------------------------------
(* The witness of the Redis generations.                                   *)

States == Checkpoint!State
Mirroring(c) == call[c].pc = "mirror"

\* Generation s is one that the witness of its epoch, where there is one, has counted.
Counted(s) ==
  /\ s.epoch \in used
  /\ witness # None /\ witness.epoch = s.epoch => s.sequence <= witness.sequence

\* What a caller goes by is a state that Redis was in.
ViewsWereMirrored ==
  /\ redis \in snapshots
  /\ \A c \in Callers :
       /\ call[c].pc \in {"check", "advance"} => call[c].view \in snapshots
       /\ call[c].pc = "advance" => call[c].view.sequence < MaxSequence

\* Redis never got ahead of the witness: not of the present one, and not in an epoch
\* that is still to be provisioned.
SnapshotsCounted ==
  /\ witness # None => witness.epoch \in used
  /\ \A s \in snapshots : s.epoch \notin used => s.sequence = 0
  /\ \A s \in snapshots :
       witness # None /\ witness.epoch = s.epoch => s.sequence <= witness.sequence

\* A generation on its way to Redis is counted, and ahead of everything Redis has been.
MirrorsAhead ==
  \A c \in Callers : Mirroring(c) =>
    /\ Counted(call[c].view)
    /\ call[c].view.sequence > 0
    /\ \A s \in snapshots : s.epoch = call[c].view.epoch => s.sequence < call[c].view.sequence

ReservedCounted ==
  \A s \in States : reserved[s] <= 1 /\ (reserved[s] > 0 => Counted(s))

OneMirror ==
  \A c, d \in Callers :
    Mirroring(c) /\ Mirroring(d) /\ call[c].view.epoch = call[d].view.epoch => c = d

CheckpointInv ==
  /\ Checkpoint!TypeOK
  /\ ViewsWereMirrored
  /\ SnapshotsCounted
  /\ MirrorsAhead
  /\ ReservedCounted
  /\ OneMirror

LEMMA StateFields ==
  ASSUME NEW s \in States
  PROVE  s.epoch \in Epochs /\ s.sequence \in Nat /\ s.sequence <= MaxSequence
BY CheckpointAssumption DEF States, Checkpoint!State

LEMMA StatesEqual ==
  ASSUME NEW s \in States, NEW t \in States, s.epoch = t.epoch, s.sequence = t.sequence
  PROVE  s = t
BY DEF States, Checkpoint!State

\* What the type invariant says of the records that the steps read.
LEMMA CheckpointTypes ==
  ASSUME Checkpoint!TypeOK
  PROVE  /\ snapshots \subseteq States /\ redis \in States
         /\ witness # None => witness \in States
         /\ \A c \in Callers : call[c].pc \in {"check", "advance", "mirror"} => call[c].view \in States
         /\ \A c \in Callers : call[c] # Checkpoint!Idle => call[c].pc \in {"check", "advance", "mirror"}
BY DEF Checkpoint!TypeOK, States, Checkpoint!Idle

\* A step that leaves the witness and the used epochs alone keeps what is counted.
LEMMA CountedFrame ==
  ASSUME UNCHANGED <<witness, used>>, NEW s
  PROVE  Counted(s)' <=> Counted(s)
BY DEF Counted

LEMMA CheckpointInit == Checkpoint!Init => CheckpointInv
<1> SUFFICES ASSUME Checkpoint!Init PROVE CheckpointInv
  OBVIOUS
<1>1. redis \in States /\ redis.sequence = 0
  BY CheckpointAssumption DEF Checkpoint!Init, States, Checkpoint!State
<1>2. \A c \in Callers : call[c].pc = "idle"
  BY DEF Checkpoint!Init, Checkpoint!Idle
<1>3. Checkpoint!TypeOK
  BY <1>1 DEF Checkpoint!Init, Checkpoint!TypeOK, States, Checkpoint!Idle
<1>4. \A s \in States : reserved[s] = 0
  BY DEF Checkpoint!Init, States
<1>. QED
  BY <1>1, <1>2, <1>3, <1>4
     DEF Checkpoint!Init, CheckpointInv, ViewsWereMirrored, SnapshotsCounted, MirrorsAhead,
         ReservedCounted, OneMirror, Mirroring

\* A caller that neither advances nor mirrors: it reads, checks, or gives up.
LEMMA CallerStep ==
  ASSUME CheckpointInv, NEW c \in Callers,
         Checkpoint!View(c) \/ Checkpoint!Check(c) \/ Checkpoint!Conflict(c) \/ Checkpoint!Crash(c)
  PROVE  CheckpointInv'
<1>1. UNCHANGED <<witness, redis, snapshots, used, reserved>>
  BY DEF Checkpoint!View, Checkpoint!Check, Checkpoint!Conflict, Checkpoint!Crash
<1>2. PICK new : call' = [call EXCEPT ![c] = new]
  BY DEF Checkpoint!View, Checkpoint!Check, Checkpoint!Conflict, Checkpoint!Crash
<1>3. /\ new = Checkpoint!Idle \/ new \in [pc : {"check", "advance"}, view : snapshots]
      /\ new.pc = "advance" => new.view.sequence < MaxSequence
  <2>1. CASE Checkpoint!View(c)
    <3>1. call' = [call EXCEPT ![c] = [pc |-> "check", view |-> redis]]
      BY <2>1 DEF Checkpoint!View
    <3>2. new = [pc |-> "check", view |-> redis]
      BY <1>2, <3>1 DEF CheckpointInv, Checkpoint!TypeOK
    <3>. QED BY <3>2 DEF CheckpointInv, ViewsWereMirrored
  <2>2. CASE Checkpoint!Check(c)
    <3>1. /\ call[c].pc = "check" /\ call[c].view \in snapshots
          /\ call[c] \in [pc : {"check", "advance", "mirror"}, view : States]
      BY <2>2 DEF Checkpoint!Check, CheckpointInv, Checkpoint!TypeOK, ViewsWereMirrored, States,
                  Checkpoint!Idle
    <3>2. call' = [call EXCEPT ![c] =
                     IF Checkpoint!Verdict(call[c].view) = "ok" /\ Checkpoint!BelowCeiling(call[c].view)
                     THEN [call[c] EXCEPT !.pc = "advance"] ELSE Checkpoint!Idle]
      BY <2>2 DEF Checkpoint!Check
    <3>3. \/ new = Checkpoint!Idle
          \/ new = [call[c] EXCEPT !.pc = "advance"] /\ call[c].view.sequence < MaxSequence
      BY <1>2, <3>2 DEF CheckpointInv, Checkpoint!TypeOK, Checkpoint!BelowCeiling
    <3>. QED BY <3>1, <3>3 DEF Checkpoint!Idle
  <2>3. CASE Checkpoint!Conflict(c) \/ Checkpoint!Crash(c)
    <3>1. call' = [call EXCEPT ![c] = Checkpoint!Idle]
      BY <2>3 DEF Checkpoint!Conflict, Checkpoint!Crash
    <3>2. new = Checkpoint!Idle
      BY <1>2, <3>1 DEF CheckpointInv, Checkpoint!TypeOK
    <3>. QED BY <3>2 DEF Checkpoint!Idle
  <2>. QED BY <2>1, <2>2, <2>3
<1>4. /\ call'[c] = new /\ new.pc # "mirror" /\ (new.pc \in {"check", "advance"} => new.view \in snapshots)
      /\ \A d \in Callers : d # c => call'[d] = call[d]
  BY <1>2, <1>3 DEF CheckpointInv, Checkpoint!TypeOK, Checkpoint!Idle
<1>5. Checkpoint!TypeOK'
  <2>1. new \in {Checkpoint!Idle} \cup [pc : {"check", "advance", "mirror"}, view : Checkpoint!State]
    BY <1>3 DEF CheckpointInv, Checkpoint!TypeOK
  <2>. QED BY <1>1, <1>2, <2>1 DEF CheckpointInv, Checkpoint!TypeOK
<1>6. ViewsWereMirrored'
  BY <1>1, <1>3, <1>4 DEF CheckpointInv, ViewsWereMirrored
<1>7. \A d \in Callers : Mirroring(d)' => d # c /\ Mirroring(d) /\ call'[d] = call[d]
  BY <1>4 DEF Mirroring
<1>8. MirrorsAhead' /\ OneMirror'
  BY <1>1, <1>7, CountedFrame DEF CheckpointInv, MirrorsAhead, OneMirror
<1>. QED BY <1>1, <1>5, <1>6, <1>8, CountedFrame DEF CheckpointInv, SnapshotsCounted, ReservedCounted

\* compareAndAdvance: the witness is where the caller saw Redis, so nobody of this epoch
\* is on the way to Redis and the next generation was never handed out.
LEMMA AdvanceStep ==
  ASSUME CheckpointInv, NEW c \in Callers, Checkpoint!Advance(c)
  PROVE  CheckpointInv'
<1> DEFINE view == call[c].view
           next == Checkpoint!Successor(view)
<1>1. /\ call[c].pc = "advance" /\ witness = view /\ witness' = next
      /\ UNCHANGED <<redis, snapshots, used>>
      /\ \/ /\ call' = [call EXCEPT ![c] = [pc |-> "mirror", view |-> next]]
            /\ reserved' = [reserved EXCEPT ![next] = @ + 1]
         \/ /\ call' = [call EXCEPT ![c] = Checkpoint!Idle]
            /\ UNCHANGED reserved
  BY DEF Checkpoint!Advance, Checkpoint!Compare
<1>2. view \in snapshots /\ view \in States /\ view.sequence < MaxSequence
  BY <1>1, CheckpointTypes DEF CheckpointInv, ViewsWereMirrored
<1>3. view.epoch \in Epochs /\ view.sequence \in Nat
  BY <1>2, StateFields
<1>4. /\ next = [epoch |-> view.epoch, sequence |-> view.sequence + 1]
      /\ next \in States
  BY <1>2, <1>3, CheckpointAssumption DEF Checkpoint!Successor, States, Checkpoint!State
<1>5. next.epoch = view.epoch /\ next.sequence = view.sequence + 1 /\ next # None /\ view # None
  BY <1>2, <1>4, CheckpointAssumption DEF States
<1> HIDE DEF next
<1>6. view.epoch \in used
  BY <1>1, <1>5 DEF CheckpointInv, SnapshotsCounted
<1>7. \A s \in States : Counted(s) => Counted(s)'
  <2> SUFFICES ASSUME NEW s \in States, Counted(s), s.epoch = view.epoch
               PROVE  s.sequence <= next.sequence
    BY <1>1, <1>5 DEF Counted
  <2>. QED BY <1>1, <1>3, <1>5, StateFields DEF Counted
<1>8. reserved[next] = 0
  <2>1. reserved[next] \in Nat
    BY <1>4 DEF CheckpointInv, Checkpoint!TypeOK, States
  <2>2. ~Counted(next)
    BY <1>1, <1>3, <1>5 DEF Counted
  <2>. QED BY <1>4, <2>1, <2>2 DEF CheckpointInv, ReservedCounted
<1>9. /\ \A d \in Callers : d # c => call'[d] = call[d]
      /\ call'[c] = [pc |-> "mirror", view |-> next] \/ call'[c] = Checkpoint!Idle
      /\ call' \in [Callers -> {Checkpoint!Idle} \cup [pc : {"check", "advance", "mirror"}, view : Checkpoint!State]]
  <2>1. [pc |-> "mirror", view |-> next] \in [pc : {"check", "advance", "mirror"}, view : Checkpoint!State]
    BY <1>4 DEF States
  <2>. QED BY <1>1, <2>1 DEF CheckpointInv, Checkpoint!TypeOK
<1>10. /\ reserved' \in [States -> Nat]
       /\ \A s \in States : reserved'[s] = reserved[s] \/ (s = next /\ reserved'[s] = 1)
  BY <1>1, <1>4, <1>8 DEF CheckpointInv, Checkpoint!TypeOK, States
<1>11. Checkpoint!TypeOK'
  BY <1>1, <1>4, <1>9, <1>10 DEF CheckpointInv, Checkpoint!TypeOK, States
<1>12. /\ Mirroring(c)' => call'[c].view = next
       /\ \A d \in Callers : d # c => (Mirroring(d)' <=> Mirroring(d))
       /\ call'[c].pc \notin {"check", "advance"}
  BY <1>9 DEF Mirroring, Checkpoint!Idle
<1>13. ViewsWereMirrored'
  BY <1>1, <1>9, <1>12 DEF CheckpointInv, ViewsWereMirrored
<1>14. \A s \in snapshots : s.epoch = view.epoch => s.sequence < next.sequence
  <2> SUFFICES ASSUME NEW s \in snapshots, s.epoch = view.epoch PROVE s.sequence < next.sequence
    OBVIOUS
  <2>1. s.sequence \in Nat /\ s.sequence <= view.sequence
    BY <1>1, <1>5, CheckpointTypes, StateFields DEF CheckpointInv, SnapshotsCounted
  <2>. QED BY <1>3, <1>5, <2>1
<1>15. SnapshotsCounted'
  <2>1. \A s \in snapshots : s.sequence \in Nat
    BY CheckpointTypes, StateFields DEF CheckpointInv
  <2>. QED BY <1>1, <1>3, <1>5, <1>6, <1>14, <2>1 DEF CheckpointInv, SnapshotsCounted
<1>16. \A t \in States : t = next => Counted(t)'
  BY <1>1, <1>3, <1>5, <1>6 DEF Counted
<1>17. \A d \in Callers : Mirroring(d) => call[d].view.epoch # view.epoch
  <2> SUFFICES ASSUME NEW d \in Callers, Mirroring(d), call[d].view.epoch = view.epoch PROVE FALSE
    OBVIOUS
  <2>1. call[d].view \in States
    BY CheckpointTypes DEF CheckpointInv, Mirroring
  <2>2. view.sequence < call[d].view.sequence
    BY <1>2 DEF CheckpointInv, MirrorsAhead
  <2>3. call[d].view.sequence <= view.sequence
    BY <1>1, <1>5 DEF CheckpointInv, MirrorsAhead, Counted
  <2>. QED BY <1>3, <2>1, <2>2, <2>3, StateFields
<1>18. MirrorsAhead'
  <2> SUFFICES ASSUME NEW d \in Callers, Mirroring(d)'
               PROVE  /\ call'[d].view.epoch \in used
                      /\ witness'.epoch = call'[d].view.epoch => call'[d].view.sequence <= witness'.sequence
                      /\ call'[d].view.sequence > 0
                      /\ \A s \in snapshots : s.epoch = call'[d].view.epoch => s.sequence < call'[d].view.sequence
    BY <1>1 DEF MirrorsAhead, Counted
  <2>1. CASE d = c
    BY <1>1, <1>3, <1>5, <1>6, <1>12, <1>14, <2>1
  <2>2. CASE d # c
    <3>1. Mirroring(d) /\ call'[d] = call[d]
      BY <1>9, <1>12, <2>2
    <3>2. call[d].view \in States
      BY <3>1, CheckpointTypes DEF CheckpointInv, Mirroring
    <3>3. Counted(call[d].view) /\ call[d].view.epoch # witness'.epoch
      BY <1>1, <1>5, <1>17, <3>1 DEF CheckpointInv, MirrorsAhead
    <3>. QED BY <1>1, <3>1, <3>3 DEF CheckpointInv, MirrorsAhead, Counted
  <2>. QED BY <2>1, <2>2
<1>19. ReservedCounted'
  <2>1. \A s \in States : reserved[s] <= 1 /\ (reserved[s] > 0 => Counted(s))
    BY DEF CheckpointInv, ReservedCounted
  <2>2. ASSUME NEW s \in States PROVE reserved'[s] <= 1 /\ (reserved'[s] > 0 => Counted(s)')
    <3>1. CASE reserved'[s] = reserved[s]
      BY <1>7, <2>1, <3>1
    <3>2. CASE s = next /\ reserved'[s] = 1
      BY <1>16, <3>2
    <3>. QED BY <1>10, <3>1, <3>2
  <2>3. States' = States
    BY DEF States, Checkpoint!State
  <2>. QED BY <2>2, <2>3 DEF ReservedCounted
<1>20. OneMirror'
  <2> SUFFICES ASSUME NEW d \in Callers, NEW e \in Callers, Mirroring(d)', Mirroring(e)',
                      call'[d].view.epoch = call'[e].view.epoch, d # e
               PROVE  FALSE
    BY DEF OneMirror
  <2>1. CASE d # c /\ e # c
    BY <1>9, <1>12, <2>1 DEF CheckpointInv, OneMirror
  <2>2. CASE d = c \/ e = c
    BY <1>5, <1>9, <1>12, <1>17, <2>2
  <2>. QED BY <2>1, <2>2
<1>. QED BY <1>11, <1>13, <1>15, <1>18, <1>19, <1>20 DEF CheckpointInv

\* A state is written to Redis that the witness has counted and that is behind every
\* generation of its epoch that is still on the way.
LEMMA SetRedisStep ==
  ASSUME CheckpointInv, NEW s \in States, Checkpoint!SetRedis(s), UNCHANGED <<witness, used, reserved>>,
         Counted(s),
         call' \in [Callers -> {Checkpoint!Idle} \cup [pc : {"check", "advance", "mirror"}, view : Checkpoint!State]],
         \A d \in Callers : call'[d] = call[d] \/ call'[d] = Checkpoint!Idle,
         \A d \in Callers : Mirroring(d)' /\ call[d].view.epoch = s.epoch => s.sequence < call[d].view.sequence
  PROVE  CheckpointInv'
<1>1. redis' = s /\ snapshots' = snapshots \cup {s}
  BY DEF Checkpoint!SetRedis
<1>2. Checkpoint!TypeOK'
  BY <1>1 DEF CheckpointInv, Checkpoint!TypeOK, States
<1>3. \A d \in Callers : call'[d].pc # "idle" => call'[d] = call[d]
  BY DEF Checkpoint!Idle
<1>4. ViewsWereMirrored'
  BY <1>1, <1>3 DEF CheckpointInv, ViewsWereMirrored
<1>5. SnapshotsCounted'
  BY <1>1 DEF CheckpointInv, SnapshotsCounted, Counted
<1>6. MirrorsAhead' /\ OneMirror'
  BY <1>1, <1>3, CountedFrame DEF CheckpointInv, MirrorsAhead, OneMirror, Mirroring
<1>7. ReservedCounted'
  BY CountedFrame DEF CheckpointInv, ReservedCounted, States
<1>. QED BY <1>2, <1>4, <1>5, <1>6, <1>7 DEF CheckpointInv

LEMMA CheckpointNext == CheckpointInv /\ [Checkpoint!Next]_(Checkpoint!vars) => CheckpointInv'
<1> SUFFICES ASSUME CheckpointInv, [Checkpoint!Next]_(Checkpoint!vars) PROVE CheckpointInv'
  OBVIOUS
<1>1. ASSUME NEW e \in Epochs, Checkpoint!Provision(e) PROVE CheckpointInv'
  <2>1. /\ e \notin used /\ witness = None /\ witness' = [epoch |-> e, sequence |-> 0]
        /\ used' = used \cup {e} /\ UNCHANGED <<redis, call, snapshots, reserved>>
    BY <1>1 DEF Checkpoint!Provision
  <2>2. witness' \in States /\ witness'.epoch = e /\ witness'.sequence = 0
    BY <2>1, CheckpointAssumption DEF States, Checkpoint!State
  <2>3. Checkpoint!TypeOK'
    BY <2>1, <2>2 DEF CheckpointInv, Checkpoint!TypeOK, States
  <2>4. \A s \in States : Counted(s) => Counted(s)'
    BY <2>1, <2>2 DEF Counted
  <2>5. SnapshotsCounted'
    BY <2>1, <2>2 DEF CheckpointInv, SnapshotsCounted
  <2>6. MirrorsAhead'
    <3>1. \A c \in Callers : Mirroring(c) => call[c].view \in States
      BY CheckpointTypes DEF CheckpointInv, Mirroring
    <3>. QED BY <2>1, <2>4, <3>1 DEF CheckpointInv, MirrorsAhead, Mirroring
  <2>7. ReservedCounted'
    BY <2>1, <2>4 DEF CheckpointInv, ReservedCounted, States
  <2>. QED BY <2>1, <2>3, <2>5, <2>6, <2>7 DEF CheckpointInv, ViewsWereMirrored, OneMirror, Mirroring
<1>2. ASSUME NEW c \in Callers,
             Checkpoint!View(c) \/ Checkpoint!Check(c) \/ Checkpoint!Conflict(c) \/ Checkpoint!Crash(c)
      PROVE  CheckpointInv'
  BY <1>2, CallerStep
<1>3. ASSUME NEW c \in Callers, Checkpoint!Advance(c) PROVE CheckpointInv'
  BY <1>3, AdvanceStep
<1>4. ASSUME NEW c \in Callers, Checkpoint!Mirror(c) PROVE CheckpointInv'
  <2>1. /\ call[c].pc = "mirror" /\ Checkpoint!SetRedis(call[c].view)
        /\ call' = [call EXCEPT ![c] = Checkpoint!Idle] /\ UNCHANGED <<witness, used, reserved>>
    BY <1>4 DEF Checkpoint!Mirror
  <2>2. call[c].view \in States /\ Counted(call[c].view)
    BY <2>1, CheckpointTypes DEF CheckpointInv, MirrorsAhead, Mirroring
  <2>3. /\ call' \in [Callers -> {Checkpoint!Idle} \cup [pc : {"check", "advance", "mirror"}, view : Checkpoint!State]]
        /\ call'[c] = Checkpoint!Idle
        /\ \A d \in Callers : d # c => call'[d] = call[d]
    BY <2>1 DEF CheckpointInv, Checkpoint!TypeOK
  <2>4. \A d \in Callers : Mirroring(d)' => d # c /\ call[d].view.epoch # call[c].view.epoch
    BY <2>1, <2>3 DEF CheckpointInv, OneMirror, Mirroring, Checkpoint!Idle
  <2>. QED BY <2>1, <2>2, <2>3, <2>4, SetRedisStep
<1>5. ASSUME NEW s \in snapshots, Checkpoint!Restore(s) PROVE CheckpointInv'
  <2>1. redis' = s /\ UNCHANGED <<witness, call, snapshots, used, reserved>>
    BY <1>5 DEF Checkpoint!Restore
  <2>2. s \in States
    BY CheckpointTypes DEF CheckpointInv
  <2>3. Checkpoint!TypeOK'
    BY <2>1, <2>2 DEF CheckpointInv, Checkpoint!TypeOK, States
  <2>. QED BY <2>1, <2>3, CountedFrame
           DEF CheckpointInv, ViewsWereMirrored, SnapshotsCounted, MirrorsAhead, ReservedCounted,
               OneMirror, Mirroring, States
<1>6. CASE Checkpoint!Resync
  <2> DEFINE s == [epoch |-> witness.epoch, sequence |-> 0]
  <2>1. witness # None /\ Checkpoint!SetRedis(s) /\ UNCHANGED <<witness, call, used, reserved>>
    BY <1>6 DEF Checkpoint!Resync
  <2>2. witness \in States /\ witness.epoch \in used
    BY <2>1, CheckpointTypes DEF CheckpointInv, SnapshotsCounted
  <2>3. s \in States /\ s.epoch = witness.epoch /\ s.sequence = 0
    BY <2>2, CheckpointAssumption DEF States, Checkpoint!State
  <2> HIDE DEF s
  <2>4. Counted(s)
    BY <2>2, <2>3, StateFields DEF Counted
  <2>5. \A d \in Callers : Mirroring(d)' => s.sequence < call[d].view.sequence
    BY <2>1, <2>3 DEF CheckpointInv, MirrorsAhead, Mirroring
  <2>6. call' \in [Callers -> {Checkpoint!Idle} \cup [pc : {"check", "advance", "mirror"}, view : Checkpoint!State]]
    BY <2>1 DEF CheckpointInv, Checkpoint!TypeOK
  <2>. QED BY <2>1, <2>3, <2>4, <2>5, <2>6, SetRedisStep
<1>7. CASE Checkpoint!LoseWitness
  <2>1. witness' = None /\ UNCHANGED <<redis, call, snapshots, used, reserved>>
    BY <1>7 DEF Checkpoint!LoseWitness
  <2>2. \A s : Counted(s) => Counted(s)'
    BY <2>1 DEF Counted
  <2>3. Checkpoint!TypeOK'
    BY <2>1 DEF CheckpointInv, Checkpoint!TypeOK
  <2>. QED BY <2>1, <2>2, <2>3
           DEF CheckpointInv, ViewsWereMirrored, SnapshotsCounted, MirrorsAhead, ReservedCounted,
               OneMirror, Mirroring, States
<1>8. CASE UNCHANGED Checkpoint!vars
  <2>1. UNCHANGED <<witness, redis, call, snapshots, used, reserved>>
    BY <1>8 DEF Checkpoint!vars
  <2>. QED BY <2>1, CountedFrame
           DEF CheckpointInv, Checkpoint!TypeOK, ViewsWereMirrored, SnapshotsCounted, MirrorsAhead,
               ReservedCounted, OneMirror, Mirroring, States
<1>. QED BY <1>1, <1>2, <1>3, <1>4, <1>5, <1>6, <1>7, <1>8 DEF Checkpoint!Next

\* RollbackCheckpointGuard.reserve hands out a generation at most once, across lost
\* answers, restored snapshots of Redis and a deleted witness row; Redis is never ahead
\* of the witness, and no two mirrors of an epoch are on their way.
THEOREM GenerationsReservedOnce == Checkpoint!Spec => []ReservedOnce
<1>1. CheckpointInv => ReservedOnce
  BY DEF CheckpointInv, ViewsWereMirrored, SnapshotsCounted, ReservedCounted, OneMirror, Mirroring,
         ReservedOnce, Checkpoint!ReservedOnce, States
<1>. QED BY <1>1, CheckpointInit, CheckpointNext, PTL DEF Checkpoint!Spec

==============================================================================

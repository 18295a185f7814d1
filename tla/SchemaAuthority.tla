--------------------------- MODULE SchemaAuthority ---------------------------
(***************************************************************************)
(* Who may call the database ready (ha-outbox-pg.ts): attestation of the   *)
(* live catalog, the version stamp, the readiness tokens, and the one-time *)
(* migration of a legacy installation while its old writers still run.     *)
(*                                                                         *)
(* The catalog is abstracted to the layout of two groups of tables: the    *)
(* outbox infrastructure and the pair authority.  Everything the manifest  *)
(* digests (columns, constraints, indexes, triggers, policies) is the      *)
(* difference between "v3" and the rest: "legacy" has exactly the known    *)
(* columns, "drifted" has others or an unsafe posture.                     *)
(***************************************************************************)
EXTENDS Integers, FiniteSets

CONSTANTS
  Procs,     \* processes that attest, stamp or migrate
  Writers,   \* processes of the standalone PairStore
  Ids,       \* primary keys of bpc_pairs and bpc_pending
  Rows,      \* what a row may hold
  BadRows,   \* rows that a CHECK of the v3 layout refuses
  None

\* A statement of the PairStore: a row is put at a key, over an older one if need be
\* (set, setPending), or deleted (delete, deletePending).
Changes == [id : Ids, row : Rows \cup {None}]

ASSUME SchemaAssumption ==
  /\ BadRows \subseteq Rows
  /\ None \notin Procs \cup Rows \cup Changes

VARIABLES
  infra,     \* layout of the outbox tables
  pairs,     \* layout of bpc_pairs and bpc_pending
  meta,      \* the version in ha_outbox_meta, NoTable or Unstamped
  table,     \* the committed row at every key of the pair authority, or None
  wtx,       \* per writer: the change of its open transaction
  lock,      \* the process that holds both tables exclusively
  op,        \* per process: the transaction it runs
  ready,     \* processes that hold a readiness token
  acked,     \* history: what the acknowledged commits left at every key
  tampered   \* history: a privileged role left a layout other than v3

vars == <<infra, pairs, meta, table, wtx, lock, op, ready, acked, tampered>>

NoTable == 0     \* ha_outbox_meta does not exist
Unstamped == 1   \* it has no row
Current == 3     \* HA_OUTBOX_SCHEMA_VERSION

\* 2 is the stamp of a prepared legacy installation, 4 that of a later build.
Stamps == NoTable..4

Layouts == {"none", "legacy", "v3", "drifted"}

Catalog == [infra : {"none", "v3"}, pairs : Layouts, meta : Stamps]

Tables == [Ids -> Rows \cup {None}]

Idle == [kind |-> "idle"]

Op == [kind : {"ready", "provision", "adopt"}, snap : Catalog]
        \cup [kind : {"prepare", "migrate"}, rows : Tables]

TypeOK ==
  /\ infra \in {"none", "v3"}
  /\ pairs \in Layouts
  /\ meta \in Stamps
  /\ meta = NoTable <=> infra = "none"
  /\ table \in Tables
  /\ wtx \in [Writers -> Changes \cup {None}]
  /\ lock \in Procs \cup {None}
  /\ op \in [Procs -> Op \cup {Idle}]
  /\ ready \subseteq Procs
  /\ acked \in Tables
  /\ tampered \in BOOLEAN

\* An empty database, or a standalone PairStore.
Init ==
  /\ infra = "none" /\ meta = NoTable
  /\ pairs \in {"none", "legacy"}
  /\ table = [i \in Ids |-> None]
  /\ wtx = [w \in Writers |-> None]
  /\ lock = None
  /\ op = [p \in Procs |-> Idle]
  /\ ready = {}
  /\ acked = table
  /\ tampered = FALSE

\* Every row passes the checks of the v3 layout.
Valid(rows) == \A i \in Ids : rows[i] \notin BadRows

Live == [infra |-> infra, pairs |-> pairs, meta |-> meta]

------------------------------------------------------------------------------
(* The writers of a standalone PairStore, and whoever owns the DDL.        *)

WriterBegin(w, c) ==
  /\ wtx[w] = None
  /\ pairs # "none"
  /\ lock = None
  /\ wtx' = [wtx EXCEPT ![w] = c]
  /\ UNCHANGED <<infra, pairs, meta, table, lock, op, ready, acked, tampered>>

\* The checks of the v3 layout are enforced once it is in place.
WriterCommit(w) ==
  /\ wtx[w] # None
  /\ pairs = "v3" => wtx[w].row \notin BadRows
  /\ table' = [table EXCEPT ![wtx[w].id] = wtx[w].row]
  /\ acked' = [acked EXCEPT ![wtx[w].id] = wtx[w].row]
  /\ wtx' = [wtx EXCEPT ![w] = None]
  /\ UNCHANGED <<infra, pairs, meta, lock, op, ready, tampered>>

WriterAbort(w) ==
  /\ wtx[w] # None
  /\ wtx' = [wtx EXCEPT ![w] = None]
  /\ UNCHANGED <<infra, pairs, meta, table, lock, op, ready, acked, tampered>>

\* HA_OUTBOX_PG_SCHEMA is executed: CREATE TABLE IF NOT EXISTS, and no stamp.
CreateSchema ==
  /\ lock = None
  /\ infra = "none"
  /\ infra' = "v3"
  /\ meta' = Unstamped
  /\ pairs' = IF pairs = "none" THEN "v3" ELSE pairs
  /\ UNCHANGED <<table, wtx, lock, op, ready, acked, tampered>>

\* A role with DDL rights alters the pair tables; the stamp is left as it is.
Alter(layout) ==
  /\ lock = None
  /\ \A w \in Writers : wtx[w] = None
  /\ pairs # "none"
  /\ pairs' = layout
  /\ layout = "v3" => Valid(table)
  /\ tampered' = (tampered \/ layout # "v3")
  /\ UNCHANGED <<infra, meta, table, wtx, lock, op, ready, acked>>

\* A later build stamps its own version.
LaterBuild ==
  /\ meta = Current
  /\ meta' = Current + 1
  /\ UNCHANGED <<infra, pairs, table, wtx, lock, op, ready, acked, tampered>>

------------------------------------------------------------------------------
(* Attestation: assertSchemaReady, provisionSchemaVersion,                 *)
(* adoptCurrentSchemaVersion.  One SERIALIZABLE transaction each: what it  *)
(* reads is its snapshot; a write to a stamp that changed since is a       *)
(* serialization failure or a unique violation.                            *)

Begin(p, kind) ==
  /\ op[p] = Idle
  /\ op' = [op EXCEPT ![p] = [kind |-> kind, snap |-> Live]]
  /\ UNCHANGED <<infra, pairs, meta, table, wtx, lock, ready, acked, tampered>>

\* attestSchema.
Attested(s) == s.infra = "v3" /\ s.pairs = "v3"

\* The transaction commits and, unless the answer is lost, the token is minted.
Mint(p) ==
  /\ op' = [op EXCEPT ![p] = Idle]
  /\ \/ ready' = ready \cup {p}
     \/ UNCHANGED ready

Ready(p) ==
  /\ op[p].kind = "ready"
  /\ Attested(op[p].snap)
  /\ op[p].snap.meta = Current
  /\ Mint(p)
  /\ UNCHANGED <<infra, pairs, meta, table, wtx, lock, acked, tampered>>

\* A fresh database is stamped; one that is at the current version is left alone.
Provision(p) ==
  /\ op[p].kind = "provision"
  /\ Attested(op[p].snap)
  /\ op[p].snap.meta \in {Unstamped, Current}
  /\ meta = op[p].snap.meta
  /\ meta' = Current
  /\ Mint(p)
  /\ UNCHANGED <<infra, pairs, table, wtx, lock, acked, tampered>>

\* Mutant: the catalog is not attested before the stamp is adopted.
AdoptUnattested(p) ==
  /\ op[p].kind = "adopt"
  /\ op[p].snap.meta \in Unstamped..Current
  /\ meta = op[p].snap.meta
  /\ meta' = Current
  /\ Mint(p)
  /\ UNCHANGED <<infra, pairs, table, wtx, lock, acked, tampered>>

\* An older stamp is moved forward; a later one is never moved back.
Adopt(p) ==
  /\ op[p].kind = "adopt"
  /\ Attested(op[p].snap)
  /\ op[p].snap.meta \in Unstamped..Current
  /\ meta = op[p].snap.meta
  /\ meta' = Current
  /\ Mint(p)
  /\ UNCHANGED <<infra, pairs, table, wtx, lock, acked, tampered>>

------------------------------------------------------------------------------
(* The migration.                                                          *)

\* Mutant: the snapshot is taken while writers still have transactions open.
LockLate(p, kind) ==
  /\ op[p] = Idle
  /\ lock = None
  /\ pairs # "none"
  /\ lock' = p
  /\ op' = [op EXCEPT ![p] = [kind |-> kind, rows |-> table]]
  /\ UNCHANGED <<infra, pairs, meta, table, wtx, ready, acked, tampered>>

\* transactionWithInitialExclusiveLocks: both tables are locked, which waits for
\* the writers, and only then is the snapshot taken.
Lock(p, kind) ==
  /\ op[p] = Idle
  /\ lock = None
  /\ pairs # "none"
  /\ \A w \in Writers : wtx[w] = None
  /\ lock' = p
  /\ op' = [op EXCEPT ![p] = [kind |-> kind, rows |-> table]]
  /\ UNCHANGED <<infra, pairs, meta, table, wtx, ready, acked, tampered>>

\* prepareLegacyPairAuthorityV2ForMigration: no outbox table may exist yet; they are
\* created and stamped as version 2.  Of the pair tables only the posture is looked at
\* (one that is unsafe is a Fail), so other columns than the known ones get that stamp.
Prepare(p) ==
  /\ op[p].kind = "prepare"
  /\ infra = "none"
  /\ infra' = "v3"
  /\ meta' = 2
  /\ lock' = None
  /\ op' = [op EXCEPT ![p] = Idle]
  /\ UNCHANGED <<pairs, table, wtx, ready, acked, tampered>>

\* migrateLegacyPairAuthorityToV3: the columns are exactly the known ones (so are those
\* of a v3 layout, which is rebuilt), the rows pass the checks of the staging tables, the
\* copies are swapped in, the result is attested and the stamp moves from 2 to 3, in one
\* transaction.
Migrate(p) ==
  /\ op[p].kind = "migrate"
  /\ meta = 2
  /\ pairs \in {"legacy", "v3"}
  /\ Valid(op[p].rows)
  /\ table' = op[p].rows
  /\ pairs' = "v3"
  /\ Attested([infra |-> infra, pairs |-> "v3"])
  /\ meta' = Current
  /\ lock' = None
  /\ Mint(p)
  /\ UNCHANGED <<infra, wtx, acked, tampered>>

\* Any check that throws, any statement that fails and a crash roll back.
Fail(p) ==
  /\ op[p] # Idle
  /\ op' = [op EXCEPT ![p] = Idle]
  /\ lock' = IF lock = p THEN None ELSE lock
  /\ UNCHANGED <<infra, pairs, meta, table, wtx, ready, acked, tampered>>

------------------------------------------------------------------------------

Proc(p) ==
  \/ \E kind \in {"ready", "provision", "adopt"} : Begin(p, kind)
  \/ \E kind \in {"prepare", "migrate"} : Lock(p, kind)
  \/ Ready(p) \/ Provision(p) \/ Adopt(p) \/ Prepare(p) \/ Migrate(p) \/ Fail(p)

Next ==
  \/ CreateSchema
  \/ LaterBuild
  \/ \E layout \in {"legacy", "v3", "drifted"} : Alter(layout)
  \/ \E w \in Writers : WriterCommit(w) \/ WriterAbort(w) \/ \E c \in Changes : WriterBegin(w, c)
  \/ \E p \in Procs : Proc(p)

Spec == Init /\ [][Next]_vars

------------------------------------------------------------------------------
(* Properties.                                                             *)

\* The migration loses no write: at every key the authority has what the last commit that
\* a legacy writer saw left there, before, during and after the tables are swapped under it.
\* No inserted or replaced row reverts and no deleted pair (a revoked one) comes back.
AcknowledgedRowsSurvive == table = acked

\* The stamp of this build is on the layout of this build, unless a role with DDL
\* rights changed the layout under it: no path labels a legacy, partial or mixed
\* layout as version 3.
StampMatchesLayout == meta = Current /\ ~tampered => infra = "v3" /\ pairs = "v3"

\* A process that holds a readiness token works on a database that is stamped for this
\* build or a later one, also when it attested long ago.
ReadyIsStamped == ready # {} => meta >= Current

\* The version only moves forward, whichever operations race.
NoDowngrade == [][meta' >= meta]_vars

==============================================================================

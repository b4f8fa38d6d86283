----------------------------- MODULE Migrations -----------------------------
(***************************************************************************)
(* Api replicas that start together: runMigrations on each of them, then   *)
(* listen.  Every replica works through the migration files of its image   *)
(* in name order, one transaction per file; nothing but Postgres keeps two *)
(* replicas apart.  A replica whose statement fails exits and is restarted *)
(* by its container.  During a rolling deployment the images differ: an    *)
(* older one ships fewer files.                                            *)
(***************************************************************************)
EXTENDS Naturals

CONSTANTS
    Replicas,       \* api replicas
    NumFiles,       \* migration files of the newest image, numbered in name order
    Shipped,        \* Shipped[r]: how many of them the image of r has
    MaxFaults       \* bound on lost connections and killed processes

Files == 1..NumFiles

ASSUME MigrationsAssumption ==
    /\ NumFiles \in Nat
    /\ Shipped \in [Replicas -> 0..NumFiles]
    /\ MaxFaults \in Nat

VARIABLES
    exists,     \* the table schema_migrations exists
    recorded,   \* its rows: the files whose transaction committed
    pc,         \* pc[r]: the statement r is about to run, or what became of r
    at,         \* at[r]: the file r works on
    commits,    \* history: how often the changes of a file were committed
    lost,       \* history: lost[r][f]: how often r lost the race for file f,
                \* with 0 for the creation of schema_migrations
    faults      \* how many faults happened

vars == <<exists, recorded, pc, at, commits, lost, faults>>

(* "creating": the CREATE TABLE of r runs and has not seen the table.      *)
States == {"boot", "creating", "check", "sql", "record", "commit",
           "listening", "down"}

Init ==
    /\ exists = FALSE
    /\ recorded = {}
    /\ pc = [r \in Replicas |-> "boot"]
    /\ at = [r \in Replicas |-> 1]
    /\ commits = [f \in Files |-> 0]
    /\ lost = [r \in Replicas |-> [f \in 0..NumFiles |-> 0]]
    /\ faults = 0

Moves(r, s) == pc' = [pc EXCEPT ![r] = s]

Advances(r) == at' = [at EXCEPT ![r] = @ + 1]

(* A statement of r violates a unique index that another replica filled:   *)
(* runMigrations rolls back and throws, and the process exits.             *)
LosesRace(r, f) ==
    /\ lost' = [lost EXCEPT ![r][f] = @ + 1]
    /\ Moves(r, "down")
    /\ UNCHANGED <<exists, recorded, at, commits, faults>>

-----------------------------------------------------------------------------
(* CREATE TABLE IF NOT EXISTS looks for the table first and then fails on  *)
(* a unique index of the catalog when another replica created it meanwhile. *)
StartCreate(r) ==
    /\ pc[r] = "boot"
    /\ Moves(r, IF exists THEN "check" ELSE "creating")
    /\ UNCHANGED <<exists, recorded, at, commits, lost, faults>>

FinishCreate(r) ==
    /\ pc[r] = "creating" /\ ~exists
    /\ exists' = TRUE
    /\ Moves(r, "check")
    /\ UNCHANGED <<recorded, at, commits, lost, faults>>

CreateCollides(r) == pc[r] = "creating" /\ exists /\ LosesRace(r, 0)

(* Mutant: the loop walks one file past the end.                           *)
SkipPastEnd(r) ==
    /\ pc[r] = "check" /\ at[r] <= Shipped[r] + 1
    /\ at[r] \in recorded \cup {NumFiles + 1}
    /\ Advances(r)
    /\ UNCHANGED <<exists, recorded, pc, commits, lost, faults>>

(* SELECT 1 FROM schema_migrations: the file is done ...                   *)
Skip(r) ==
    /\ pc[r] = "check" /\ at[r] <= Shipped[r]
    /\ at[r] \in recorded
    /\ Advances(r)
    /\ UNCHANGED <<exists, recorded, pc, commits, lost, faults>>

(* Mutant: the file is run whatever the SELECT returned.                   *)
BeginAnyway(r) ==
    /\ pc[r] = "check" /\ at[r] <= Shipped[r]
    /\ Moves(r, "sql")
    /\ UNCHANGED <<exists, recorded, at, commits, lost, faults>>

(* ... or it is not, and its transaction begins.                           *)
Begin(r) ==
    /\ pc[r] = "check" /\ at[r] <= Shipped[r]
    /\ at[r] \notin recorded
    /\ Moves(r, "sql")
    /\ UNCHANGED <<exists, recorded, at, commits, lost, faults>>

(* The SQL of the file.  Whether it waits for another replica's            *)
(* transaction over the same file depends on the SQL.                      *)
RunSql(r) ==
    /\ pc[r] = "sql"
    /\ Moves(r, "record")
    /\ UNCHANGED <<exists, recorded, at, commits, lost, faults>>

(* It finds the changes of another replica committed and is not written to *)
(* be repeated, or waited for them and then collides with them.            *)
SqlCollides(r) == pc[r] = "sql" /\ at[r] \in recorded /\ LosesRace(r, at[r])

(* The INSERT into schema_migrations waits for a transaction that inserted *)
(* the same name, to see whether it commits.                               *)
RowFree(r) == \A o \in Replicas \ {r} : pc[o] = "commit" => at[o] # at[r]

(* Mutant: ON CONFLICT DO NOTHING.                                         *)
RecordAnyway(r) ==
    /\ pc[r] = "record" /\ RowFree(r)
    /\ Moves(r, "commit")
    /\ UNCHANGED <<exists, recorded, at, commits, lost, faults>>

Record(r) ==
    /\ pc[r] = "record" /\ RowFree(r)
    /\ at[r] \notin recorded
    /\ Moves(r, "commit")
    /\ UNCHANGED <<exists, recorded, at, commits, lost, faults>>

RecordCollides(r) ==
    /\ pc[r] = "record" /\ RowFree(r)
    /\ at[r] \in recorded
    /\ LosesRace(r, at[r])

Commits(r) ==
    /\ pc[r] = "commit"
    /\ recorded' = recorded \cup {at[r]}
    /\ commits' = [commits EXCEPT ![at[r]] = @ + 1]
    /\ UNCHANGED <<exists, lost>>

Commit(r) == Commits(r) /\ Advances(r) /\ Moves(r, "check") /\ UNCHANGED faults

(* runMigrations returns and the server listens.                           *)
Listen(r) ==
    /\ pc[r] = "check" /\ at[r] > Shipped[r]
    /\ Moves(r, "listening")
    /\ UNCHANGED <<exists, recorded, at, commits, lost, faults>>

-----------------------------------------------------------------------------
Fault == faults < MaxFaults /\ faults' = faults + 1

(* Mutant: the catch block logs and goes on with the next file.            *)
GoesOn(r) ==
    /\ Fault
    /\ pc[r] \in {"sql", "record", "commit"}
    /\ Advances(r)
    /\ Moves(r, "check")
    /\ UNCHANGED <<exists, recorded, commits, lost>>

(* The process is killed, or a statement rejects and the error ends it.    *)
(* Its open transaction is rolled back.                                    *)
Dies(r) ==
    /\ Fault
    /\ pc[r] # "down"
    /\ Moves(r, "down")
    /\ UNCHANGED <<exists, recorded, at, commits, lost>>

(* The COMMIT took effect but its reply was lost: the ROLLBACK that        *)
(* follows is void, and the process exits.                                 *)
CommitLost(r) == Fault /\ Commits(r) /\ Moves(r, "down") /\ UNCHANGED at

(* Mutant: the container has no restart policy.                            *)
StaysDown(r) == pc[r] = "down" /\ UNCHANGED vars

Restart(r) ==
    /\ pc[r] = "down"
    /\ Moves(r, "boot")
    /\ at' = [at EXCEPT ![r] = 1]
    /\ UNCHANGED <<exists, recorded, commits, lost, faults>>

Step(r) ==
    \/ StartCreate(r) \/ FinishCreate(r) \/ CreateCollides(r)
    \/ Skip(r) \/ Begin(r) \/ RunSql(r) \/ SqlCollides(r)
    \/ Record(r) \/ RecordCollides(r) \/ Commit(r) \/ Listen(r)

Quiet == (\A r \in Replicas : pc[r] = "listening") /\ UNCHANGED vars

Next ==
    \/ \E r \in Replicas : Step(r) \/ Dies(r) \/ CommitLost(r) \/ Restart(r)
    \/ Quiet

Spec == Init /\ [][Next]_vars

(* Node and Postgres run statements; containers restart.                   *)
Fairness == \A r \in Replicas : WF_vars(Step(r)) /\ WF_vars(Restart(r))

FairSpec == Spec /\ Fairness

-----------------------------------------------------------------------------
TypeOK ==
    /\ exists \in BOOLEAN
    /\ recorded \subseteq Files
    /\ pc \in [Replicas -> States]
    /\ at \in [Replicas -> 1..(NumFiles + 1)]
    /\ commits \in [Files -> Nat]
    /\ lost \in [Replicas -> [0..NumFiles -> Nat]]
    /\ faults \in 0..MaxFaults

(* The changes of a file are committed at most once, whatever replicas     *)
(* start, race, die or are restarted between its statements.               *)
AppliedOnce == \A f \in Files : commits[f] <= 1

(* A replica that serves requests finds every file of its image applied.   *)
ServesMigrated ==
    \A r \in Replicas : pc[r] = "listening" => 1..Shipped[r] \subseteq recorded

(* Racing replicas cause no crash loop: for any one file a replica exits   *)
(* at most once because another replica was faster.                        *)
LosesOnce == \A r \in Replicas, f \in 0..NumFiles : lost[r][f] <= 1

(* Once faults stop, every replica serves.                                 *)
AllServe == <>[](\A r \in Replicas : pc[r] = "listening")
=============================================================================

-------------------------- MODULE MigrationsProofs --------------------------
(***************************************************************************)
(* Theorems about Migrations, for any number of replicas, files and faults *)
(* and any mixture of images: every file is applied once, a replica that   *)
(* serves is migrated, and races cause no crash loop.                      *)
(***************************************************************************)
EXTENDS Migrations, TLAPS

(* Between the SELECT that did not find a file and the end of its          *)
(* transaction.                                                            *)
Migrating == {"sql", "record", "commit"}

(* A replica starts over at the first file, passes a file only when it is  *)
(* recorded, and works on files of its image.                              *)
PlaceInv ==
    \A r \in Replicas :
        /\ pc[r] \in {"boot", "creating"} => at[r] = 1
        /\ pc[r] \in Migrating => at[r] <= Shipped[r]
        /\ pc[r] \in Migrating \cup {"check", "listening"} =>
               \A f \in Files : f < at[r] => f \in recorded
        /\ pc[r] = "listening" => at[r] > Shipped[r]

(* A replica that inserted the row of a file is the only one, and the row  *)
(* is new; so a file is committed exactly when it is first recorded.       *)
CommitInv ==
    /\ \A r \in Replicas : pc[r] = "commit" => at[r] \notin recorded
    /\ \A r, o \in Replicas :
           r # o /\ pc[r] = "commit" /\ pc[o] = "commit" => at[r] # at[o]
    /\ \A f \in Files : commits[f] = IF f \in recorded THEN 1 ELSE 0

(* A lost race leaves its object behind, where the next attempt finds it   *)
(* and does not race for it again.                                         *)
LostInv ==
    \A r \in Replicas :
        /\ lost[r][0] \in 0..1 /\ (lost[r][0] = 1 => exists)
        /\ pc[r] = "creating" => lost[r][0] = 0
        /\ \A f \in Files : lost[r][f] \in 0..1 /\ (lost[r][f] = 1 => f \in recorded)
        /\ pc[r] \in Migrating => lost[r][at[r]] = 0

IInv == TypeOK /\ PlaceInv /\ CommitInv /\ LostInv

(* The conditions under which a step of one replica that records nothing   *)
(* keeps the invariant: the place it moves to must be a legal one.         *)
LEMMA MoveKeeps ==
    ASSUME IInv, NEW r \in Replicas, NEW s \in States, NEW k \in 1..(NumFiles + 1),
           Moves(r, s), at' = [at EXCEPT ![r] = k],
           UNCHANGED <<recorded, commits, lost>>,
           exists' \in BOOLEAN, exists => exists', faults' \in 0..MaxFaults,
           s \in {"boot", "creating"} => k = 1,
           s \in Migrating => k <= Shipped[r] /\ lost[r][k] = 0,
           s \in Migrating \cup {"check", "listening"} =>
               \A f \in Files : f < k => f \in recorded,
           s = "listening" => k > Shipped[r],
           s = "creating" => lost[r][0] = 0,
           s = "commit" => k \notin recorded /\ RowFree(r) /\ k = at[r]
    PROVE  IInv'
<1>1. pc'[r] = s /\ at'[r] = k
  BY DEF IInv, TypeOK, Moves
<1>2. \A o \in Replicas : o # r => pc'[o] = pc[o] /\ at'[o] = at[o]
  BY DEF IInv, TypeOK, Moves
<1>3. TypeOK'
  BY DEF IInv, TypeOK, Moves
<1>4. PlaceInv'
  BY <1>1, <1>2 DEF IInv, PlaceInv, Migrating
<1>5. CommitInv'
  BY <1>1, <1>2 DEF IInv, CommitInv, RowFree
<1>6. LostInv'
  BY <1>1, <1>2 DEF IInv, LostInv, Migrating
<1> QED
  BY <1>3, <1>4, <1>5, <1>6 DEF IInv

(* A replica that loses a race for f leaves for good what made it lose.    *)
LEMMA LossKeeps ==
    ASSUME IInv, NEW r \in Replicas, NEW f \in 0..NumFiles, LosesRace(r, f),
           lost[r][f] = 0,
           f = 0 => exists,
           f # 0 => f \in recorded
    PROVE  IInv'
<1>1. pc'[r] = "down" /\ at' = at
  BY DEF IInv, TypeOK, LosesRace, Moves
<1>2. \A o \in Replicas : o # r => pc'[o] = pc[o]
  BY DEF IInv, TypeOK, LosesRace, Moves
<1>3. /\ lost'[r][f] = 1
      /\ \A g \in 0..NumFiles : g # f => lost'[r][g] = lost[r][g]
      /\ \A o \in Replicas : o # r => lost'[o] = lost[o]
      /\ lost' \in [Replicas -> [0..NumFiles -> Nat]]
  <2> DEFINE row == [lost[r] EXCEPT ![f] = @ + 1]
  <2>1. lost \in [Replicas -> [0..NumFiles -> Nat]]
    BY DEF IInv, TypeOK
  <2>2. lost' = [lost EXCEPT ![r] = row]
    BY DEF LosesRace
  <2>3. row \in [0..NumFiles -> Nat] /\ row[f] = 1
    <3>1. lost[r] \in [0..NumFiles -> Nat]
      BY <2>1
    <3>2. lost[r][f] + 1 \in Nat /\ lost[r][f] + 1 = 1
      OBVIOUS
    <3> QED
      BY <3>1, <3>2
  <2>4. \A g \in 0..NumFiles : g # f => row[g] = lost[r][g]
    BY <2>1
  <2> QED
    BY <2>1, <2>2, <2>3, <2>4
<1>4. TypeOK'
  <2>1. pc' \in [Replicas -> States]
    BY DEF IInv, TypeOK, LosesRace, Moves, States
  <2> QED
    BY <1>3, <2>1 DEF IInv, TypeOK, LosesRace
<1>5. PlaceInv'
  BY <1>1, <1>2 DEF IInv, PlaceInv, LosesRace, Migrating
<1>6. CommitInv'
  BY <1>1, <1>2 DEF IInv, CommitInv, LosesRace
<1>7. LostInv'
  <2> SUFFICES ASSUME NEW o \in Replicas
               PROVE /\ lost'[o][0] \in 0..1 /\ (lost'[o][0] = 1 => exists')
                     /\ pc'[o] = "creating" => lost'[o][0] = 0
                     /\ \A g \in Files : /\ lost'[o][g] \in 0..1
                                         /\ lost'[o][g] = 1 => g \in recorded'
                     /\ pc'[o] \in Migrating => lost'[o][at'[o]] = 0
    BY DEF LostInv
  <2>1. exists' = exists /\ recorded' = recorded
    BY DEF LosesRace
  <2>2. CASE o # r
    BY <1>1, <1>2, <1>3, <2>1, <2>2 DEF IInv, LostInv
  <2>3. CASE o = r
    <3>1. Files \subseteq 0..NumFiles /\ 0 \in 0..NumFiles /\ 0 \notin Files
      BY MigrationsAssumption DEF Files
    <3> QED
      BY <1>1, <1>3, <2>1, <2>3, <3>1 DEF IInv, LostInv, Migrating
  <2> QED
    BY <2>2, <2>3
<1> QED
  BY <1>4, <1>5, <1>6, <1>7 DEF IInv

(* A commit records a file that was not recorded, which then stays so.     *)
LEMMA CommitKeeps ==
    ASSUME IInv, NEW r \in Replicas, Commits(r),
           faults' \in 0..MaxFaults,
           \/ Advances(r) /\ Moves(r, "check")
           \/ Moves(r, "down") /\ UNCHANGED at
    PROVE  IInv'
<1>1. pc'[r] \in {"check", "down"} /\ pc[r] = "commit"
  BY DEF IInv, TypeOK, Moves, Commits
<1>2. \A o \in Replicas : o # r => pc'[o] = pc[o] /\ at'[o] = at[o]
  BY DEF IInv, TypeOK, Moves, Advances
<1>3. at[r] \in Files /\ at[r] <= Shipped[r] /\ Shipped[r] \in 0..NumFiles
  BY <1>1, MigrationsAssumption DEF IInv, TypeOK, PlaceInv, Migrating, Files
<1>4. at' \in [Replicas -> 1..(NumFiles + 1)] /\ (pc'[r] = "check" => at'[r] = at[r] + 1)
  <2>1. /\ at \in [Replicas -> 1..(NumFiles + 1)]
        /\ pc \in [Replicas -> States]
        /\ at[r] + 1 \in 1..(NumFiles + 1)
    BY <1>3, MigrationsAssumption DEF IInv, TypeOK, Files
  <2>2. CASE Advances(r) /\ Moves(r, "check")
    BY <2>1, <2>2 DEF Advances
  <2>3. CASE Moves(r, "down") /\ UNCHANGED at
    BY <2>1, <2>3 DEF Moves
  <2> QED
    BY <2>2, <2>3
<1>5. TypeOK'
  <2>1. pc' \in [Replicas -> States]
    BY DEF IInv, TypeOK, Moves, States
  <2>2. recorded' \subseteq Files
    BY <1>3 DEF IInv, TypeOK, Commits
  <2>3. commits' \in [Files -> Nat]
    BY <1>3 DEF IInv, TypeOK, Commits
  <2> QED
    BY <1>4, <2>1, <2>2, <2>3 DEF IInv, TypeOK, Commits
<1>6. PlaceInv'
  <2> SUFFICES ASSUME NEW o \in Replicas
               PROVE /\ pc'[o] \in {"boot", "creating"} => at'[o] = 1
                     /\ pc'[o] \in Migrating => at'[o] <= Shipped[o]
                     /\ pc'[o] \in Migrating \cup {"check", "listening"} =>
                            \A f \in Files : f < at'[o] => f \in recorded'
                     /\ pc'[o] = "listening" => at'[o] > Shipped[o]
    BY DEF PlaceInv
  <2>1. recorded' = recorded \cup {at[r]}
    BY DEF Commits
  <2>2. CASE o # r
    BY <1>2, <2>1, <2>2 DEF IInv, PlaceInv
  <2>3. CASE o = r
    <3>1. \A f \in Files : f < at[r] + 1 => f < at[r] \/ f = at[r]
      BY <1>3 DEF Files
    <3> QED
      BY <1>1, <1>4, <2>1, <2>3, <3>1 DEF IInv, PlaceInv, Migrating
  <2> QED
    BY <2>2, <2>3
<1>7. CommitInv'
  <2>1. recorded' = recorded \cup {at[r]} /\ at[r] \notin recorded
    BY <1>1 DEF Commits, IInv, CommitInv
  <2>2. \A f \in Files : commits'[f] = IF f = at[r] THEN commits[f] + 1 ELSE commits[f]
    BY <1>3 DEF IInv, TypeOK, Commits
  <2>3. \A f \in Files : commits'[f] = IF f \in recorded' THEN 1 ELSE 0
    BY <2>1, <2>2 DEF IInv, CommitInv
  <2> QED
    BY <1>1, <1>2, <2>1, <2>3 DEF IInv, CommitInv
<1>8. LostInv'
  BY <1>1, <1>2 DEF IInv, LostInv, Commits, Migrating
<1> QED
  BY <1>5, <1>6, <1>7, <1>8 DEF IInv

(* What the invariant says of the place of a replica.                      *)
LEMMA PlaceTyped ==
    ASSUME IInv, NEW r \in Replicas
    PROVE  /\ at[r] \in 1..(NumFiles + 1)
           /\ at = [at EXCEPT ![r] = at[r]]
           /\ Shipped[r] \in 0..NumFiles
           /\ at[r] <= Shipped[r] => at[r] \in Files
           /\ NumFiles \in Nat
  BY MigrationsAssumption DEF IInv, TypeOK, Files

(* Every step of the replicas keeps the invariant.                         *)
LEMMA InvStep == IInv /\ [Next]_vars => IInv'
<1> SUFFICES ASSUME IInv, [Next]_vars
             PROVE  IInv'
  OBVIOUS
<1>t. /\ exists \in BOOLEAN
      /\ faults \in 0..MaxFaults
      /\ MaxFaults \in Nat
  BY MigrationsAssumption DEF IInv, TypeOK
<1>1. ASSUME NEW r \in Replicas, StartCreate(r) PROVE IInv'
  <2>1. at[r] = 1 /\ \A f \in Files : ~(f < 1)
    BY <1>1 DEF StartCreate, IInv, PlaceInv, Files
  <2>2. ~exists => lost[r][0] = 0
    BY DEF IInv, LostInv
  <2>3. CASE exists
    BY <1>1, <1>t, <2>1, <2>3, PlaceTyped, MoveKeeps
       DEF StartCreate, States, Migrating
  <2>4. CASE ~exists
    BY <1>1, <1>t, <2>1, <2>2, <2>4, PlaceTyped, MoveKeeps
       DEF StartCreate, States, Migrating
  <2> QED
    BY <2>3, <2>4
<1>2. ASSUME NEW r \in Replicas, FinishCreate(r) PROVE IInv'
  <2>1. at[r] = 1 /\ \A f \in Files : ~(f < 1)
    BY <1>2 DEF FinishCreate, IInv, PlaceInv, Files
  <2> QED
    BY <1>2, <1>t, <2>1, PlaceTyped, MoveKeeps DEF FinishCreate, States, Migrating
<1>3. ASSUME NEW r \in Replicas, CreateCollides(r) PROVE IInv'
  BY <1>3, LossKeeps, MigrationsAssumption DEF CreateCollides, IInv, LostInv
<1>4. ASSUME NEW r \in Replicas, Skip(r) PROVE IInv'
  <2>1. at[r] \in Files /\ at[r] + 1 \in 1..(NumFiles + 1)
    BY <1>4, PlaceTyped DEF Skip, Files
  <2>2. \A f \in Files : f < at[r] + 1 => f \in recorded
    <3>1. \A f \in Files : f < at[r] + 1 => f < at[r] \/ f = at[r]
      BY <2>1 DEF Files
    <3> QED
      BY <1>4, <3>1 DEF Skip, IInv, PlaceInv, Migrating
  <2>3. Moves(r, "check") /\ at' = [at EXCEPT ![r] = at[r] + 1]
    BY <1>4 DEF Skip, Advances, Moves, IInv, TypeOK
  <2> QED
    BY <1>4, <1>t, <2>1, <2>2, <2>3, MoveKeeps DEF Skip, States, Migrating
<1>5. ASSUME NEW r \in Replicas, Begin(r) PROVE IInv'
  <2>1. at[r] \in Files /\ lost[r][at[r]] = 0
    BY <1>5, PlaceTyped DEF Begin, IInv, LostInv
  <2>2. \A f \in Files : f < at[r] => f \in recorded
    BY <1>5 DEF Begin, IInv, PlaceInv, Migrating
  <2> QED
    BY <1>5, <1>t, <2>1, <2>2, PlaceTyped, MoveKeeps DEF Begin, States, Migrating
<1>6. ASSUME NEW r \in Replicas, RunSql(r) PROVE IInv'
  <2>1. at[r] <= Shipped[r] /\ lost[r][at[r]] = 0
    BY <1>6 DEF RunSql, IInv, PlaceInv, LostInv, Migrating
  <2>2. \A f \in Files : f < at[r] => f \in recorded
    BY <1>6 DEF RunSql, IInv, PlaceInv, Migrating
  <2> QED
    BY <1>6, <1>t, <2>1, <2>2, PlaceTyped, MoveKeeps DEF RunSql, States, Migrating
<1>7. ASSUME NEW r \in Replicas, SqlCollides(r) \/ RecordCollides(r) PROVE IInv'
  <2>1. pc[r] \in Migrating /\ at[r] \in recorded /\ LosesRace(r, at[r])
    BY <1>7 DEF SqlCollides, RecordCollides, Migrating
  <2>2. at[r] \in 0..NumFiles /\ at[r] # 0 /\ lost[r][at[r]] = 0
    BY <2>1, PlaceTyped DEF IInv, PlaceInv, LostInv, Files
  <2> QED
    BY <2>1, <2>2, LossKeeps
<1>8. ASSUME NEW r \in Replicas, Record(r) PROVE IInv'
  <2>1. at[r] <= Shipped[r] /\ lost[r][at[r]] = 0
    BY <1>8 DEF Record, IInv, PlaceInv, LostInv, Migrating
  <2>2. \A f \in Files : f < at[r] => f \in recorded
    BY <1>8 DEF Record, IInv, PlaceInv, Migrating
  <2> QED
    BY <1>8, <1>t, <2>1, <2>2, PlaceTyped, MoveKeeps DEF Record, States, Migrating
<1>9. ASSUME NEW r \in Replicas, Commit(r) PROVE IInv'
  BY <1>9, <1>t, CommitKeeps DEF Commit
<1>10. ASSUME NEW r \in Replicas, CommitLost(r) PROVE IInv'
  <2>1. faults' \in 0..MaxFaults
    BY <1>10, <1>t DEF CommitLost, Fault
  <2> QED
    BY <1>10, <2>1, CommitKeeps DEF CommitLost
<1>11. ASSUME NEW r \in Replicas, Listen(r) PROVE IInv'
  <2>1. \A f \in Files : f < at[r] => f \in recorded
    BY <1>11 DEF Listen, IInv, PlaceInv, Migrating
  <2> QED
    BY <1>11, <1>t, <2>1, PlaceTyped, MoveKeeps DEF Listen, States, Migrating
<1>12. ASSUME NEW r \in Replicas, Dies(r) PROVE IInv'
  <2>1. faults' \in 0..MaxFaults
    BY <1>12, <1>t DEF Dies, Fault
  <2>2. /\ Moves(r, "down")
        /\ at' = [at EXCEPT ![r] = at[r]]
        /\ UNCHANGED <<recorded, commits, lost>>
        /\ exists' = exists
    BY <1>12, PlaceTyped DEF Dies
  <2>3. at[r] \in 1..(NumFiles + 1)
    BY PlaceTyped
  <2> QED
    BY <1>t, <2>1, <2>2, <2>3, MoveKeeps DEF States, Migrating
<1>13. ASSUME NEW r \in Replicas, Restart(r) PROVE IInv'
  <2>1. 1 \in 1..(NumFiles + 1)
    BY PlaceTyped
  <2> QED
    BY <1>13, <1>t, <2>1, MoveKeeps DEF Restart, States, Migrating
<1>14. CASE UNCHANGED vars
  BY <1>14 DEF vars, IInv, TypeOK, PlaceInv, CommitInv, LostInv
<1> QED
  BY <1>1, <1>2, <1>3, <1>4, <1>5, <1>6, <1>7, <1>8, <1>9, <1>10, <1>11, <1>12,
     <1>13, <1>14 DEF Next, Step, Quiet

LEMMA InvHolds == Spec => []IInv
<1>1. Init => IInv
  <2> SUFFICES ASSUME Init
               PROVE  IInv
    OBVIOUS
  <2>1. /\ 1 \in 1..(NumFiles + 1)
        /\ 0 \in 0..NumFiles
        /\ 0 \in 0..MaxFaults
        /\ Files \subseteq 0..NumFiles
    BY MigrationsAssumption DEF Files
  <2>2. TypeOK
    BY <2>1 DEF Init, TypeOK, States
  <2>3. PlaceInv
    BY DEF Init, PlaceInv, Migrating
  <2>4. CommitInv
    BY DEF Init, CommitInv
  <2>5. LostInv
    <3>1. ASSUME NEW r \in Replicas, NEW f \in 0..NumFiles
          PROVE  /\ lost[r][f] = 0
                 /\ pc[r] \notin Migrating /\ pc[r] # "creating"
      BY DEF Init, Migrating
    <3>2. ASSUME NEW r \in Replicas
          PROVE  /\ lost[r][0] = 0
                 /\ \A f \in Files : lost[r][f] = 0
                 /\ pc[r] \notin Migrating /\ pc[r] # "creating"
      BY <2>1, <3>1
    <3>3. ASSUME NEW r \in Replicas, NEW f \in Files
          PROVE  lost[r][f] \in 0..1 /\ (lost[r][f] = 1 => f \in recorded)
      BY <3>2
    <3>4. ASSUME NEW r \in Replicas
          PROVE  lost[r][0] \in 0..1 /\ (lost[r][0] = 1 => exists)
      BY <3>2
    <3> QED
      BY <3>2, <3>3, <3>4 DEF LostInv
  <2> QED
    BY <2>2, <2>3, <2>4, <2>5 DEF IInv
<1> QED
  BY <1>1, InvStep, PTL DEF Spec

(* Every reachable state is well typed; in particular a replica never      *)
(* walks past the end of the files.                                        *)
THEOREM TypeCorrect == Spec => []TypeOK
<1>1. IInv => TypeOK
  BY DEF IInv
<1> QED
  BY <1>1, InvHolds, PTL

(* runMigrations commits the changes of a file at most once.               *)
THEOREM FilesAppliedOnce == Spec => []AppliedOnce
<1>1. IInv => AppliedOnce
  BY DEF IInv, CommitInv, AppliedOnce
<1> QED
  BY <1>1, InvHolds, PTL

(* server.ts listens only after every file of its image is applied.        *)
THEOREM ServersAreMigrated == Spec => []ServesMigrated
<1>1. ASSUME IInv, NEW r \in Replicas, pc[r] = "listening", NEW f \in 1..Shipped[r]
      PROVE  f \in recorded
  <2>1. f \in Files /\ f < at[r]
    BY <1>1, PlaceTyped DEF IInv, PlaceInv, Files
  <2> QED
    BY <1>1, <2>1 DEF IInv, PlaceInv, Migrating
<1>2. IInv => ServesMigrated
  BY <1>1 DEF ServesMigrated
<1> QED
  BY <1>2, InvHolds, PTL

(* No replica exits twice because another was faster with the same file.   *)
THEOREM RacesEnd == Spec => []LosesOnce
<1>1. ASSUME IInv, NEW r \in Replicas, NEW f \in 0..NumFiles
      PROVE  lost[r][f] <= 1
  <2>1. f = 0 \/ f \in Files
    BY MigrationsAssumption DEF Files
  <2> QED
    BY <1>1, <2>1 DEF IInv, LostInv
<1>2. IInv => LosesOnce
  BY <1>1 DEF LosesOnce
<1> QED
  BY <1>2, InvHolds, PTL
=============================================================================

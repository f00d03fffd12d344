--------------------------- MODULE MigrateProofs ---------------------------
(***************************************************************************)
(* Migrations are applied once, in order and before anybody serves, for    *)
(* any number of processes, files and faults.                              *)
(***************************************************************************)
EXTENDS Migrate, TLAPS

(* All the files before one are applied.                                   *)
UpTo(f) == \A g \in Files : g < f => g \in recorded

(* A process in its loop only has applied files behind it.                 *)
LoopBehind ==
  \A p \in Procs :
    pc[p] \in {"next", "batch"} => done[p] \subseteq recorded /\ UpTo(at[p])

(* A process waits exactly for the script of its file.                     *)
WaitsForScript ==
  \A p \in Procs : script[Mine(p)] = IF pc[p] = "batch" THEN at[p] ELSE 0

(* Incarnations to come have no session yet.                               *)
FutureFree ==
  \A p \in Procs, n \in 0..MaxFaults : n > life[p] => script[<<p, n>>] = 0

(* A script only runs when the ones before it are applied.                 *)
ScriptsInOrder == \A k \in Sessions : script[k] # 0 => UpTo(script[k])

(* A name is inserted by one session at a time, and not once recorded.     *)
InsertedOnce ==
  \A k \in Sessions :
    inserted[k] =>
      /\ script[k] \in Files \ recorded
      /\ \A j \in Sessions : inserted[j] /\ script[j] = script[k] => j = k

FaultsCount == \A p \in Procs : life[p] <= faults

(* The inductive invariant.                                                *)
IInv ==
  /\ TypeOK
  /\ AppliedOnce
  /\ InOrder
  /\ ReadyMeansMigrated
  /\ LoopBehind
  /\ WaitsForScript
  /\ FutureFree
  /\ ScriptsInOrder
  /\ InsertedOnce
  /\ FaultsCount

LEMMA MineIn ==
  ASSUME TypeOK, NEW p \in Procs
  PROVE  Mine(p) \in Sessions /\ Mine(p)[1] = p /\ life[p] \in 0..MaxFaults
BY DEF TypeOK, Mine, Sessions

LEMMA SessionIn ==
  ASSUME NEW k \in Sessions
  PROVE  k[1] \in Procs /\ k[2] \in 0..MaxFaults /\ k = <<k[1], k[2]>>
BY DEF Sessions

LEMMA InitHolds == Init => IInv
<1> SUFFICES ASSUME Init PROVE IInv
  OBVIOUS
<1> USE MigrateAssumption DEF Init
<1>1. TypeOK
  <2>1. 1 \in 1..(N + 1) /\ 0 \in 0..MaxFaults /\ 0 \in 0..N
    OBVIOUS
  <2> QED BY <2>1 DEF TypeOK
<1>2. AppliedOnce /\ InOrder /\ ReadyMeansMigrated /\ LoopBehind
  BY DEF AppliedOnce, InOrder, ReadyMeansMigrated, LoopBehind
<1>3. WaitsForScript
  BY <1>1, MineIn DEF WaitsForScript
<1>4. FutureFree /\ ScriptsInOrder /\ InsertedOnce /\ FaultsCount
  BY DEF FutureFree, ScriptsInOrder, InsertedOnce, FaultsCount, Sessions
<1> QED BY <1>1, <1>2, <1>3, <1>4 DEF IInv

(* Steps of a process between two scripts.                                 *)
LEMMA LoopKeeps ==
  ASSUME IInv, NEW p \in Procs,
         \/ Start(p) \/ LookForTable(p) \/ CreateTable(p) \/ ListDone(p)
         \/ Skip(p) \/ Finish(p) \/ Quit(p)
  PROVE  IInv'
<1> USE MigrateAssumption DEF IInv
<1>1. /\ UNCHANGED <<bad, life, recorded, applied, sessVars, faults>>
      /\ pc[p] # "batch" /\ pc'[p] # "batch"
      /\ \A q \in Procs \ {p} : pc'[q] = pc[q] /\ at'[q] = at[q] /\ done'[q] = done[q]
  BY DEF TypeOK, Start, LookForTable, CreateTable, ListDone, Skip, Finish, Quit, Goto, dbVars, sessVars
<1>2. at[p] \in 1..(N + 1)
  BY DEF TypeOK
<1>3. TypeOK'
  <2>1. pc' \in [Procs -> {"down", "create", "creating", "list", "next", "batch",
                            "ready", "raised"}]
    BY DEF TypeOK, Start, LookForTable, CreateTable, ListDone, Skip, Finish, Quit, Goto
  <2>2. at' \in [Procs -> 1..(N + 1)]
    <3>1. CASE Skip(p)
      <4>1. at[p] + 1 \in 1..(N + 1)
        BY <1>2, <3>1 DEF Skip, TypeOK, Files
      <4> QED BY <3>1, <4>1 DEF Skip, TypeOK
    <3>2. CASE ListDone(p)
      <4>1. 1 \in 1..(N + 1)
        OBVIOUS
      <4> QED BY <3>2, <4>1 DEF ListDone, TypeOK
    <3> QED BY <3>1, <3>2 DEF TypeOK, Start, LookForTable, CreateTable, Finish, Quit
  <2>3. done' \in [Procs -> SUBSET Files] /\ table' \in BOOLEAN
    BY DEF TypeOK, Start, LookForTable, CreateTable, ListDone, Skip, Finish, Quit, dbVars
  <2> QED BY <1>1, <2>1, <2>2, <2>3 DEF TypeOK, sessVars
<1>4. AppliedOnce' /\ InOrder' /\ ScriptsInOrder' /\ InsertedOnce' /\ FutureFree' /\ FaultsCount'
  BY <1>1 DEF AppliedOnce, InOrder, ScriptsInOrder, InsertedOnce, FutureFree, FaultsCount,
     UpTo, sessVars
<1>5. WaitsForScript'
  BY <1>1 DEF WaitsForScript, Mine, sessVars
<1>6. LoopBehind'
  <2>1. ASSUME pc'[p] \in {"next", "batch"}
        PROVE  done'[p] \subseteq recorded /\ \A g \in Files : g < at'[p] => g \in recorded
    <3>1. CASE ListDone(p)
      BY <3>1 DEF ListDone, TypeOK, Files
    <3>2. CASE Skip(p)
      BY <3>2, <1>2 DEF Skip, TypeOK, LoopBehind, UpTo, Files
    <3> QED BY <2>1, <3>1, <3>2 DEF TypeOK, Start, LookForTable, CreateTable, Finish, Quit, Goto
  <2> QED BY <1>1, <2>1 DEF LoopBehind, UpTo
<1>7. ReadyMeansMigrated'
  <2>1. ASSUME pc'[p] = "ready"
        PROVE  recorded = Files
    <3>1. pc[p] = "next" /\ at[p] > N
      BY <2>1 DEF TypeOK, Start, LookForTable, CreateTable, ListDone, Skip, Finish, Quit, Goto
    <3>2. \A g \in Files : g \in recorded
      BY <1>2, <3>1 DEF LoopBehind, UpTo, Files
    <3> QED BY <3>2 DEF TypeOK
  <2> QED BY <1>1, <2>1 DEF ReadyMeansMigrated
<1> QED BY <1>3, <1>4, <1>5, <1>6, <1>7

LEMMA SendScriptKeeps ==
  ASSUME IInv, NEW p \in Procs, SendScript(p)
  PROVE  IInv'
<1> USE MigrateAssumption DEF IInv
<1>1. /\ pc[p] = "next" /\ at[p] \in Files
      /\ script' = [script EXCEPT ![Mine(p)] = at[p]]
      /\ pc' = [pc EXCEPT ![p] = "batch"]
      /\ UNCHANGED <<bad, life, done, at, table, recorded, applied, inserted, faults>>
      /\ Mine(p) \in Sessions /\ life[p] \in 0..MaxFaults
  BY MineIn DEF SendScript, Goto, dbVars
<1>2. script[Mine(p)] = 0 /\ ~inserted[Mine(p)]
  BY <1>1 DEF WaitsForScript, InsertedOnce, Files
<1>3. TypeOK'
  BY SMTT(60), <1>1 DEF TypeOK, Files
<1>4. AppliedOnce' /\ InOrder' /\ ReadyMeansMigrated' /\ LoopBehind' /\ FaultsCount'
  BY <1>1 DEF TypeOK, AppliedOnce, InOrder, ReadyMeansMigrated, LoopBehind, UpTo, FaultsCount
<1>5. WaitsForScript'
  BY <1>1, MineIn DEF TypeOK, WaitsForScript, Mine
<1>6. FutureFree'
  <2> SUFFICES ASSUME NEW q \in Procs, NEW n \in 0..MaxFaults, n > life[q]
               PROVE  script'[<<q, n>>] = 0
    BY <1>1 DEF FutureFree
  <2>1. <<q, n>> # Mine(p)
    BY <1>1 DEF Mine
  <2> QED BY <1>1, <2>1 DEF FutureFree, TypeOK, Sessions
<1>7. ScriptsInOrder'
  BY <1>1 DEF TypeOK, ScriptsInOrder, LoopBehind, UpTo
<1>8. InsertedOnce'
  BY <1>1, <1>2 DEF TypeOK, InsertedOnce
<1> QED BY <1>3, <1>4, <1>5, <1>6, <1>7, <1>8

LEMMA CrashKeeps ==
  ASSUME IInv, NEW p \in Procs, Crash(p)
  PROVE  IInv'
<1> USE MigrateAssumption DEF IInv
<1>1. /\ pc' = [pc EXCEPT ![p] = "down"]
      /\ life' = [life EXCEPT ![p] = @ + 1]
      /\ faults < MaxFaults /\ faults' = faults + 1
      /\ UNCHANGED <<bad, done, at, table, recorded, applied, script, inserted>>
  BY DEF Crash, Goto, dbVars, sessVars
<1>2. life[p] \in 0..MaxFaults /\ life[p] <= faults /\ faults \in 0..MaxFaults
  BY DEF TypeOK, FaultsCount
<1>3. TypeOK' /\ FaultsCount'
  BY <1>1, <1>2 DEF TypeOK, FaultsCount
<1>4. AppliedOnce' /\ InOrder' /\ ReadyMeansMigrated' /\ LoopBehind' /\ ScriptsInOrder' /\ InsertedOnce'
  BY <1>1 DEF TypeOK, AppliedOnce, InOrder, ReadyMeansMigrated, LoopBehind, UpTo, ScriptsInOrder,
     InsertedOnce
<1>5. FutureFree'
  <2> SUFFICES ASSUME NEW q \in Procs, NEW n \in 0..MaxFaults, n > life'[q]
               PROVE  script[<<q, n>>] = 0
    BY <1>1 DEF FutureFree
  <2>1. n > life[q]
    BY <1>1, <1>2 DEF TypeOK
  <2> QED BY <2>1 DEF FutureFree
<1>6. WaitsForScript'
  <2>1. script[<<p, life[p] + 1>>] = 0
    BY <1>1, <1>2 DEF FutureFree
  <2> QED BY <1>1, <2>1 DEF TypeOK, WaitsForScript, Mine
<1> QED BY <1>3, <1>4, <1>5, <1>6

LEMMA InsertKeeps ==
  ASSUME IInv, NEW k \in Sessions, Insert(k)
  PROVE  IInv'
<1> USE MigrateAssumption DEF IInv
<1>1. TypeOK' /\ AppliedOnce' /\ InOrder' /\ ReadyMeansMigrated' /\ LoopBehind' /\ FaultsCount'
  BY DEF Insert, procVars, dbVars, TypeOK, AppliedOnce, InOrder, ReadyMeansMigrated, LoopBehind,
     UpTo, FaultsCount
<1>2. WaitsForScript' /\ FutureFree' /\ ScriptsInOrder'
  BY DEF Insert, procVars, dbVars, WaitsForScript, Mine, FutureFree, ScriptsInOrder, UpTo
<1>3. InsertedOnce'
  BY DEF Insert, procVars, dbVars, TypeOK, InsertedOnce
<1> QED BY <1>1, <1>2, <1>3

(* What a session that ends tells the process that waits for it.           *)
LEMMA EndTold ==
  ASSUME IInv, NEW k \in Sessions, script[k] # 0, Ends(k),
         \/ TellsError(k)
         \/ TellsSuccess(k) /\ script[k] \in recorded',
         UNCHANGED <<life, done>>, recorded \subseteq recorded',
         recorded' \subseteq Files
  PROVE  /\ pc' \in [Procs -> {"down", "create", "creating", "list", "next", "batch",
                                "ready", "raised"}]
         /\ at' \in [Procs -> 1..(N + 1)]
         /\ script' \in [Sessions -> 0..N] /\ inserted' \in [Sessions -> BOOLEAN]
         /\ LoopBehind' /\ WaitsForScript' /\ FutureFree' /\ ReadyMeansMigrated'
<1> USE MigrateAssumption DEF IInv
<1> DEFINE p == k[1]
<1>1. p \in Procs /\ Mine(p) \in Sessions
  BY SessionIn, MineIn
<1>2. script' = [script EXCEPT ![k] = 0] /\ inserted' = [inserted EXCEPT ![k] = FALSE]
  BY DEF Ends
<1>3. at[p] \in 1..(N + 1) /\ script[k] \in 1..N
  BY <1>1 DEF TypeOK
<1>4. \A q \in Procs \ {p} : pc'[q] = pc[q] /\ at'[q] = at[q]
  BY <1>1 DEF TellsError, TellsSuccess, Goto, TypeOK
<1>5. CASE Waits(k)
  <2>1. /\ k = Mine(p) /\ pc[p] = "batch" /\ script[k] = at[p]
    BY <1>1, <1>5 DEF Waits, WaitsForScript
  <2>2. \/ /\ pc' = [pc EXCEPT ![p] = "raised"]
           /\ at' = at
        \/ /\ pc' = [pc EXCEPT ![p] = "next"]
           /\ at' = [at EXCEPT ![p] = @ + 1]
           /\ script[k] \in recorded'
    BY <1>5 DEF TellsError, TellsSuccess, Goto
  <2>3. /\ pc' \in [Procs -> {"down", "create", "creating", "list", "next", "batch",
                                "ready", "raised"}]
        /\ at' \in [Procs -> 1..(N + 1)]
        /\ script' \in [Sessions -> 0..N] /\ inserted' \in [Sessions -> BOOLEAN]
    BY <1>1, <1>2, <1>3, <2>1, <2>2 DEF TypeOK
  <2>4. WaitsForScript'
    <3> SUFFICES ASSUME NEW q \in Procs
                 PROVE  script'[Mine(q)] = IF pc'[q] = "batch" THEN at'[q] ELSE 0
      BY DEF WaitsForScript, Mine
    <3>1. CASE q = p
      BY <1>1, <1>2, <2>1, <2>2, <3>1 DEF TypeOK
    <3>2. CASE q # p
      <4>1. Mine(q) # k /\ Mine(q) \in Sessions
        BY <2>1, <3>2, MineIn DEF Mine
      <4>2. script'[Mine(q)] = script[Mine(q)]
        BY <1>2, <4>1 DEF TypeOK
      <4> QED BY <1>4, <3>2, <4>2 DEF WaitsForScript
    <3> QED BY <3>1, <3>2
  <2>5. LoopBehind'
    <3>1. ASSUME pc'[p] \in {"next", "batch"}
          PROVE  done[p] \subseteq recorded' /\ \A g \in Files : g < at'[p] => g \in recorded'
      <4>1. at'[p] = at[p] + 1 /\ at[p] \in recorded'
        BY <1>1, <2>1, <2>2, <3>1 DEF TypeOK
      <4>2. done[p] \subseteq recorded /\ UpTo(at[p])
        BY <1>1, <2>1 DEF LoopBehind
      <4>3. \A g \in Files : g < at[p] + 1 => g < at[p] \/ g = at[p]
        BY <1>3 DEF Files
      <4> QED BY <4>1, <4>2, <4>3 DEF UpTo
    <3> QED BY <1>4, <3>1 DEF LoopBehind, UpTo
  <2>6. ReadyMeansMigrated'
    <3>1. pc'[p] # "ready"
      BY <1>1, <2>2 DEF TypeOK
    <3> QED BY <1>4, <3>1 DEF ReadyMeansMigrated
  <2>7. FutureFree'
    BY <1>2 DEF FutureFree, TypeOK, Sessions
  <2> QED BY <2>3, <2>4, <2>5, <2>6, <2>7
<1>6. CASE ~Waits(k)
  <2>1. pc' = pc /\ at' = at
    BY <1>6 DEF TellsError, TellsSuccess
  <2>2. \A q \in Procs : Mine(q) # k \/ pc[q] # "batch"
    BY <1>6, MineIn DEF Waits
  <2>3. WaitsForScript'
    <3> SUFFICES ASSUME NEW q \in Procs
                 PROVE  script'[Mine(q)] = IF pc[q] = "batch" THEN at[q] ELSE 0
      BY <2>1 DEF WaitsForScript, Mine
    <3>1. Mine(q) \in Sessions
      BY MineIn
    <3> QED BY <1>2, <2>2, <3>1 DEF WaitsForScript, TypeOK
  <2>4. LoopBehind' /\ ReadyMeansMigrated'
    BY <2>1 DEF LoopBehind, UpTo, ReadyMeansMigrated
  <2>5. FutureFree'
    BY <1>2 DEF FutureFree, TypeOK, Sessions
  <2>6. /\ script' \in [Sessions -> 0..N] /\ inserted' \in [Sessions -> BOOLEAN]
    BY <1>2, <1>3 DEF TypeOK
  <2> QED BY <2>1, <2>3, <2>4, <2>5, <2>6 DEF TypeOK
<1> QED BY <1>5, <1>6

(* The end of a script that is rolled back.                                *)
LEMMA RolledBackKeeps ==
  ASSUME IInv, NEW k \in Sessions, script[k] # 0, Ends(k), TellsError(k),
         UNCHANGED <<life, done, dbVars>>,
         faults' \in 0..MaxFaults, faults <= faults'
  PROVE  IInv'
<1> USE MigrateAssumption DEF IInv, dbVars
<1>1. TypeOK' /\ LoopBehind' /\ WaitsForScript' /\ FutureFree' /\ ReadyMeansMigrated'
  BY EndTold DEF TypeOK
<1>2. AppliedOnce' /\ InOrder'
  BY DEF AppliedOnce, InOrder
<1>3. ScriptsInOrder' /\ InsertedOnce'
  BY DEF Ends, TypeOK, ScriptsInOrder, InsertedOnce, UpTo
<1>4. FaultsCount'
  <2>1. \A p \in Procs : life[p] \in Nat /\ life[p] <= faults
    BY DEF FaultsCount, TypeOK
  <2> QED BY <2>1 DEF FaultsCount, TypeOK
<1> QED BY <1>1, <1>2, <1>3, <1>4

(* The end of a script that is committed, heard of or not.                 *)
LEMMA CommittedKeeps ==
  ASSUME IInv, NEW k \in Sessions, script[k] # 0, inserted[k], Ends(k),
         TellsError(k) \/ TellsSuccess(k),
         applied' = [applied EXCEPT ![script[k]] = @ + 1],
         recorded' = recorded \union {script[k]},
         UNCHANGED <<life, done, bad, table>>,
         faults' \in 0..MaxFaults, faults <= faults'
  PROVE  IInv'
<1> USE MigrateAssumption DEF IInv
<1>1. script[k] \in Files \ recorded
  BY DEF InsertedOnce
<1>2. recorded' \in SUBSET Files /\ applied' \in [Files -> Nat]
  BY <1>1 DEF TypeOK
<1>3. TypeOK' /\ LoopBehind' /\ WaitsForScript' /\ FutureFree' /\ ReadyMeansMigrated'
  BY <1>2, EndTold DEF TypeOK
<1>4. AppliedOnce'
  BY <1>1 DEF AppliedOnce, TypeOK
<1>5. InOrder'
  BY <1>1 DEF InOrder, ScriptsInOrder, UpTo
<1>6. ScriptsInOrder'
  BY DEF Ends, TypeOK, ScriptsInOrder, UpTo
<1>7. InsertedOnce'
  BY DEF Ends, TypeOK, InsertedOnce
<1>8. FaultsCount'
  <2>1. \A p \in Procs : life[p] \in Nat /\ life[p] <= faults
    BY DEF FaultsCount, TypeOK
  <2> QED BY <2>1 DEF FaultsCount, TypeOK
<1> QED BY <1>3, <1>4, <1>5, <1>6, <1>7, <1>8

LEMMA SessionsKeep ==
  ASSUME IInv, NEW k \in Sessions, Fail(k) \/ Commit(k) \/ LoseSession(k)
  PROVE  IInv'
<1> USE MigrateAssumption
<1>1. faults \in 0..MaxFaults
  BY DEF IInv, TypeOK
<1>2. CASE Fail(k)
  BY <1>1, <1>2, RolledBackKeeps DEF Fail
<1>3. CASE Commit(k)
  <2>1. faults' \in 0..MaxFaults /\ faults <= faults'
    BY <1>1, <1>3 DEF Commit
  <2>2. /\ script[k] # 0 /\ inserted[k] /\ Ends(k) /\ TellsSuccess(k)
        /\ applied' = [applied EXCEPT ![script[k]] = @ + 1]
        /\ recorded' = recorded \union {script[k]}
        /\ UNCHANGED <<life, done, bad, table>>
    BY <1>3 DEF Commit
  <2> QED BY <2>1, <2>2, CommittedKeeps
<1>4. CASE LoseSession(k)
  <2>1. faults' \in 0..MaxFaults /\ faults <= faults'
    BY <1>1, <1>4 DEF LoseSession
  <2> QED BY <1>4, <2>1, RolledBackKeeps, CommittedKeeps DEF LoseSession
<1> QED BY <1>2, <1>3, <1>4

LEMMA StutterKeeps == ASSUME IInv, UNCHANGED vars PROVE IInv'
BY DEF vars, IInv, TypeOK, AppliedOnce, InOrder, ReadyMeansMigrated, LoopBehind, UpTo,
   WaitsForScript, Mine, FutureFree, ScriptsInOrder, InsertedOnce, FaultsCount

THEOREM MigrateInductive == Spec => []IInv
<1>1. ASSUME IInv, [Next]_vars
      PROVE  IInv'
  BY <1>1, LoopKeeps, SendScriptKeeps, CrashKeeps, InsertKeeps, SessionsKeep, StutterKeeps
     DEF Next, ProcStep, SessionStep
<1> QED BY <1>1, InitHolds, PTL DEF Spec

(* Recording in the script's own transaction makes a migration apply once: *)
(* whoever commits second fails on the primary key.                        *)
THEOREM MigrationsAppliedOnce == Spec => []AppliedOnce
BY MigrateInductive, PTL DEF IInv

(* Files are applied in the order of their names: a script is only sent    *)
(* after the ones before it are committed, and nothing is ever taken back. *)
THEOREM MigrationsInOrder == Spec => []InOrder
BY MigrateInductive, PTL DEF IInv

(* Who leaves migrate() without an exception finds every file applied.     *)
THEOREM ServesMigrated == Spec => []ReadyMeansMigrated
BY MigrateInductive, PTL DEF IInv
=============================================================================

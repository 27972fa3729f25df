------------------------------- MODULE Batch -------------------------------
(***************************************************************************)
(* BatchService (apps/backend/src/batch): an administrator's list of items *)
(* is worked off in the memory of the process that accepted it, in chunks, *)
(* with the counts in the job's row updated after each chunk. A process    *)
(* that starts looks for rows that have been "processing" for half an hour *)
(* and puts them back to "pending", a state no code picks jobs up from,    *)
(* whether the process that runs them is dead, only slow, or done by now.  *)
(***************************************************************************)
EXTENDS Naturals

CONSTANTS
  Job,         \* ids of batch jobs
  NoJob,       \* no such row (yet), or nobody runs it
  Items,       \* length of the payload, the same for every job
  ChunkSize,   \* CHUNK_SIZE
  MaxRestarts  \* bound: processes that die or start

Count == 0..Items
JobRow == [status : {"pending", "processing", "completed", "failed"},
           old : BOOLEAN,    \* startedAt is more than STUCK_TIMEOUT_MS ago
           processedItems : Count, failedItems : Count]
Run == [at : {"queued", "items", "chunk", "verdict"}, ok : Count, bad : Count]

ASSUME BatchAssumption ==
  /\ {Items, ChunkSize} \subseteq Nat \ {0}
  /\ MaxRestarts \in Nat
  /\ NoJob \notin JobRow \cup Run

VARIABLES
  job,      \* the batch_jobs table
  run,      \* the loop of processUserBatch or processCourseBatch, per job
  stuck,    \* jobs a starting process has found and will put back
  crashed,  \* history: a process died
  undone,   \* history: jobs put back after their verdict
  restarts

batchVars == <<job, run, stuck, crashed, undone, restarts>>

BatchTypeOK ==
  /\ job \in [Job -> JobRow \cup {NoJob}]
  /\ run \in [Job -> Run \cup {NoJob}]
  /\ stuck \subseteq Job /\ undone \subseteq Job
  /\ crashed \in BOOLEAN /\ restarts \in 0..MaxRestarts

BatchInit ==
  /\ job = [j \in Job |-> NoJob] /\ run = [j \in Job |-> NoJob]
  /\ stuck = {} /\ undone = {} /\ crashed = FALSE /\ restarts = 0

----------------------------------------------------------------------------
\* createUserBatch, createCourseBatch: the row, and setImmediate.
CreateBatch(j) ==
  /\ job[j] = NoJob
  /\ job' = [job EXCEPT ![j] = [status |-> "pending", old |-> FALSE,
                                processedItems |-> 0, failedItems |-> 0]]
  /\ run' = [run EXCEPT ![j] = [at |-> "queued", ok |-> 0, bad |-> 0]]
  /\ UNCHANGED <<stuck, crashed, undone, restarts>>

StartBatch(j) ==
  /\ run[j] # NoJob /\ run[j].at = "queued"
  /\ job' = [job EXCEPT ![j].status = "processing", ![j].old = FALSE]
  /\ run' = [run EXCEPT ![j].at = "items"]
  /\ UNCHANGED <<stuck, crashed, undone, restarts>>

\* Faulty variant of ProcessItem: an item that throws is not counted.
ProcessItemOrSkip(j) ==
  /\ run[j] # NoJob /\ run[j].at = "items"
  /\ \E ok \in {0, 1} :
       LET n == run[j].ok + run[j].bad + 1
       IN  run' = [run EXCEPT ![j] = [at |-> IF n % ChunkSize = 0 \/ n = Items THEN "chunk" ELSE "items",
                                      ok |-> run[j].ok + ok, bad |-> run[j].bad]]
  /\ UNCHANGED <<job, stuck, crashed, undone, restarts>>

\* One item is applied, or throws and is put on the list of errors.
ProcessItem(j) ==
  /\ run[j] # NoJob /\ run[j].at = "items"
  /\ \E ok \in {0, 1} :
       LET n == run[j].ok + run[j].bad + 1
       IN  run' = [run EXCEPT ![j] = [at |-> IF n % ChunkSize = 0 \/ n = Items THEN "chunk" ELSE "items",
                                      ok |-> run[j].ok + ok, bad |-> run[j].bad + 1 - ok]]
  /\ UNCHANGED <<job, stuck, crashed, undone, restarts>>

SaveChunk(j) ==
  /\ run[j] # NoJob /\ run[j].at = "chunk"
  /\ job' = [job EXCEPT ![j].processedItems = run[j].ok, ![j].failedItems = run[j].bad]
  /\ run' = [run EXCEPT ![j].at = IF run[j].ok + run[j].bad < Items THEN "items" ELSE "verdict"]
  /\ UNCHANGED <<stuck, crashed, undone, restarts>>

SaveVerdict(j) ==
  /\ run[j] # NoJob /\ run[j].at = "verdict"
  /\ job' = [job EXCEPT ![j].old = FALSE, ![j].processedItems = run[j].ok, ![j].failedItems = run[j].bad,
                        ![j].status = IF run[j].bad = Items THEN "failed" ELSE "completed"]
  /\ run' = [run EXCEPT ![j] = NoJob]
  /\ UNCHANGED <<stuck, crashed, undone, restarts>>

----------------------------------------------------------------------------
\* Half an hour has passed since startedAt.
GrowOld(j) ==
  /\ job[j] # NoJob /\ job[j].status = "processing" /\ ~job[j].old
  /\ job' = [job EXCEPT ![j].old = TRUE]
  /\ UNCHANGED <<run, stuck, crashed, undone, restarts>>

\* recoverStuckJobs, in a process that starts; one that died before, or another.
RecoverStuckJobs ==
  /\ restarts < MaxRestarts /\ restarts' = restarts + 1
  /\ stuck' = stuck \cup {j \in Job : job[j] # NoJob /\ job[j].status = "processing" /\ job[j].old}
  /\ \/ crashed' = TRUE /\ run' = [j \in Job |-> NoJob]
     \/ UNCHANGED <<crashed, run>>
  /\ UNCHANGED <<job, undone>>

\* The update of one row it found, whatever the row holds by now.
PutBack(j) ==
  /\ j \in stuck /\ stuck' = stuck \ {j}
  /\ job' = [job EXCEPT ![j].status = "pending", ![j].old = FALSE]
  /\ undone' = IF run[j] = NoJob THEN undone \cup {j} ELSE undone
  /\ UNCHANGED <<run, crashed, restarts>>

BatchNext ==
  \/ RecoverStuckJobs
  \/ \E j \in Job : CreateBatch(j) \/ StartBatch(j) \/ ProcessItem(j) \/ SaveChunk(j)
                      \/ SaveVerdict(j) \/ GrowOld(j) \/ PutBack(j)

\* Every service call of an item returns or throws.
BatchFairness == \A j \in Job : 
  WF_batchVars(StartBatch(j) \/ ProcessItem(j) \/ SaveChunk(j) \/ SaveVerdict(j))

Accounted(j) ==
  /\ job[j].status \in {"completed", "failed"}
  /\ job[j].processedItems + job[j].failedItems = Items
  /\ job[j].status = "failed" <=> job[j].processedItems = 0

\* Unless a process dies, every job comes to a verdict that accounts for all
\* of its items, even if another replica starts and takes it for stuck, unless
\* that replica found it before the verdict and put it back after.
JobsSettle ==
  \A j \in Job : <>[](job[j] = NoJob \/ crashed \/ j \in undone \/ Accounted(j))
=============================================================================

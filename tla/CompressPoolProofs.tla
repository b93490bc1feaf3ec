------------------------- MODULE CompressPoolProofs -------------------------
(***************************************************************************)
(* Theorems about module CompressPool, for every number of blocks, jobs    *)
(* and block sizes: its safety invariants, and that it implements          *)
(* CompressAll.  They all follow from one inductive invariant, IInv.       *)
(***************************************************************************)
EXTENDS CompressPool, TLAPS

\* Where output_write is says which buffers exist and which jobs can run.
StageInv ==
    /\ allocated <=> mpc \in {"create", "join", "gather", "check", "tables",
                              "bail"}
    /\ mpc = "alloc" => mb = 0 /\ \A j \in Jobs : jpc[j] = "none"
    /\ mpc = "create" => /\ mb =< njobs
                         /\ \A j \in Jobs : jpc[j] = "none" <=> j >= mb
    /\ mpc = "join" => /\ mb =< njobs
                       /\ \A j \in Jobs :
                             /\ jpc[j] = "none" <=> j >= njobs
                             /\ j < mb => jpc[j] = "exited"
    /\ mpc \in {"gather", "check", "tables"} =>
          \A j \in Jobs : ~Live(j)

\* What was printed and returned so far.
OutcomeInv ==
    /\ mpc \in {"bail", "returned", "exited", "crashed"} =>
          \A j \in Jobs : Live(j) => message = "job create failed"
    /\ mpc \in {"alloc", "create", "join", "gather", "check", "tables",
                "bail"} => result = "none"
    /\ mpc = "tables" \/ result = "ok" =>
          /\ \A b \in Blocks : status[b] = 2
          /\ \A j \in Jobs : ~Live(j) /\ ~GaveUp(j)

\* job_mutex is held exactly in the two critical sections of job().
MutexInv == \A j \in Jobs : job_mutex = j <=> jpc[j] \in {"check", "publish"}

\* A job between the two has a block, and has passed only claimed ones.
IndexInv ==
    \A j \in Jobs :
        /\ jpc[j] \in {"check", "compress", "relock", "publish"} =>
              jb[j] < NBlocks
        /\ \A b \in Blocks : b < jb[j] => status[b] # 0

\* The block of a job that works on it, or gave up on it, stays claimed and
\* belongs to no other job.
Has(j) == Working(j) \/ (allocated /\ GaveUp(j))

ClaimInv ==
    /\ \A j \in Jobs : Has(j) => status[jb[j]] = 1
    /\ \A j, k \in Jobs : Has(j) /\ Has(k) /\ j # k => jb[j] # jb[k]

\* compressed_size is right from the moment it is stored.
SizeInv ==
    /\ \A b \in Blocks : status[b] = 2 => compressed_size[b] \in 1..Size(b)
    /\ \A j \in Jobs : jpc[j] \in {"relock", "publish"} =>
                          compressed_size[jb[j]] \in 1..Size(jb[j])

\* The first mb blocks lie in entry_cbuffer one after the other.
GatheredBlock(b) ==
    /\ offset[b] = IF b = 0 THEN 0 ELSE offset[b - 1] + compressed_size[b - 1]
    /\ offset[b] + compressed_size[b] =< Len(entry_cbuffer)
    /\ \A i \in 1..compressed_size[b] : entry_cbuffer[offset[b] + i] = b

GatherInv ==
    /\ mpc \in {"alloc", "create", "join"} => entry_cbuffer = <<>>
    /\ mpc \in {"gather", "check", "tables"} =>
          /\ mb =< NBlocks
          /\ \A b \in Blocks : b < mb => GatheredBlock(b)
          /\ Len(entry_cbuffer) =
                IF mb = 0 THEN 0 ELSE offset[mb - 1] + compressed_size[mb - 1]
    /\ mpc \in {"check", "tables"} => mb = NBlocks

IInv ==
    /\ TypeOK
    /\ StageInv
    /\ OutcomeInv
    /\ MutexInv
    /\ IndexInv
    /\ ClaimInv
    /\ SizeInv
    /\ GatherInv

-----------------------------------------------------------------------------
\* The numbers of the jobs and of the blocks.
LEMMA JobDomain ==
    /\ NoJob \notin Jobs
    /\ MAX_JOBS \in Nat
    /\ \A j : j \in Jobs <=> j \in Nat /\ j < MAX_JOBS
    /\ \A j \in Jobs : j >= 0
  BY PoolAssumption DEF Jobs, NoJob

\* The jobs that are asked for.
LEMMA JobsAsked ==
    ASSUME TypeOK PROVE njobs \in Nat /\ njobs =< MAX_JOBS
<1>1. njobs \in 0..MAX_JOBS
  BY DEF TypeOK
<1>. QED  BY <1>1, PoolAssumption

LEMMA BlockDomain ==
    /\ NBlocks \in Nat /\ NBlocks > 0
    /\ BlockSize \in Nat
    /\ \A b : b \in Blocks <=> b \in Nat /\ b < NBlocks
    /\ \A b \in Blocks :
          Size(b) \in Nat /\ 1 =< Size(b) /\ Size(b) =< BlockSize
  BY PoolAssumption DEF Blocks, Size

\* A block number that jb can hold is a block when it is below the bound.
LEMMA CurrentBlock ==
    ASSUME TypeOK, IndexInv, NEW j \in Jobs,
           jpc[j] \in {"check", "compress", "relock", "publish"}
    PROVE  jb[j] \in Blocks /\ jb[j] \in Nat /\ jb[j] + 1 \in 0..NBlocks
<1>1. jb[j] \in 0..NBlocks
  BY DEF TypeOK
<1>2. jb[j] < NBlocks
  BY DEF IndexInv
<1>. QED  BY <1>1, <1>2, BlockDomain

LEMMA BlockTypes ==
    ASSUME TypeOK, NEW b \in Blocks
    PROVE  status[b] \in 0..2 /\ compressed_size[b] \in Nat /\ offset[b] \in Nat
<1>1. compressed_size[b] \in 0..BlockSize /\ status[b] \in 0..2 /\ offset[b] \in Nat
  BY DEF TypeOK
<1>. QED  BY <1>1, BlockDomain

LEMMA HeldBlock ==
    ASSUME TypeOK, IndexInv, NEW j \in Jobs, Has(j)
    PROVE  jb[j] \in Blocks
<1>1. jb[j] \in 0..NBlocks
  BY DEF TypeOK
<1>2. jb[j] < NBlocks
  BY DEF IndexInv, Has, Working, GaveUp
<1>. QED  BY <1>1, <1>2, BlockDomain

\* A job that can run excludes every stage but the ones that use the blocks
\* without having joined it.
LEMMA RunningStage ==
    ASSUME StageInv, allocated, NEW j \in Jobs, Live(j)
    PROVE  mpc \in {"create", "join", "bail"}
  BY DEF StageInv, Live

\* A step after which no job has a block it did not have, and no block of a
\* job that still has one is touched, keeps the claims apart.
LEMMA ClaimsKept ==
    ASSUME ClaimInv,
           \A k \in Jobs : Has(k)' => /\ Has(k)
                                      /\ jb'[k] = jb[k]
                                      /\ status'[jb[k]] = status[jb[k]]
    PROVE  ClaimInv'
  BY DEF ClaimInv

\* A job that gave up has left a block that is not done.
LEMMA DoneNotGivenUp ==
    ASSUME TypeOK, IndexInv, ClaimInv, allocated,
           \A b \in Blocks : status[b] = 2,
           NEW j \in Jobs
    PROVE  ~GaveUp(j)
<1>. SUFFICES ASSUME GaveUp(j) PROVE FALSE
  OBVIOUS
<1>1. Has(j)
  BY DEF Has
<1>2. status[jb[j]] = 1
  BY <1>1 DEF ClaimInv
<1>3. status[jb[j]] = 2
  BY <1>1, HeldBlock
<1>. QED  BY <1>2, <1>3

LEMMA StatusSet ==
    ASSUME NEW f \in [Blocks -> 0..2], NEW c \in Blocks, NEW v \in 1..2
    PROVE  LET g == [f EXCEPT ![c] = v]
           IN  /\ g \in [Blocks -> 0..2]
               /\ \A b \in Blocks : g[b] = IF b = c THEN v ELSE f[b]
  OBVIOUS

LEMMA PreviousBlock ==
    ASSUME NEW b \in Blocks, b # 0
    PROVE  b - 1 \in Blocks /\ b - 1 < b
  BY BlockDomain

LEMMA GatheredLength == ASSUME TypeOK PROVE Len(entry_cbuffer) \in Nat
<1>1. entry_cbuffer \in Seq(Blocks)
  BY DEF TypeOK
<1>. QED  BY <1>1

\* What buffer_add does to entry_cbuffer: the bytes of block b follow the
\* ones gathered before, which stay where they are.
LEMMA AppendBytes ==
    ASSUME TypeOK, NEW b \in Blocks
    PROVE  LET after == entry_cbuffer \o Bytes(b)
           IN  /\ compressed_size[b] \in Nat
               /\ after \in Seq(Blocks)
               /\ Len(entry_cbuffer) \in Nat
               /\ Len(after) = Len(entry_cbuffer) + compressed_size[b]
               /\ \A i \in 1..Len(entry_cbuffer) : after[i] = entry_cbuffer[i]
               /\ \A i \in 1..compressed_size[b] :
                     after[Len(entry_cbuffer) + i] = b
<1>1. compressed_size[b] \in Nat
  BY BlockTypes
<1>2. entry_cbuffer \in Seq(Blocks)
  BY DEF TypeOK
<1>3. /\ Bytes(b) \in Seq(Blocks)
      /\ Len(Bytes(b)) = compressed_size[b]
      /\ \A i \in 1..compressed_size[b] : Bytes(b)[i] = b
  BY <1>1 DEF Bytes
<1>. HIDE DEF Bytes
<1>. QED  BY <1>1, <1>2, <1>3

LEMMA InitIInv == Init => IInv
<1>. SUFFICES ASSUME Init PROVE IInv
  OBVIOUS
<1>1. TypeOK
  <2>1. mb \in 0..MAX_JOBS \cup 0..NBlocks
    BY PoolAssumption DEF Init
  <2>2. /\ status \in [Blocks -> 0..2]
        /\ compressed_size \in [Blocks -> 0..BlockSize]
        /\ offset \in [Blocks -> Nat]
        /\ jb \in [Jobs -> 0..NBlocks]
    BY PoolAssumption DEF Init
  <2>3. entry_cbuffer \in Seq(Blocks) /\ jpc \in [Jobs -> JobAt]
    BY DEF Init, JobAt
  <2>. QED  BY <2>1, <2>2, <2>3 DEF Init, TypeOK, MainAt
<1>2. StageInv /\ OutcomeInv
  BY DEF Init, StageInv, OutcomeInv, Live
<1>3. MutexInv /\ ClaimInv
  BY JobDomain DEF Init, MutexInv, ClaimInv, Has, Working, GaveUp
<1>4. IndexInv
  BY BlockDomain DEF Init, IndexInv
<1>5. SizeInv /\ GatherInv
  BY BlockDomain DEF Init, SizeInv, GatherInv
<1>. QED  BY <1>1, <1>2, <1>3, <1>4, <1>5 DEF IInv

-----------------------------------------------------------------------------
(***************************************************************************)
(* The steps of output_write.                                              *)
(***************************************************************************)
LEMMA KeepAllocate == ASSUME IInv, Allocate PROVE IInv'
<1>0. njobs >= 0
  <2>1. TypeOK
    BY DEF IInv
  <2>. QED  BY <2>1, JobsAsked
<1>. USE DEF IInv, Allocate, Bail, mainVars, blockVars, jobVars
<1>1. TypeOK'
  BY DEF TypeOK, MainAt
<1>2. StageInv'
  <2>1. mb = 0 /\ \A k \in Jobs : jpc[k] = "none"
    BY DEF StageInv
  <2>. QED  BY <1>0, <2>1, JobDomain DEF StageInv
<1>3. OutcomeInv'
  BY DEF StageInv, OutcomeInv, Live
<1>4. ClaimInv'
  BY DEF StageInv, ClaimInv, Has, Working, GaveUp
<1>5. GatherInv'
  BY DEF GatherInv
<1>6. MutexInv' /\ IndexInv' /\ SizeInv'
  BY DEF MutexInv, IndexInv, SizeInv
<1>. QED  BY <1>1, <1>2, <1>3, <1>4, <1>5, <1>6

LEMMA KeepCreateJob == ASSUME IInv, CreateJob PROVE IInv'
<1>. USE DEF IInv, CreateJob, mainVars, blockVars, jobVars
<1>1. mb \in Jobs /\ mb \in Nat /\ mb' \in 0..MAX_JOBS \cup 0..NBlocks
  <2>1. mb \in 0..MAX_JOBS \cup 0..NBlocks
    BY DEF TypeOK
  <2>. QED  BY <2>1, JobDomain, JobsAsked, PoolAssumption
<1>2. jpc[mb] = "none"
  BY <1>1 DEF StageInv
<1>3. \A k \in Jobs : jpc'[k] = IF k = mb THEN "loop" ELSE jpc[k]
  BY <1>1 DEF TypeOK
<1>4. TypeOK'
  BY <1>1 DEF TypeOK, JobAt
<1>5. StageInv'
  <2>1. mb' =< njobs
    BY <1>1, JobsAsked, PoolAssumption
  <2>2. \A k \in Jobs : jpc'[k] = "none" <=> k >= mb'
    BY <1>1, <1>3, JobDomain DEF StageInv
  <2>. QED  BY <2>1, <2>2 DEF StageInv
<1>6. OutcomeInv'
  BY DEF OutcomeInv
<1>7. MutexInv'
  BY <1>2, <1>3 DEF MutexInv
<1>8. IndexInv'
  BY <1>3 DEF IndexInv
<1>9. ClaimInv'
  <2>1. \A k \in Jobs : Has(k)' => Has(k)
    BY <1>3 DEF Has, Working, GaveUp
  <2>. QED  BY <2>1, ClaimsKept
<1>10. SizeInv'
  BY <1>3 DEF SizeInv
<1>11. GatherInv'
  BY DEF GatherInv
<1>. QED  BY <1>4, <1>5, <1>6, <1>7, <1>8, <1>9, <1>10, <1>11

LEMMA KeepCreateJobFails == ASSUME IInv, CreateJobFails PROVE IInv'
<1>. USE DEF IInv, CreateJobFails, Bail, mainVars, blockVars, jobVars
<1>1. TypeOK'
  BY DEF TypeOK, MainAt
<1>2. StageInv' /\ OutcomeInv' /\ GatherInv'
  BY DEF StageInv, OutcomeInv, GatherInv
<1>3. ClaimInv'
  BY DEF ClaimInv, Has, Working, GaveUp
<1>4. MutexInv' /\ IndexInv' /\ SizeInv'
  BY DEF MutexInv, IndexInv, SizeInv
<1>. QED  BY <1>1, <1>2, <1>3, <1>4

LEMMA KeepAllCreated == ASSUME IInv, AllCreated PROVE IInv'
<1>. USE DEF IInv, AllCreated, mainVars, blockVars, jobVars
<1>1. mb' \in 0..MAX_JOBS \cup 0..NBlocks
  BY PoolAssumption
<1>2. TypeOK'
  BY <1>1 DEF TypeOK, MainAt
<1>3. StageInv'
  BY JobDomain, JobsAsked, PoolAssumption DEF StageInv
<1>4. OutcomeInv' /\ GatherInv'
  BY DEF OutcomeInv, GatherInv
<1>5. ClaimInv'
  BY DEF ClaimInv, Has, Working, GaveUp
<1>6. MutexInv' /\ IndexInv' /\ SizeInv'
  BY DEF MutexInv, IndexInv, SizeInv
<1>. QED  BY <1>2, <1>3, <1>4, <1>5, <1>6

LEMMA KeepJoinJob == ASSUME IInv, JoinJob PROVE IInv'
<1>. USE DEF IInv, JoinJob, mainVars, blockVars, jobVars
<1>1. mb \in Nat /\ mb' =< njobs /\ mb' \in 0..MAX_JOBS \cup 0..NBlocks
  <2>1. mb \in 0..MAX_JOBS \cup 0..NBlocks
    BY DEF TypeOK
  <2>. QED  BY <2>1, JobsAsked, PoolAssumption
<1>2. TypeOK'
  BY <1>1 DEF TypeOK, MainAt
<1>3. StageInv'
  <2>1. \A k \in Jobs : k < mb' => k < mb \/ k = mb
    BY <1>1, JobDomain
  <2>. QED  BY <1>1, <2>1 DEF StageInv
<1>4. OutcomeInv' /\ GatherInv'
  BY DEF OutcomeInv, GatherInv
<1>5. ClaimInv'
  BY DEF ClaimInv, Has, Working, GaveUp
<1>6. MutexInv' /\ IndexInv' /\ SizeInv'
  BY DEF MutexInv, IndexInv, SizeInv
<1>. QED  BY <1>2, <1>3, <1>4, <1>5, <1>6

LEMMA KeepAllJoined == ASSUME IInv, AllJoined PROVE IInv'
<1>. USE DEF IInv, AllJoined, mainVars, blockVars, jobVars
<1>1. mb' \in 0..MAX_JOBS \cup 0..NBlocks
  BY PoolAssumption
<1>2. TypeOK'
  BY <1>1 DEF TypeOK, MainAt
<1>3. StageInv'
  BY JobDomain, JobsAsked DEF StageInv, Live
<1>4. OutcomeInv'
  BY DEF OutcomeInv
<1>5. GatherInv'
  <2>1. Len(entry_cbuffer') = 0 /\ mb' = 0
    BY DEF GatherInv
  <2>2. \A b \in Blocks : ~(b < mb')
    BY <2>1, BlockDomain
  <2>. QED  BY <2>1, <2>2, BlockDomain DEF GatherInv
<1>6. ClaimInv'
  BY DEF ClaimInv, Has, Working, GaveUp
<1>7. MutexInv' /\ IndexInv' /\ SizeInv'
  BY DEF MutexInv, IndexInv, SizeInv
<1>. QED  BY <1>2, <1>3, <1>4, <1>5, <1>6, <1>7

LEMMA KeepAllGathered == ASSUME IInv, AllGathered PROVE IInv'
<1>. USE DEF IInv, AllGathered, mainVars, blockVars, jobVars
<1>1. TypeOK'
  BY DEF TypeOK, MainAt
<1>2. StageInv' /\ OutcomeInv'
  BY DEF StageInv, OutcomeInv, Live
<1>3. GatherInv'
  BY DEF GatherInv, GatheredBlock
<1>4. ClaimInv'
  BY DEF ClaimInv, Has, Working, GaveUp
<1>5. MutexInv' /\ IndexInv' /\ SizeInv'
  BY DEF MutexInv, IndexInv, SizeInv
<1>. QED  BY <1>1, <1>2, <1>3, <1>4, <1>5

\* The copy of one block's bytes after the ones gathered before.
LEMMA KeepGatherBlock == ASSUME IInv, GatherBlock PROVE IInv'
<1>. USE DEF IInv, GatherBlock, mainVars, blockVars, jobVars
<1>1. mb \in Blocks /\ mb \in Nat /\ mb' \in 0..MAX_JOBS \cup 0..NBlocks
  <2>1. mb \in 0..MAX_JOBS \cup 0..NBlocks
    BY DEF TypeOK
  <2>. QED  BY <2>1, BlockDomain, PoolAssumption
<1>2. /\ compressed_size[mb] \in Nat
      /\ entry_cbuffer' \in Seq(Blocks)
      /\ Len(entry_cbuffer) \in Nat
      /\ Len(entry_cbuffer') = Len(entry_cbuffer) + compressed_size[mb]
      /\ \A i \in 1..Len(entry_cbuffer) : entry_cbuffer'[i] = entry_cbuffer[i]
      /\ \A i \in 1..compressed_size[mb] :
            entry_cbuffer'[Len(entry_cbuffer) + i] = mb
  BY <1>1, AppendBytes
<1>4. /\ offset' \in [Blocks -> Nat]
      /\ offset'[mb] = Len(entry_cbuffer)
      /\ \A b \in Blocks : b # mb => offset'[b] = offset[b]
  BY <1>1, <1>2 DEF TypeOK
<1>5. TypeOK'
  BY <1>1, <1>2, <1>4 DEF TypeOK
<1>6. StageInv' /\ OutcomeInv'
  BY DEF StageInv, OutcomeInv, Live
<1>7. GatherInv'
  <2>1. mb' =< NBlocks
    BY <1>1, BlockDomain
  <2>2. ASSUME NEW b \in Blocks, b < mb PROVE GatheredBlock(b)'
    <3>1. GatheredBlock(b)
      BY <2>2 DEF GatherInv
    <3>2. /\ offset[b] \in Nat /\ compressed_size[b] \in Nat
          /\ b # mb /\ (b # 0 => b - 1 \in Blocks /\ b - 1 # mb)
      BY <1>1, <2>2, BlockTypes, PreviousBlock
    <3>3. \A i \in 1..compressed_size[b] :
             offset[b] + i \in 1..Len(entry_cbuffer)
      BY <1>2, <3>1, <3>2 DEF GatheredBlock
    <3>4. \A i \in 1..compressed_size[b] : entry_cbuffer'[offset[b] + i] = b
      BY <1>2, <3>1, <3>3 DEF GatheredBlock
    <3>5. offset[b] + compressed_size[b] =< Len(entry_cbuffer')
      BY <1>2, <3>1, <3>2 DEF GatheredBlock
    <3>6. offset'[b] = offset[b] /\ (b # 0 => offset'[b - 1] = offset[b - 1])
      BY <1>4, <3>2
    <3>. QED  BY <3>1, <3>4, <3>5, <3>6 DEF GatheredBlock
  <2>3. ASSUME NEW b \in Blocks, b = mb PROVE GatheredBlock(b)'
    <3>1. mb # 0 => mb - 1 \in Blocks /\ mb - 1 # mb
      BY <1>1, PreviousBlock
    <3>2. offset'[mb] = IF mb = 0 THEN 0
                        ELSE offset'[mb - 1] + compressed_size[mb - 1]
      BY <1>4, <3>1 DEF GatherInv
    <3>. QED  BY <1>2, <1>4, <2>3, <3>2 DEF GatheredBlock
  <2>4. \A b \in Blocks : b < mb' => b < mb \/ b = mb
    BY <1>1, BlockDomain
  <2>5. \A b \in Blocks : b < mb' => GatheredBlock(b)'
    BY <2>2, <2>3, <2>4
  <2>6. Len(entry_cbuffer') = offset'[mb' - 1] + compressed_size[mb' - 1]
    BY <1>1, <1>2, <1>4
  <2>7. mb' # 0
    BY <1>1
  <2>. QED  BY <2>1, <2>5, <2>6, <2>7 DEF GatherInv
<1>8. ClaimInv'
  BY DEF ClaimInv, Has, Working, GaveUp
<1>9. MutexInv' /\ IndexInv' /\ SizeInv'
  BY DEF MutexInv, IndexInv, SizeInv
<1>. QED  BY <1>5, <1>6, <1>7, <1>8, <1>9

LEMMA KeepGatherBlockFails == ASSUME IInv, GatherBlockFails PROVE IInv'
<1>. USE DEF IInv, GatherBlockFails, Bail, mainVars, blockVars, jobVars
<1>1. offset' \in [Blocks -> Nat]
  <2>1. offset \in [Blocks -> Nat]
    BY DEF TypeOK
  <2>. QED  BY <2>1, GatheredLength
<1>2. TypeOK'
  BY <1>1 DEF TypeOK, MainAt
<1>3. StageInv' /\ GatherInv'
  BY DEF StageInv, GatherInv
<1>4. OutcomeInv'
  BY DEF StageInv, OutcomeInv, Live
<1>5. ClaimInv'
  BY DEF ClaimInv, Has, Working, GaveUp
<1>6. MutexInv' /\ IndexInv' /\ SizeInv'
  BY DEF MutexInv, IndexInv, SizeInv
<1>. QED  BY <1>2, <1>3, <1>4, <1>5, <1>6

\* The check lets no job that gave up through: its block is still claimed.
LEMMA KeepCheckStatus == ASSUME IInv, CheckStatus PROVE IInv'
<1>. USE DEF IInv, CheckStatus, Bail, mainVars, blockVars, jobVars
<1>1. TypeOK'
  BY DEF TypeOK, MainAt
<1>2. StageInv'
  BY DEF StageInv, Live
<1>3. GatherInv'
  BY DEF GatherInv, GatheredBlock
<1>4. OutcomeInv'
  <2>1. \A j \in Jobs : ~Live(j)
    BY DEF StageInv, Live
  <2>2. ASSUME \A b \in Blocks : status[b] = 2, NEW j \in Jobs
        PROVE  ~GaveUp(j)
    BY <2>2, DoneNotGivenUp DEF StageInv
  <2>. QED  BY <2>1, <2>2 DEF OutcomeInv, Live, GaveUp
<1>5. ClaimInv'
  BY DEF ClaimInv, Has, Working, GaveUp
<1>6. MutexInv' /\ IndexInv' /\ SizeInv'
  BY DEF MutexInv, IndexInv, SizeInv
<1>. QED  BY <1>1, <1>2, <1>3, <1>4, <1>5, <1>6

LEMMA KeepWriteTables == ASSUME IInv, WriteTables PROVE IInv'
<1>. USE DEF IInv, WriteTables, Bail, mainVars, blockVars, jobVars
<1>1. TypeOK'
  BY DEF TypeOK, MainAt
<1>2. StageInv' /\ GatherInv'
  BY DEF StageInv, GatherInv
<1>3. OutcomeInv'
  BY DEF OutcomeInv, Live, GaveUp
<1>4. ClaimInv'
  <2>1. \A k \in Jobs : Has(k)' => Has(k)
    BY DEF StageInv, Has, Working, GaveUp
  <2>. QED  BY <2>1, ClaimsKept
<1>5. MutexInv' /\ IndexInv' /\ SizeInv'
  BY DEF MutexInv, IndexInv, SizeInv
<1>. QED  BY <1>1, <1>2, <1>3, <1>4, <1>5

LEMMA KeepBailOut == ASSUME IInv, BailOut PROVE IInv'
<1>. USE DEF IInv, BailOut, mainVars, blockVars, jobVars
<1>1. TypeOK'
  BY DEF TypeOK, MainAt
<1>2. StageInv' /\ GatherInv'
  BY DEF StageInv, GatherInv
<1>5. OutcomeInv'
  BY DEF OutcomeInv, Live
<1>3. ClaimInv'
  BY DEF ClaimInv, Has, Working, GaveUp
<1>4. MutexInv' /\ IndexInv' /\ SizeInv'
  BY DEF MutexInv, IndexInv, SizeInv
<1>. QED  BY <1>1, <1>2, <1>3, <1>4, <1>5

LEMMA KeepProcessExit == ASSUME IInv, ProcessExit PROVE IInv'
<1>. USE DEF IInv, ProcessExit, mainVars, blockVars, jobVars
<1>1. TypeOK'
  BY DEF TypeOK, MainAt
<1>2. StageInv' /\ GatherInv'
  BY DEF StageInv, GatherInv
<1>3. OutcomeInv'
  BY DEF OutcomeInv, Live, GaveUp
<1>4. ClaimInv'
  BY DEF ClaimInv, Has, Working, GaveUp
<1>5. MutexInv' /\ IndexInv' /\ SizeInv'
  BY DEF MutexInv, IndexInv, SizeInv
<1>. QED  BY <1>1, <1>2, <1>3, <1>4, <1>5

-----------------------------------------------------------------------------
(***************************************************************************)
(* The steps of the jobs.                                                  *)
(***************************************************************************)
\* What every step of a running job leaves alone.
LEMMA KeepJobMoves ==
    ASSUME IInv, NEW j \in Jobs, NEW from \in JobAt \ {"none", "exited"},
           NEW to \in JobAt \ {"none"},
           JobMoves(j, from, to), UNCHANGED mainVars
    PROVE  /\ mpc \in {"create", "join", "bail"} /\ allocated
           /\ jpc' \in [Jobs -> JobAt]
           /\ \A k \in Jobs : jpc'[k] = IF k = j THEN to ELSE jpc[k]
           /\ StageInv'
<1>1. jpc \in [Jobs -> JobAt] /\ jpc[j] = from /\ allocated
  BY DEF IInv, TypeOK, JobMoves
<1>2. Live(j)
  BY <1>1 DEF Live
<1>3. mpc \in {"create", "join", "bail"}
  BY <1>1, <1>2, RunningStage DEF IInv
<1>4. /\ jpc' \in [Jobs -> JobAt]
      /\ \A k \in Jobs : jpc'[k] = IF k = j THEN to ELSE jpc[k]
  BY <1>1 DEF JobMoves
<1>5. UNCHANGED <<njobs, mpc, mb, allocated>>
  BY DEF mainVars
<1>6. StageInv'
  BY <1>1, <1>3, <1>4, <1>5 DEF IInv, StageInv
<1>. QED  BY <1>1, <1>3, <1>4, <1>6

LEMMA KeepJobLock == ASSUME IInv, NEW j \in Jobs, JobLock(j) PROVE IInv'
<1>. USE DEF IInv, JobLock, TakeMutex, mainVars, blockVars
<1>1. /\ mpc \in {"create", "join", "bail"} /\ allocated
      /\ jpc' \in [Jobs -> JobAt]
      /\ \A k \in Jobs : jpc'[k] = IF k = j THEN "check" ELSE jpc[k]
      /\ StageInv'
  BY KeepJobMoves DEF JobAt
<1>2. jpc[j] = "loop"
  BY DEF JobMoves
<1>3. TypeOK'
  BY <1>1 DEF TypeOK
<1>4. OutcomeInv'
  BY <1>1, <1>2 DEF OutcomeInv, Live
<1>5. MutexInv'
  BY <1>1, JobDomain DEF MutexInv
<1>6. IndexInv'
  BY <1>1 DEF IndexInv
<1>7. ClaimInv'
  <2>1. \A k \in Jobs : Has(k)' => Has(k)
    BY <1>1, <1>2 DEF Has, Working, GaveUp
  <2>. QED  BY <2>1, ClaimsKept
<1>8. SizeInv' /\ GatherInv'
  BY <1>1 DEF SizeInv, GatherInv
<1>. QED  BY <1>1, <1>3, <1>4, <1>5, <1>6, <1>7, <1>8

LEMMA KeepJobFinish == ASSUME IInv, NEW j \in Jobs, JobFinish(j) PROVE IInv'
<1>. USE DEF IInv, JobFinish, mainVars, blockVars
<1>1. /\ mpc \in {"create", "join", "bail"} /\ allocated
      /\ jpc' \in [Jobs -> JobAt]
      /\ \A k \in Jobs : jpc'[k] = IF k = j THEN "exited" ELSE jpc[k]
      /\ StageInv'
  BY KeepJobMoves DEF JobAt
<1>2. jpc[j] = "loop" /\ ~(jb[j] < NBlocks)
  BY BlockDomain DEF JobMoves
<1>3. TypeOK'
  BY <1>1 DEF TypeOK
<1>4. OutcomeInv'
  BY <1>1, <1>2 DEF OutcomeInv, Live
<1>5. MutexInv'
  BY <1>1, <1>2 DEF MutexInv
<1>6. IndexInv'
  BY <1>1 DEF IndexInv
<1>7. ClaimInv'
  <2>1. \A k \in Jobs : Has(k)' => Has(k)
    BY <1>1, <1>2 DEF Has, Working, GaveUp
  <2>. QED  BY <2>1, ClaimsKept
<1>8. SizeInv' /\ GatherInv'
  BY <1>1 DEF SizeInv, GatherInv
<1>. QED  BY <1>1, <1>3, <1>4, <1>5, <1>6, <1>7, <1>8

LEMMA KeepJobSkip == ASSUME IInv, NEW j \in Jobs, JobSkip(j) PROVE IInv'
<1>. USE DEF IInv, JobSkip, mainVars, blockVars
<1>1. /\ mpc \in {"create", "join", "bail"} /\ allocated
      /\ jpc' \in [Jobs -> JobAt]
      /\ \A k \in Jobs : jpc'[k] = IF k = j THEN "loop" ELSE jpc[k]
      /\ StageInv'
  BY KeepJobMoves DEF JobAt
<1>2. jpc[j] = "check"
  BY DEF JobMoves
<1>3. jb[j] \in Blocks /\ jb[j] \in Nat /\ jb[j] + 1 \in 0..NBlocks
  BY <1>2, CurrentBlock
<1>4. /\ jb' \in [Jobs -> 0..NBlocks]
      /\ \A k \in Jobs : jb'[k] = IF k = j THEN jb[j] + 1 ELSE jb[k]
  BY <1>3 DEF TypeOK
<1>5. TypeOK'
  BY <1>1, <1>4 DEF TypeOK
<1>6. OutcomeInv'
  BY <1>1, <1>2 DEF OutcomeInv, Live
<1>7. MutexInv'
  BY <1>1, <1>2, JobDomain DEF MutexInv
<1>8. IndexInv'
  <2>1. \A b \in Blocks : b < jb[j] + 1 => b < jb[j] \/ b = jb[j]
    BY <1>3, BlockDomain
  <2>. QED  BY <1>1, <1>4, <2>1 DEF IndexInv
<1>9. ClaimInv'
  <2>1. \A k \in Jobs : Has(k)' => Has(k) /\ jb'[k] = jb[k]
    BY <1>1, <1>4 DEF Has, Working, GaveUp
  <2>. QED  BY <2>1, ClaimsKept
<1>10. SizeInv' /\ GatherInv'
  BY <1>1, <1>4 DEF SizeInv, GatherInv
<1>. QED  BY <1>1, <1>5, <1>6, <1>7, <1>8, <1>9, <1>10

LEMMA KeepJobClaim == ASSUME IInv, NEW j \in Jobs, JobClaim(j) PROVE IInv'
<1>. USE DEF IInv, JobClaim, mainVars
<1>1. /\ mpc \in {"create", "join", "bail"} /\ allocated
      /\ jpc' \in [Jobs -> JobAt]
      /\ \A k \in Jobs : jpc'[k] = IF k = j THEN "compress" ELSE jpc[k]
      /\ StageInv'
  BY KeepJobMoves DEF JobAt
<1>2. jpc[j] = "check"
  BY DEF JobMoves
<1>3. jb[j] \in Blocks
  BY <1>2, CurrentBlock
<1>4. /\ status' \in [Blocks -> 0..2]
      /\ \A b \in Blocks : status'[b] = IF b = jb[j] THEN 1 ELSE status[b]
  <2>1. status \in [Blocks -> 0..2] /\ status' = [status EXCEPT ![jb[j]] = 1]
    BY DEF TypeOK
  <2>. QED  BY <1>3, <2>1, StatusSet
<1>5. TypeOK'
  BY <1>1, <1>4 DEF TypeOK
<1>6. OutcomeInv'
  <2>1. result # "ok" /\ mpc # "tables"
    BY <1>1 DEF OutcomeInv
  <2>. QED  BY <1>1, <1>2, <2>1 DEF OutcomeInv, Live
<1>7. MutexInv'
  BY <1>1, <1>2, JobDomain DEF MutexInv
<1>8. IndexInv'
  BY <1>1, <1>2, <1>4 DEF IndexInv
<1>9. ClaimInv'
  <2>1. \A k \in Jobs : Has(k)' => k = j \/ Has(k)
    BY <1>1 DEF Has, Working, GaveUp
  <2>2. \A k \in Jobs : Has(k) => jb[k] \in Blocks /\ status[jb[k]] = 1
    BY HeldBlock DEF ClaimInv
  <2>3. \A k \in Jobs : Has(k) => jb[k] # jb[j] /\ status'[jb[k]] = 1
    BY <1>4, <2>2
  <2>4. status'[jb[j]] = 1
    BY <1>3, <1>4
  <2>. QED  BY <2>1, <2>3, <2>4 DEF ClaimInv
<1>10. SizeInv'
  BY <1>1, <1>4 DEF SizeInv
<1>11. GatherInv'
  BY <1>1 DEF GatherInv
<1>. QED  BY <1>1, <1>5, <1>6, <1>7, <1>8, <1>9, <1>10, <1>11

\* The compressor's answer is stored, or the job gives up and keeps its block.
LEMMA KeepJobCompress == ASSUME IInv, NEW j \in Jobs, JobCompress(j) PROVE IInv'
<1>. DEFINE b == jb[j]
<1>. PICK rc \in CompressResults(Size(b)) :
        IF rc < 0 \/ rc > Size(b)
        THEN /\ JobMoves(j, "compress", "exited")
             /\ UNCHANGED compressed_size
        ELSE /\ JobMoves(j, "compress", "relock")
             /\ compressed_size' = [compressed_size EXCEPT ![b] = rc]
  BY DEF JobCompress
<1>. USE DEF IInv
<1>1. UNCHANGED <<mainVars, status, offset, entry_cbuffer, job_mutex, jb>>
  BY DEF JobCompress
<1>2. jpc[j] = "compress" /\ b \in Blocks /\ Has(j)
  <2>1. jpc[j] = "compress"
    BY DEF JobMoves
  <2>. QED  BY <2>1, CurrentBlock DEF Has, Working
<1>3. \E to \in {"relock", "exited"} :
         /\ mpc \in {"create", "join", "bail"} /\ allocated
         /\ jpc' \in [Jobs -> JobAt]
         /\ \A k \in Jobs : jpc'[k] = IF k = j THEN to ELSE jpc[k]
         /\ StageInv'
  <2>1. CASE JobMoves(j, "compress", "relock")
    BY <1>1, <2>1, KeepJobMoves DEF JobAt
  <2>2. CASE JobMoves(j, "compress", "exited")
    BY <1>1, <2>2, KeepJobMoves DEF JobAt
  <2>. QED  BY <2>1, <2>2
<1>4. /\ compressed_size' \in [Blocks -> 0..BlockSize]
      /\ \A c \in Blocks : c # b => compressed_size'[c] = compressed_size[c]
      /\ jpc'[j] = "relock" => compressed_size'[b] \in 1..Size(b)
  <2>1. compressed_size \in [Blocks -> 0..BlockSize] /\ jpc \in [Jobs -> JobAt]
    BY DEF TypeOK
  <2>2. CASE rc < 0 \/ rc > Size(b)
    BY <2>1, <2>2 DEF JobMoves
  <2>3. CASE ~(rc < 0 \/ rc > Size(b))
    <3>1. rc \in 1..Size(b) /\ rc \in 0..BlockSize
      BY <1>2, <2>3, BlockDomain DEF CompressResults
    <3>2. compressed_size' = [compressed_size EXCEPT ![b] = rc]
      BY <2>3
    <3>. QED  BY <1>2, <2>1, <3>1, <3>2
  <2>. QED  BY <2>2, <2>3
<1>5. TypeOK'
  BY <1>1, <1>3, <1>4 DEF TypeOK, mainVars
<1>6. OutcomeInv'
  <2>1. result # "ok" /\ mpc # "tables"
    BY <1>3 DEF OutcomeInv
  <2>. QED  BY <1>1, <1>2, <1>3, <2>1 DEF OutcomeInv, Live, mainVars
<1>7. MutexInv' /\ IndexInv'
  BY <1>1, <1>2, <1>3 DEF MutexInv, IndexInv
<1>8. ClaimInv'
  <2>1. \A k \in Jobs : Has(k)' => Has(k)
    BY <1>1, <1>2, <1>3 DEF Has, Working, GaveUp, mainVars
  <2>. QED  BY <1>1, <2>1, ClaimsKept
<1>9. SizeInv'
  <2>1. status[b] = 1
    BY <1>2 DEF ClaimInv
  <2>2. \A c \in Blocks : status'[c] = 2 => c # b /\ status[c] = 2
    BY <1>1, <2>1
  <2>3. ASSUME NEW k \in Jobs, k # j, jpc'[k] \in {"relock", "publish"}
        PROVE  jb[k] # b /\ jb[k] \in Blocks /\ jpc[k] \in {"relock", "publish"}
    <3>1. jpc[k] \in {"relock", "publish"}
      BY <1>3, <2>3
    <3>2. Has(k)
      BY <3>1 DEF Has, Working
    <3>. QED  BY <1>2, <2>3, <3>1, <3>2, HeldBlock DEF ClaimInv
  <2>4. \A k \in Jobs : jpc'[k] \in {"relock", "publish"} =>
                           compressed_size'[jb[k]] \in 1..Size(jb[k])
    <3>. SUFFICES ASSUME NEW k \in Jobs, jpc'[k] \in {"relock", "publish"}
                  PROVE  compressed_size'[jb[k]] \in 1..Size(jb[k])
      OBVIOUS
    <3>1. CASE k = j
      BY <1>3, <1>4, <3>1
    <3>2. CASE k # j
      BY <1>4, <2>3, <3>2 DEF SizeInv
    <3>. QED  BY <3>1, <3>2
  <2>. QED  BY <1>1, <1>4, <2>2, <2>4 DEF SizeInv
<1>10. GatherInv'
  BY <1>1, <1>3 DEF GatherInv, mainVars
<1>. QED  BY <1>3, <1>5, <1>6, <1>7, <1>8, <1>9, <1>10

LEMMA KeepJobRelock == ASSUME IInv, NEW j \in Jobs, JobRelock(j) PROVE IInv'
<1>. USE DEF IInv, JobRelock, TakeMutex, mainVars, blockVars
<1>1. /\ mpc \in {"create", "join", "bail"} /\ allocated
      /\ jpc' \in [Jobs -> JobAt]
      /\ \A k \in Jobs : jpc'[k] = IF k = j THEN "publish" ELSE jpc[k]
      /\ StageInv'
  BY KeepJobMoves DEF JobAt
<1>2. jpc[j] = "relock"
  BY DEF JobMoves
<1>3. TypeOK'
  BY <1>1 DEF TypeOK
<1>4. OutcomeInv'
  BY <1>1, <1>2 DEF OutcomeInv, Live
<1>5. MutexInv'
  BY <1>1, JobDomain DEF MutexInv
<1>6. IndexInv'
  BY <1>1, <1>2 DEF IndexInv
<1>7. ClaimInv'
  <2>1. \A k \in Jobs : Has(k)' => Has(k)
    BY <1>1, <1>2 DEF Has, Working, GaveUp
  <2>. QED  BY <2>1, ClaimsKept
<1>8. SizeInv' /\ GatherInv'
  BY <1>1, <1>2 DEF SizeInv, GatherInv
<1>. QED  BY <1>1, <1>3, <1>4, <1>5, <1>6, <1>7, <1>8

LEMMA KeepJobPublish == ASSUME IInv, NEW j \in Jobs, JobPublish(j) PROVE IInv'
<1>. USE DEF IInv, JobPublish, mainVars
<1>1. /\ mpc \in {"create", "join", "bail"} /\ allocated
      /\ jpc' \in [Jobs -> JobAt]
      /\ \A k \in Jobs : jpc'[k] = IF k = j THEN "loop" ELSE jpc[k]
      /\ StageInv'
  BY KeepJobMoves DEF JobAt
<1>2. jpc[j] = "publish" /\ Has(j)
  BY DEF JobMoves, Has, Working
<1>3. jb[j] \in Blocks /\ jb[j] \in Nat /\ jb[j] + 1 \in 0..NBlocks
  BY <1>2, CurrentBlock
<1>4. /\ jb' \in [Jobs -> 0..NBlocks]
      /\ \A k \in Jobs : jb'[k] = IF k = j THEN jb[j] + 1 ELSE jb[k]
  BY <1>3 DEF TypeOK
<1>5. /\ status' \in [Blocks -> 0..2]
      /\ \A b \in Blocks : status'[b] = IF b = jb[j] THEN 2 ELSE status[b]
  <2>1. status \in [Blocks -> 0..2] /\ status' = [status EXCEPT ![jb[j]] = 2]
    BY DEF TypeOK
  <2>. QED  BY <1>3, <2>1, StatusSet
<1>6. TypeOK'
  BY <1>1, <1>4, <1>5 DEF TypeOK
<1>7. OutcomeInv'
  <2>1. result # "ok" /\ mpc # "tables"
    BY <1>1 DEF OutcomeInv
  <2>. QED  BY <1>1, <1>2, <2>1 DEF OutcomeInv, Live
<1>8. MutexInv'
  BY <1>1, <1>2, JobDomain DEF MutexInv
<1>9. IndexInv'
  <2>1. \A b \in Blocks : b < jb[j] + 1 => b < jb[j] \/ b = jb[j]
    BY <1>3, BlockDomain
  <2>2. \A b \in Blocks : status[b] # 0 => status'[b] # 0
    BY <1>5
  <2>3. status'[jb[j]] # 0
    BY <1>3, <1>5
  <2>. QED  BY <1>1, <1>4, <2>1, <2>2, <2>3 DEF IndexInv
<1>10. ClaimInv'
  <2>1. \A k \in Jobs : Has(k)' => Has(k) /\ jb'[k] = jb[k] /\ k # j
    BY <1>1, <1>4 DEF Has, Working, GaveUp
  <2>2. \A k \in Jobs : Has(k) /\ k # j => jb[k] # jb[j] /\ jb[k] \in Blocks
    BY <1>2, HeldBlock DEF ClaimInv
  <2>. QED  BY <1>5, <2>1, <2>2, ClaimsKept
<1>11. SizeInv'
  <2>1. compressed_size[jb[j]] \in 1..Size(jb[j])
    BY <1>2 DEF SizeInv
  <2>. QED  BY <1>1, <1>4, <1>5, <2>1 DEF SizeInv
<1>12. GatherInv'
  BY <1>1 DEF GatherInv
<1>. QED  BY <1>1, <1>6, <1>7, <1>8, <1>9, <1>10, <1>11, <1>12

\* After the bail-out that frees the blocks, the invariant asks of the jobs
\* left only what job_mutex and blocks were like before.
LEMMA KeepJobAfterFree ==
    ASSUME IInv, NEW j \in Jobs, JobAfterFree(j) PROVE IInv'
<1>. USE DEF IInv
<1>1. /\ UNCHANGED <<mb, message, result, allocated, blockVars, jb>>
      /\ ~allocated /\ Live(j) /\ ~allocated'
  BY DEF JobAfterFree
<1>2. mpc = "returned"
  BY <1>1 DEF JobAfterFree, ProcessRunning, StageInv, TypeOK, MainAt, Live
<1>3. /\ mpc' \in {"returned", "crashed"}
      /\ \A k \in Jobs : jpc'[k] = jpc[k] \/ (k = j /\ jpc'[k] = "exited")
      /\ jpc' \in [Jobs -> JobAt]
      /\ job_mutex' \in Jobs \cup {NoJob}
  <2>1. /\ jpc \in [Jobs -> JobAt]
        /\ job_mutex \in Jobs \cup {NoJob}
    BY DEF TypeOK
  <2>2. CASE mpc' = "crashed" /\ UNCHANGED <<jpc, job_mutex>>
    BY <2>1, <2>2
  <2>3. CASE jpc' = [jpc EXCEPT ![j] = "exited"] /\ UNCHANGED mpc
    BY <1>2, <2>1, <2>3 DEF JobAfterFree, JobAt
  <2>. QED  BY <2>2, <2>3 DEF JobAfterFree
<1>4. TypeOK'
  <2>1. UNCHANGED <<njobs, mb>>
    BY DEF JobAfterFree
  <2>. QED  BY <1>1, <1>3, <2>1 DEF TypeOK, MainAt, blockVars
<1>5. StageInv' /\ GatherInv'
  BY <1>1, <1>3 DEF StageInv, GatherInv
<1>6. OutcomeInv'
  <2>1. result # "ok"
    BY <1>1 DEF OutcomeInv
  <2>. QED  BY <1>1, <1>2, <1>3, <2>1 DEF OutcomeInv, Live
<1>7. MutexInv'
  <2>1. CASE UNCHANGED <<jpc, job_mutex>>
    BY <2>1 DEF MutexInv
  <2>2. CASE /\ jpc' = [jpc EXCEPT ![j] = "exited"]
             /\ job_mutex' = IF job_mutex = j THEN NoJob ELSE job_mutex
    <3>1. \A k \in Jobs : jpc'[k] = IF k = j THEN "exited" ELSE jpc[k]
      BY <2>2 DEF TypeOK
    <3>. QED  BY <2>2, <3>1, JobDomain DEF MutexInv
  <2>. QED  BY <2>1, <2>2 DEF JobAfterFree
<1>8. IndexInv' /\ SizeInv'
  BY <1>1, <1>3 DEF IndexInv, SizeInv, blockVars
<1>9. ClaimInv'
  <2>1. \A k \in Jobs : Has(k)' => Has(k)
    BY <1>1, <1>3 DEF Has, Working, GaveUp
  <2>. QED  BY <1>1, <2>1, ClaimsKept DEF blockVars
<1>. QED  BY <1>4, <1>5, <1>6, <1>7, <1>8, <1>9

-----------------------------------------------------------------------------
(***************************************************************************)
(* The invariant and what follows from it.                                 *)
(***************************************************************************)
LEMMA StutterIInv == ASSUME IInv, UNCHANGED vars PROVE IInv'
<1>. USE DEF vars, mainVars, blockVars, jobVars
<1>1. TypeOK'
  BY DEF IInv, TypeOK
<1>2. StageInv' /\ MutexInv'
  BY DEF IInv, StageInv, MutexInv, Live
<1>3. IndexInv' /\ SizeInv'
  BY DEF IInv, IndexInv, SizeInv
<1>4. OutcomeInv'
  BY DEF IInv, OutcomeInv, Live, GaveUp
<1>5. ClaimInv'
  BY DEF IInv, ClaimInv, GaveUp, Has, Working
<1>6. GatherInv'
  BY DEF IInv, GatherInv, GatheredBlock
<1>. QED  BY <1>1, <1>2, <1>3, <1>4, <1>5, <1>6 DEF IInv

LEMMA StepIInv == IInv /\ [Next]_vars => IInv'
<1>. SUFFICES ASSUME IInv, [Next]_vars PROVE IInv'
  OBVIOUS
<1>1. CASE MainStep
  BY <1>1, KeepAllocate, KeepCreateJob, KeepCreateJobFails, KeepAllCreated,
     KeepJoinJob, KeepAllJoined, KeepGatherBlock, KeepGatherBlockFails,
     KeepAllGathered, KeepCheckStatus, KeepWriteTables, KeepBailOut,
     KeepProcessExit
     DEF MainStep
<1>2. ASSUME NEW j \in Jobs, JobStep(j) PROVE IInv'
  BY <1>2, KeepJobLock, KeepJobFinish, KeepJobSkip, KeepJobClaim, KeepJobCompress,
     KeepJobRelock, KeepJobPublish, KeepJobAfterFree
     DEF JobStep
<1>3. CASE Terminated \/ UNCHANGED vars
  BY <1>3, StutterIInv DEF Terminated
<1>. QED  BY <1>1, <1>2, <1>3 DEF Next

THEOREM Invariance == Spec => []IInv
  BY InitIInv, StepIInv, PTL DEF Spec

\* The variables of output_write and of the jobs stay within their types,
\* for any number of blocks and jobs and any block size.
THEOREM TypeCorrect == Spec => []TypeOK
<1>1. IInv => TypeOK
  BY DEF IInv
<1>. QED  BY <1>1, Invariance, PTL

\* Two jobs never work on one block, in any interleaving: the test and set
\* of blocks[b].status under job_mutex is enough.
THEOREM ClaimsExclusive == Spec => []ExclusiveClaim
<1>1. IInv => ExclusiveClaim
  BY DEF IInv, ClaimInv, Has, ExclusiveClaim
<1>. QED  BY <1>1, Invariance, PTL

\* What output_write gathers is every block, whole, at its offset.
THEOREM GatheredRight == Spec => []GatheredFaithful
<1>1. IInv => GatheredFaithful
  <2>. SUFFICES ASSUME IInv, mpc = "tables" PROVE GatheredFaithful
    BY DEF GatheredFaithful
  <2>1. /\ mb = NBlocks
        /\ \A b \in Blocks : b < mb => GatheredBlock(b)
        /\ Len(entry_cbuffer) =
              IF mb = 0 THEN 0 ELSE offset[mb - 1] + compressed_size[mb - 1]
    BY DEF IInv, GatherInv
  <2>2. \A b \in Blocks : status[b] = 2 /\ compressed_size[b] \in 1..Size(b)
    BY DEF IInv, OutcomeInv, SizeInv
  <2>3. \A b \in Blocks : GatheredBlock(b)
    BY <2>1, BlockDomain
  <2>4. Len(entry_cbuffer) =
           offset[NBlocks - 1] + compressed_size[NBlocks - 1]
    BY <2>1, BlockDomain
  <2>. QED  BY <2>2, <2>3, <2>4 DEF GatheredFaithful, GatheredBlock
<1>. QED  BY <1>1, Invariance, PTL

\* A job that gave up on a block keeps output_write from writing an image.
THEOREM FailureStops == Spec => []NoImageAfterFailure
<1>1. IInv => NoImageAfterFailure
  BY DEF IInv, OutcomeInv, NoImageAfterFailure
<1>. QED  BY <1>1, Invariance, PTL

\* Only the bail-out of a failed pthread_create frees what a job still uses.
THEOREM FreeAfterJoin == Spec => []FreedUnderJobOnlyIfCreateFailed
<1>1. IInv => FreedUnderJobOnlyIfCreateFailed
  <2>. SUFFICES ASSUME IInv, ~allocated, NEW j \in Jobs, Live(j)
                PROVE  message = "job create failed"
    BY DEF FreedUnderJobOnlyIfCreateFailed
  <2>1. mpc \notin {"create", "join", "gather", "check", "tables", "bail"}
    BY DEF IInv, StageInv
  <2>2. mpc # "alloc"
    BY DEF IInv, StageInv, Live
  <2>3. mpc \in {"bail", "returned", "exited", "crashed"}
    BY <2>1, <2>2 DEF IInv, TypeOK, MainAt
  <2>. QED  BY <2>3 DEF IInv, OutcomeInv
<1>. QED  BY <1>1, Invariance, PTL

\* A job that ran to the end of its loop leaves no block untouched.
THEOREM SurvivorSuffices == Spec => []SurvivorLeavesNoBlock
<1>1. IInv => SurvivorLeavesNoBlock
  <2>. SUFFICES ASSUME IInv, NEW j \in Jobs, jb[j] = NBlocks,
                       NEW b \in Blocks
                PROVE  status[b] # 0
    BY DEF SurvivorLeavesNoBlock
  <2>1. b < jb[j]
    BY BlockDomain
  <2>. QED  BY <2>1 DEF IInv, IndexInv
<1>. QED  BY <1>1, Invariance, PTL

-----------------------------------------------------------------------------
(***************************************************************************)
(* The pool implements CompressAll.                                        *)
(***************************************************************************)
Done == {b \in Blocks : status[b] = 2}

LEMMA InitRefines == Init => Pool!Init
  BY DEF Init, Pool!Init

\* A step that writes neither status nor result is invisible.
LEMMA InvisibleStep ==
    ASSUME UNCHANGED <<status, result>> PROVE UNCHANGED Pool!vars
  BY DEF Pool!vars

LEMMA StepRefines == IInv /\ [Next]_vars => [Pool!Next]_(Pool!vars)
<1>. SUFFICES ASSUME IInv, [Next]_vars PROVE [Pool!Next]_(Pool!vars)
  OBVIOUS
<1>. USE DEF mainVars, blockVars, jobVars
<1>1. CASE WriteTables
  <2>1. result = "none" /\ Done = Blocks
    BY <1>1 DEF WriteTables, IInv, OutcomeInv, Done
  <2>2. UNCHANGED status /\ (UNCHANGED result \/ result' = "ok")
    BY <1>1 DEF WriteTables
  <2>3. CASE UNCHANGED result
    BY <2>2, <2>3, InvisibleStep
  <2>4. CASE result' = "ok"
    BY <2>1, <2>2, <2>4 DEF Pool!Next, Pool!Succeed, Done
  <2>. QED  BY <2>2, <2>3, <2>4
<1>2. CASE BailOut
  <2>1. result = "none" /\ result' = "error" /\ UNCHANGED status
    BY <1>2 DEF BailOut, IInv, OutcomeInv
  <2>. QED  BY <2>1 DEF Pool!Next, Pool!Fail
<1>3. ASSUME NEW j \in Jobs, JobClaim(j) PROVE [Pool!Next]_(Pool!vars)
  <2>1. /\ status \in [Blocks -> 0..2] /\ status[jb[j]] = 0
        /\ status' = [status EXCEPT ![jb[j]] = 1] /\ UNCHANGED result
    BY <1>3 DEF JobClaim, IInv, TypeOK
  <2>2. \A b \in Blocks : status'[b] = 2 <=> status[b] = 2
    BY <2>1
  <2>3. Done' = Done
    BY <2>2 DEF Done
  <2>. QED  BY <2>1, <2>3 DEF Pool!vars, Done
<1>4. ASSUME NEW j \in Jobs, JobPublish(j) PROVE [Pool!Next]_(Pool!vars)
  <2>1. /\ jpc[j] = "publish" /\ allocated
        /\ status \in [Blocks -> 0..2]
        /\ status' = [status EXCEPT ![jb[j]] = 2] /\ UNCHANGED result
    BY <1>4 DEF JobPublish, JobMoves, IInv, TypeOK
  <2>2. jb[j] \in Blocks
    BY <2>1, CurrentBlock DEF IInv
  <2>3. status[jb[j]] = 1
    BY <2>1 DEF IInv, ClaimInv, Has, Working
  <2>4. result = "none"
    BY <2>1 DEF IInv, StageInv, OutcomeInv
  <2>5. \A b \in Blocks : status'[b] = IF b = jb[j] THEN 2 ELSE status[b]
    BY <2>1, <2>2, StatusSet
  <2>6. jb[j] \notin Done /\ Done' = Done \cup {jb[j]}
    BY <2>2, <2>3, <2>5 DEF Done
  <2>7. \E b \in Blocks : Pool!Finish(b)
    BY <2>1, <2>2, <2>4, <2>6 DEF Pool!Finish, Done
  <2>. QED  BY <2>7 DEF Pool!Next
<1>5. ASSUME NEW j \in Jobs, JobStep(j), ~JobClaim(j), ~JobPublish(j)
      PROVE  UNCHANGED <<status, result>>
  BY <1>5 DEF JobStep, JobLock, JobFinish, JobSkip, JobCompress, JobRelock,
              JobAfterFree
<1>6. ASSUME MainStep, ~WriteTables, ~BailOut
      PROVE  UNCHANGED <<status, result>>
  BY <1>6 DEF MainStep, Allocate, CreateJob, CreateJobFails, AllCreated,
              JoinJob, AllJoined, GatherBlock, GatherBlockFails,
              AllGathered, CheckStatus, ProcessExit
<1>7. CASE Terminated \/ UNCHANGED vars
  BY <1>7, InvisibleStep DEF Terminated, vars
<1>. QED  BY <1>1, <1>2, <1>3, <1>4, <1>5, <1>6, <1>7, InvisibleStep DEF Next

\* The pool implements the abstract specification of compressing all blocks,
\* its safety part: finished blocks grow one at a time and are never undone,
\* the answer is given once, and it is "ok" only when every block is done.
THEOREM Refinement == Spec => ImplementsCompressAllSafety
  BY InitRefines, StepRefines, Invariance, PTL
     DEF Spec, Pool!Spec, ImplementsCompressAllSafety
=============================================================================

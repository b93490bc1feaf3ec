---------------------------- MODULE CompressPool ----------------------------
(***************************************************************************)
(* The compression job pool of mkfs.smashfs (src/src/mkfs/mkfs.c): the     *)
(* thread function job() and the part of output_write() that allocates the *)
(* block table, creates the jobs, joins them, gathers the compressed       *)
(* blocks into entry_cbuffer and frees everything on both ways out.        *)
(*                                                                         *)
(* One action is one stretch of code between two points where another      *)
(* thread can be seen: taking job_mutex, releasing it, a call of           *)
(* compressor_compress, a pthread call.                                    *)
(***************************************************************************)
EXTENDS Integers, Sequences, FiniteSets

CONSTANTS NBlocks,    \* super.blocks
          MAX_JOBS,   \* the most jobs -j can ask for
          BlockSize,  \* super.block_size, in abstract units
          LastSize    \* the size of the last block, in the same units

ASSUME PoolAssumption ==
    /\ NBlocks \in Nat \ {0}
    /\ MAX_JOBS \in Nat
    /\ BlockSize \in Nat \ {0}
    /\ LastSize \in 1..BlockSize

Blocks == 0..(NBlocks - 1)
Jobs == 0..(MAX_JOBS - 1)

\* blocks[b].size: every block is full but the last one.
Size(b) == IF b = NBlocks - 1 THEN LastSize ELSE BlockSize

NoJob == -1           \* job_mutex is free

VARIABLES
    njobs,            \* the -j option: 8 by default, and 0 is let through
    mpc,              \* where output_write is
    mb,               \* its loop variable b
    message,          \* what it printed to stderr before goto bail
    result,           \* its return value: "none", "ok" (0) or "error" (-1)
    allocated,        \* blocks, the cbuffers and entry_buffer are not freed
    status,           \* blocks[b].status: 0 untouched, 1 claimed, 2 done
    compressed_size,  \* blocks[b].compressed_size, 0 from the memset
    offset,           \* blocks[b].offset
    entry_cbuffer,    \* the gathered bytes, each one as its block's number
    job_mutex,        \* the job that holds the mutex
    jpc,              \* where each job is
    jb                \* the loop variable b of each job

mainVars == <<njobs, mpc, mb, message, result, allocated>>
blockVars == <<status, compressed_size, offset, entry_cbuffer>>
jobVars == <<job_mutex, jpc, jb>>
vars == <<mainVars, blockVars, jobVars>>

MainAt == {"alloc", "create", "join", "gather", "check", "tables", "bail",
           "returned", "exited", "crashed"}
JobAt == {"none", "loop", "check", "compress", "relock", "publish", "exited"}

\* A thread that was created and has not returned from job().
Live(j) == jpc[j] \notin {"none", "exited"}

ProcessRunning == mpc \notin {"exited", "crashed"}

TypeOK ==
    /\ mpc \in MainAt
    /\ njobs \in 0..MAX_JOBS
    /\ mb \in 0..MAX_JOBS \cup 0..NBlocks
    /\ message \in {"none", "malloc failed", "job create failed",
                    "buffer add failed", "logic error", "write failed"}
    /\ result \in {"none", "ok", "error"}
    /\ allocated \in BOOLEAN
    /\ status \in [Blocks -> 0..2]
    /\ compressed_size \in [Blocks -> 0..BlockSize]
    /\ offset \in [Blocks -> Nat]
    /\ entry_cbuffer \in Seq(Blocks)
    /\ job_mutex \in Jobs \cup {NoJob}
    /\ jpc \in [Jobs -> JobAt]
    /\ jb \in [Jobs -> 0..NBlocks]

Init ==
    /\ njobs \in 0..MAX_JOBS
    /\ mpc = "alloc"
    /\ mb = 0
    /\ message = "none"
    /\ result = "none"
    /\ allocated = FALSE
    /\ status = [b \in Blocks |-> 0]
    /\ compressed_size = [b \in Blocks |-> 0]
    /\ offset = [b \in Blocks |-> 0]
    /\ entry_cbuffer = <<>>
    /\ job_mutex = NoJob
    /\ jpc = [j \in Jobs |-> "none"]
    /\ jb = [j \in Jobs |-> 0]

-----------------------------------------------------------------------------
(***************************************************************************)
(* The job threads.  Every action of a job reads ja->nblocks or ja->blocks, *)
(* which live in output_write's frame and in its heap block, so it is      *)
(* meaningful only while they are allocated.                               *)
(***************************************************************************)
JobMoves(j, from, to) ==
    /\ ProcessRunning
    /\ allocated
    /\ jpc[j] = from
    /\ jpc' = [jpc EXCEPT ![j] = to]

TakeMutex(j) == job_mutex = NoJob /\ job_mutex' = j

\* The for condition holds and pthread_mutex_lock returns.
JobLock(j) ==
    /\ jb[j] < NBlocks
    /\ JobMoves(j, "loop", "check")
    /\ TakeMutex(j)
    /\ UNCHANGED <<mainVars, blockVars, jb>>

\* The for condition fails: job returns NULL.
JobFinish(j) ==
    /\ jb[j] = NBlocks
    /\ JobMoves(j, "loop", "exited")
    /\ UNCHANGED <<mainVars, blockVars, job_mutex, jb>>

\* mutant: break in the place of continue
JobSkipBreaks(j) ==
    /\ JobMoves(j, "check", "loop")
    /\ status[jb[j]] # 0
    /\ job_mutex' = NoJob
    /\ jb' = [jb EXCEPT ![j] = NBlocks]
    /\ UNCHANGED <<mainVars, blockVars>>

\* status != 0: unlock and continue.
JobSkip(j) ==
    /\ JobMoves(j, "check", "loop")
    /\ status[jb[j]] # 0
    /\ job_mutex' = NoJob
    /\ jb' = [jb EXCEPT ![j] = @ + 1]
    /\ UNCHANGED <<mainVars, blockVars>>

\* mutant: the status is not looked at before the claim
JobClaimUnchecked(j) ==
    /\ JobMoves(j, "check", "compress")
    /\ status' = [status EXCEPT ![jb[j]] = 1]
    /\ job_mutex' = NoJob
    /\ UNCHANGED <<mainVars, compressed_size, offset, entry_cbuffer, jb>>

\* status == 0: claim the block and unlock.
JobClaim(j) ==
    /\ JobMoves(j, "check", "compress")
    /\ status[jb[j]] = 0
    /\ status' = [status EXCEPT ![jb[j]] = 1]
    /\ job_mutex' = NoJob
    /\ UNCHANGED <<mainVars, compressed_size, offset, entry_cbuffer, jb>>

\* What compressor_compress can return for a block of n units with dsize 2n:
\* -1, or a length of at least 1, since no input here is empty.
CompressResults(n) == {-1} \cup 1..(2 * n)

\* mutant: the comparison with the block's own size is dropped
JobCompressAnySize(j) ==
    LET b == jb[j] IN
    /\ \E rc \in CompressResults(Size(b)) :
          IF rc < 0
          THEN /\ JobMoves(j, "compress", "exited")
               /\ UNCHANGED compressed_size
          ELSE /\ JobMoves(j, "compress", "relock")
               /\ compressed_size' = [compressed_size EXCEPT ![b] = rc]
    /\ UNCHANGED <<mainVars, status, offset, entry_cbuffer, job_mutex, jb>>

\* The compressor runs without the mutex.  If it fails, or its output is
\* longer than the block, the job returns and leaves the block claimed.
JobCompress(j) ==
    LET b == jb[j] IN
    /\ \E rc \in CompressResults(Size(b)) :
          IF rc < 0 \/ rc > Size(b)
          THEN /\ JobMoves(j, "compress", "exited")
               /\ UNCHANGED compressed_size
          ELSE /\ JobMoves(j, "compress", "relock")
               /\ compressed_size' = [compressed_size EXCEPT ![b] = rc]
    /\ UNCHANGED <<mainVars, status, offset, entry_cbuffer, job_mutex, jb>>

JobRelock(j) ==
    /\ JobMoves(j, "relock", "publish")
    /\ TakeMutex(j)
    /\ UNCHANGED <<mainVars, blockVars, jb>>

\* status = 2, unlock, next iteration.
JobPublish(j) ==
    /\ JobMoves(j, "publish", "loop")
    /\ status' = [status EXCEPT ![jb[j]] = 2]
    /\ job_mutex' = NoJob
    /\ jb' = [jb EXCEPT ![j] = @ + 1]
    /\ UNCHANGED <<mainVars, compressed_size, offset, entry_cbuffer>>

\* A thread that outlives its blocks reads freed memory.  What it finds is
\* undefined: the process is killed, or the thread happens to return.
JobAfterFree(j) ==
    /\ ProcessRunning
    /\ Live(j)
    /\ ~allocated
    /\ \/ mpc' = "crashed" /\ UNCHANGED <<jpc, job_mutex>>
       \/ /\ jpc' = [jpc EXCEPT ![j] = "exited"]
          /\ job_mutex' = IF job_mutex = j THEN NoJob ELSE job_mutex
          /\ UNCHANGED mpc
    /\ UNCHANGED <<njobs, mb, message, result, allocated, blockVars, jb>>

JobStep(j) ==
    \/ JobLock(j)
    \/ JobFinish(j)
    \/ JobSkip(j)
    \/ JobClaim(j)
    \/ JobCompress(j)
    \/ JobRelock(j)
    \/ JobPublish(j)
    \/ JobAfterFree(j)

-----------------------------------------------------------------------------
(***************************************************************************)
(* output_write, which runs on the main thread.                            *)
(***************************************************************************)
Bail(why) ==
    /\ mpc' = "bail"
    /\ message' = why

\* blocks, bc and every cbuffer, or a malloc that fails.
Allocate ==
    /\ mpc = "alloc"
    /\ allocated' = TRUE
    /\ \/ mpc' = "create" /\ UNCHANGED message
       \/ Bail("malloc failed")
    /\ UNCHANGED <<njobs, mb, result, blockVars, jobVars>>

\* pthread_create(&jobs[b], NULL, job, &job_arg) succeeds: the thread is
\* at its first iteration.
CreateJob ==
    /\ mpc = "create"
    /\ mb < njobs
    /\ mb' = mb + 1
    /\ jpc' = [jpc EXCEPT ![mb] = "loop"]
    /\ UNCHANGED <<njobs, mpc, message, result, allocated, blockVars, job_mutex,
                   jb>>

\* pthread_create fails: the jobs created so far keep running.
CreateJobFails ==
    /\ mpc = "create"
    /\ mb < njobs
    /\ Bail("job create failed")
    /\ UNCHANGED <<njobs, mb, result, allocated, blockVars, jobVars>>

AllCreated ==
    /\ mpc = "create"
    /\ mb = njobs
    /\ mpc' = "join"
    /\ mb' = 0
    /\ UNCHANGED <<njobs, message, result, allocated, blockVars, jobVars>>

\* pthread_join(jobs[b]) returns once that job has; it cannot fail for a
\* thread that was created, is joinable and is joined once.
JoinJob ==
    /\ mpc = "join"
    /\ mb < njobs
    /\ jpc[mb] = "exited"
    /\ mb' = mb + 1
    /\ UNCHANGED <<njobs, mpc, message, result, allocated, blockVars, jobVars>>

\* mutant: the join loop stops one job early
AllJoinedEarly ==
    /\ mpc = "join"
    /\ mb >= njobs - 1
    /\ mpc' = "gather"
    /\ mb' = 0
    /\ UNCHANGED <<njobs, message, result, allocated, blockVars, jobVars>>

AllJoined ==
    /\ mpc = "join"
    /\ mb = njobs
    /\ mpc' = "gather"
    /\ mb' = 0
    /\ UNCHANGED <<njobs, message, result, allocated, blockVars, jobVars>>

\* The bytes of block b as buffer_add copies them out of its cbuffer.
Bytes(b) == [i \in 1..compressed_size[b] |-> b]

\* mutant: the running offset is advanced before it is stored
GatherBlockOffByOne ==
    /\ mpc = "gather"
    /\ mb < NBlocks
    /\ entry_cbuffer' = entry_cbuffer \o Bytes(mb)
    /\ offset' = [offset EXCEPT ![mb] = Len(entry_cbuffer')]
    /\ mb' = mb + 1
    /\ UNCHANGED <<njobs, mpc, message, result, allocated, status,
                   compressed_size, jobVars>>

\* blocks[b].offset is max_block_offset, the number of bytes added so far;
\* a block whose job gave up adds none.
GatherBlock ==
    /\ mpc = "gather"
    /\ mb < NBlocks
    /\ offset' = [offset EXCEPT ![mb] = Len(entry_cbuffer)]
    /\ entry_cbuffer' = entry_cbuffer \o Bytes(mb)
    /\ mb' = mb + 1
    /\ UNCHANGED <<njobs, mpc, message, result, allocated, status,
                   compressed_size, jobVars>>

\* buffer_add returns -1: it cannot grow the buffer.
GatherBlockFails ==
    /\ mpc = "gather"
    /\ mb < NBlocks
    /\ offset' = [offset EXCEPT ![mb] = Len(entry_cbuffer)]
    /\ Bail("buffer add failed")
    /\ UNCHANGED <<njobs, mb, result, allocated, status, compressed_size,
                   entry_cbuffer, jobVars>>

AllGathered ==
    /\ mpc = "gather"
    /\ mb = NBlocks
    /\ mpc' = "check"
    /\ UNCHANGED <<njobs, mb, message, result, allocated, blockVars, jobVars>>

\* mutant: a claimed block passes for a finished one
CheckStatusTooWeak ==
    /\ mpc = "check"
    /\ IF \A b \in Blocks : status[b] # 0
       THEN mpc' = "tables" /\ UNCHANGED message
       ELSE Bail("logic error")
    /\ UNCHANGED <<njobs, mb, result, allocated, blockVars, jobVars>>

\* The loop that looks for a block whose status is not 2.
CheckStatus ==
    /\ mpc = "check"
    /\ IF \A b \in Blocks : status[b] = 2
       THEN mpc' = "tables" /\ UNCHANGED message
       ELSE Bail("logic error")
    /\ UNCHANGED <<njobs, mb, result, allocated, blockVars, jobVars>>

\* The tables and the output file are written (module ImageTables), the
\* buffers are freed and output_write returns 0; or one of those steps fails.
WriteTables ==
    /\ mpc = "tables"
    /\ \/ /\ mpc' = "returned"
          /\ result' = "ok"
          /\ allocated' = FALSE
          /\ UNCHANGED message
       \/ Bail("write failed") /\ UNCHANGED <<result, allocated>>
    /\ UNCHANGED <<njobs, mb, blockVars, jobVars>>

\* The bail label: everything is freed and output_write returns -1.
BailOut ==
    /\ mpc = "bail"
    /\ mpc' = "returned"
    /\ result' = "error"
    /\ allocated' = FALSE
    /\ UNCHANGED <<njobs, mb, message, blockVars, jobVars>>

\* main returns: the process ends, and its threads with it.
ProcessExit ==
    /\ mpc = "returned"
    /\ mpc' = "exited"
    /\ UNCHANGED <<njobs, mb, message, result, allocated, blockVars, jobVars>>

MainStep ==
    \/ Allocate
    \/ CreateJob
    \/ CreateJobFails
    \/ AllCreated
    \/ JoinJob
    \/ AllJoined
    \/ GatherBlock
    \/ GatherBlockFails
    \/ AllGathered
    \/ CheckStatus
    \/ WriteTables
    \/ BailOut
    \/ ProcessExit

\* The process is gone.
Terminated == ~ProcessRunning /\ UNCHANGED vars

Next == MainStep \/ (\E j \in Jobs : JobStep(j)) \/ Terminated

\* The kernel schedules every runnable thread.  A job takes the mutex at most
\* 2 * NBlocks times, so weak fairness also gets every waiter its turn.
Fairness == WF_vars(MainStep) /\ \A j \in Jobs : WF_vars(JobStep(j))

Spec == Init /\ [][Next]_vars
FairSpec == Spec /\ Fairness

-----------------------------------------------------------------------------
(***************************************************************************)
(* Properties                                                              *)
(***************************************************************************)

\* Working(j): job j has claimed a block and has not published it.
Working(j) == jpc[j] \in {"compress", "relock", "publish"}

\* A job that returned before the end of its loop: its compression failed.
GaveUp(j) == jpc[j] = "exited" /\ jb[j] < NBlocks

\* Two jobs never have the same block, and the block a job has is marked
\* claimed: the test and set of blocks[b].status under job_mutex is what
\* keeps two threads from writing one cbuffer and one compressed_size.
ExclusiveClaim ==
    /\ \A j \in Jobs : Working(j) => status[jb[j]] = 1
    /\ \A j, k \in Jobs : Working(j) /\ Working(k) /\ j # k => jb[j] # jb[k]

\* Once output_write goes on to the tables, whatever order the jobs ran in:
\* entry_cbuffer holds at blocks[b].offset exactly the bytes of block b, no
\* block is missing or longer than its uncompressed size (the driver reads it
\* into a buffer of block_size bytes), and nothing lies between the blocks.
GatheredFaithful ==
    mpc = "tables" =>
        /\ \A b \in Blocks :
              /\ status[b] = 2
              /\ compressed_size[b] \in 1..Size(b)
              /\ offset[b] = IF b = 0 THEN 0
                             ELSE offset[b - 1] + compressed_size[b - 1]
              /\ offset[b] + compressed_size[b] =< Len(entry_cbuffer)
              /\ \A i \in 1..compressed_size[b] :
                    entry_cbuffer[offset[b] + i] = b
        /\ Len(entry_cbuffer) =
              offset[NBlocks - 1] + compressed_size[NBlocks - 1]

\* A job has no way to report an error but the status it leaves behind: if
\* any job gave up, output_write never gets as far as writing an image.
NoImageAfterFailure ==
    (\E j \in Jobs : GaveUp(j)) => mpc # "tables" /\ result # "ok"

\* The buffers the jobs use are freed under a running job in one case only,
\* the bail-out after pthread_create failed: every other way out of
\* output_write has joined all the jobs it created.
FreedUnderJobOnlyIfCreateFailed ==
    ~allocated /\ (\E j \in Jobs : Live(j)) => message = "job create failed"

\* One job that gets to the end of its loop is enough for every block to have
\* been claimed by someone: jobs that give up leave no block unattempted, so
\* an untouched block at the check means that every job failed.
SurvivorLeavesNoBlock ==
    (\E j \in Jobs : jpc[j] = "exited" /\ jb[j] = NBlocks) =>
        \A b \in Blocks : status[b] # 0

\* What the pool promises its caller (module CompressAll): blocks get done
\* one at a time and never undone, success means that all are, and there is
\* an answer in the end.
Pool == INSTANCE CompressAll WITH
            done <- {b \in Blocks : status[b] = 2}
ImplementsCompressAll == Pool!FairSpec
ImplementsCompressAllSafety == Pool!Spec
=============================================================================

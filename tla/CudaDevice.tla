----------------------------- MODULE CudaDevice -----------------------------
(***************************************************************************)
(* What the two CUDA programs use of the runtime: buffers in the memory of *)
(* the device, a launch that returns before its threads have run, and the  *)
(* two ways in which a kernel fails: it is not launched at all, which only *)
(* cudaGetLastError tells, or it breaks off, which every later call that   *)
(* waits for it tells.                                                     *)
(***************************************************************************)
EXTENDS Integers

CONSTANTS
    NoBuffer,   \* the contents of a pointer nothing was allocated for
    Garbage     \* what an allocation or an array holds before it is written

VARIABLES
    device,         \* the contents of every buffer, by its pointer
    threads,        \* how many turns every thread of the kernel has done
    launchError,    \* what cudaGetLastError would tell
    fault           \* a kernel has broken off
deviceVars == <<device, threads, launchError, fault>>

NoThreads == [t \in {} |-> 0]
Pointers == {"d_MatA", "d_MatB", "d_MatC", "gpuData"}     \* of the two programs

DeviceInit ==
    /\ device = [p \in Pointers |-> NoBuffer]
    /\ threads = NoThreads
    /\ launchError = FALSE /\ fault = FALSE

Malloc(p, size) ==
    /\ device' = [device EXCEPT ![p] = [n \in 0..(size - 1) |-> Garbage]]
    /\ UNCHANGED <<threads, launchError, fault>>

CopyToDevice(p, contents) ==
    /\ device' = [device EXCEPT ![p] = contents]
    /\ UNCHANGED <<threads, launchError, fault>>

\* The place of a thread if a block reached into the next one.
OverlappingPlace(t, blockDim) == (t \div blockDim) * (blockDim - 1) + (t % blockDim)
\* threadIdx.x + blockIdx.x * blockDim.x: threads are numbered block after block.
Place(t, blockDim) == (t \div blockDim) * blockDim + (t % blockDim)

\* Only the blocks that are full.
BlocksRoundedDown(size, blockDim) == size \div blockDim
\* The number of blocks is rounded up.
Blocks(size, blockDim) == (size + blockDim - 1) \div blockDim

\* The launch, of threads that have done nothing yet; it may fail unnoticed.
Launch(blocks, blockDim) ==
    /\ threads' = [t \in 0..(blocks * blockDim - 1) |-> 0]
    /\ UNCHANGED <<device, launchError, fault>>
LaunchFails ==
    /\ launchError' = TRUE
    /\ UNCHANGED <<device, threads, fault>>

\* The device has done all it was given: every thread has done its turns.
Idle(turns) == \A t \in DOMAIN threads : threads[t] = turns

\* The kernel breaks off: no thread of it goes on.
BreaksOff(turns) ==
    /\ ~Idle(turns)
    /\ fault' = TRUE
    /\ threads' = NoThreads
    /\ UNCHANGED <<device, launchError>>

\* A call that waits for the device succeeds.
WaitSucceeds(turns) == Idle(turns) /\ ~fault

FreeDevice ==
    /\ device' = [p \in Pointers |-> NoBuffer]
    /\ threads' = NoThreads
    /\ UNCHANGED <<launchError, fault>>
=============================================================================

------------------------------ MODULE SumMatrix -----------------------------
(***************************************************************************)
(* cuda/book/ch1.cu: two matrices of ny rows and nx columns are added on   *)
(* the host and on the device, one thread for every column, and the two    *)
(* sums are compared.  Every call in CHECK may fail, and the program exits.*)
(***************************************************************************)
EXTENDS CudaDevice

CONSTANTS
    nx, ny, dimx,   \* 4096, 4096 and 32 in the code
    InitialData     \* what rand may put into a matrix

ASSUME SizeAssumption == nx \in Nat \ {0} /\ ny \in Nat \ {0} /\ dimx \in Nat \ {0}

nxy == nx * ny
Elements == 0..(nxy - 1)

ASSUME DataAssumption == InitialData \subseteq [Elements -> Int]

VARIABLES
    sumPc,              \* the call of main that comes next
    h_A, h_B, hostRef, gpuRef,
    match               \* what checkResult has printed
sumVars == <<sumPc, h_A, h_B, hostRef, gpuRef, match, deviceVars>>
hostVars == <<h_A, h_B, hostRef, gpuRef, match>>

SumInit ==
    /\ sumPc = "start"
    /\ h_A = NoBuffer /\ h_B = NoBuffer /\ hostRef = NoBuffer /\ gpuRef = NoBuffer
    /\ match = FALSE
    /\ DeviceInit

\* The host's memory is allocated and filled.
initialData(array) == array \in InitialData
AllocateHost ==
    /\ sumPc = "start" /\ sumPc' = "on the host"
    /\ initialData(h_A') /\ initialData(h_B')
    /\ hostRef' = [n \in Elements |-> 0] /\ gpuRef' = [n \in Elements |-> 0]
    /\ UNCHANGED <<match, deviceVars>>

sumMatrixOnHost ==
    /\ sumPc = "on the host" /\ sumPc' = "malloc d_MatA"
    /\ hostRef' = [n \in Elements |-> h_A[n] + h_B[n]]
    /\ UNCHANGED <<h_A, h_B, gpuRef, match, deviceVars>>

\* The calls before the launch, in their order.
Allocate(p, now, next) ==
    /\ sumPc = now /\ sumPc' = next
    /\ Malloc(p, nxy)
    /\ UNCHANGED hostVars
AllocateAll ==
    \/ Allocate("d_MatA", "malloc d_MatA", "malloc d_MatB")
    \/ Allocate("d_MatB", "malloc d_MatB", "malloc d_MatC")
    \/ Allocate("d_MatC", "malloc d_MatC", "copy d_MatA")
CopyInputs ==
    \/ /\ sumPc = "copy d_MatA" /\ sumPc' = "copy d_MatB"
       /\ CopyToDevice("d_MatA", h_A)
       /\ UNCHANGED hostVars
    \/ /\ sumPc = "copy d_MatB" /\ sumPc' = "launch"
       /\ CopyToDevice("d_MatB", h_B)
       /\ UNCHANGED hostVars

LaunchKernel ==
    /\ sumPc = "launch" /\ sumPc' = "synchronize"
    /\ Launch(Blocks(nx, dimx), dimx) \/ LaunchFails
    /\ UNCHANGED hostVars

\* A turn of a thread's loop over the rows of its column; a thread beyond the
\* last column is done at once.
sumMatrixOnGPU1D(t) ==
    LET ix == Place(t, dimx)
        iy == threads[t]
        idx == iy * nx + ix
    IN  /\ iy < ny
        /\ IF ix < nx
             THEN /\ threads' = [threads EXCEPT ![t] = iy + 1]
                  /\ device' = [device EXCEPT !["d_MatC"][idx] =
                                  device["d_MatA"][idx] + device["d_MatB"][idx]]
             ELSE threads' = [threads EXCEPT ![t] = ny] /\ UNCHANGED device
        /\ UNCHANGED <<sumPc, hostVars, launchError, fault>>

KernelBreaksOff == BreaksOff(ny) /\ UNCHANGED <<sumPc, hostVars>>

\* cudaDeviceSynchronize returns when all threads are done.
Synchronize ==
    /\ sumPc = "synchronize" /\ sumPc' = "get last error"
    /\ WaitSucceeds(ny)
    /\ UNCHANGED <<hostVars, deviceVars>>

GetLastError ==
    /\ sumPc = "get last error" /\ sumPc' = "copy back"
    /\ ~launchError
    /\ UNCHANGED <<hostVars, deviceVars>>

CopyBack ==
    /\ sumPc = "copy back" /\ sumPc' = "check"
    /\ WaitSucceeds(ny)
    /\ gpuRef' = device["d_MatC"]
    /\ UNCHANGED <<h_A, h_B, hostRef, match, deviceVars>>

checkResult ==
    /\ sumPc = "check" /\ sumPc' = "free"
    /\ match' = (\A n \in Elements : hostRef[n] = gpuRef[n])
    /\ UNCHANGED <<h_A, h_B, hostRef, gpuRef, deviceVars>>

FreeAll ==
    /\ sumPc = "free" /\ sumPc' = "returned"
    /\ FreeDevice
    /\ h_A' = NoBuffer /\ h_B' = NoBuffer /\ hostRef' = NoBuffer /\ gpuRef' = NoBuffer
    /\ UNCHANGED match

\* The calls in CHECK; those that wait for the kernel, or ask for its error,
\* fail if there is one, and any call may fail for a reason of its own.
CheckFails ==
    /\ sumPc \in {"start", "malloc d_MatA", "malloc d_MatB", "malloc d_MatC", "copy d_MatA",
                  "copy d_MatB", "synchronize", "get last error", "copy back", "free"}
    /\ sumPc' = "exited"
    /\ UNCHANGED <<hostVars, deviceVars>>

SumNext ==
    \/ AllocateHost \/ sumMatrixOnHost \/ AllocateAll \/ CopyInputs \/ LaunchKernel
    \/ \E t \in DOMAIN threads : sumMatrixOnGPU1D(t)
    \/ KernelBreaksOff \/ Synchronize \/ GetLastError \/ CopyBack
    \/ checkResult \/ FreeAll \/ CheckFails
SumFinished == sumPc \in {"returned", "exited"} /\ UNCHANGED sumVars

SumSpec == SumInit /\ [][SumNext \/ SumFinished]_sumVars
-----------------------------------------------------------------------------
\* A comparison is made only of a sum that the device has finished, and it finds
\* no difference: in whatever order the threads run, every element has been
\* added, and a kernel that was not launched or broke off is noticed before.
DeviceEqualsHost ==
    /\ sumPc = "check" => gpuRef = hostRef
    /\ sumPc = "returned" => match
=============================================================================

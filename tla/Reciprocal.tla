----------------------------- MODULE Reciprocal -----------------------------
(***************************************************************************)
(* cuda/book/book.cu: the reciprocals of a vector, computed on the host    *)
(* and, in place, on the device.  The launch is the one call whose error   *)
(* the program does not ask for.  A number is the x it was made from and   *)
(* whether it is x or 1/x.                                                 *)
(***************************************************************************)
EXTENDS CudaDevice

CONSTANTS
    WORK_SIZE,      \* 65530 in the code
    BLOCK_SIZE      \* 256

ASSUME WorkAssumption == WORK_SIZE \in Nat \ {0} /\ BLOCK_SIZE \in Nat \ {0}

VARIABLES
    recPc,              \* what main_local does next
    data, recCpu, recGpu
recVars == <<recPc, data, recCpu, recGpu, deviceVars>>
arrays == <<data, recCpu, recGpu>>

Places == 0..(WORK_SIZE - 1)
Inverted(number) == [number EXCEPT !.inverted = ~@]

RecInit ==
    /\ recPc = "start"
    /\ data = NoBuffer /\ recCpu = NoBuffer /\ recGpu = NoBuffer
    /\ DeviceInit

initialize ==
    /\ recPc = "start" /\ recPc' = "on the host"
    /\ data' = [n \in Places |-> [x |-> n + 1, inverted |-> FALSE]]
    /\ UNCHANGED <<recCpu, recGpu, deviceVars>>

cpuReciprocal ==
    /\ recPc = "on the host" /\ recPc' = "malloc"
    /\ recCpu' = [n \in Places |-> Inverted(data[n])]
    /\ UNCHANGED <<data, recGpu, deviceVars>>

\* gpuReciprocal: the result is allocated, and a buffer on the device.
AllocateGpuData ==
    /\ recPc = "malloc" /\ recPc' = "copy to device"
    /\ recGpu' = [n \in Places |-> Garbage]
    /\ Malloc("gpuData", WORK_SIZE)
    /\ UNCHANGED <<data, recCpu>>

CopyData ==
    /\ recPc = "copy to device" /\ recPc' = "launch"
    /\ CopyToDevice("gpuData", data)
    /\ UNCHANGED arrays

LaunchReciprocal ==
    /\ recPc = "launch" /\ recPc' = "copy back"
    /\ Launch(Blocks(WORK_SIZE, BLOCK_SIZE), BLOCK_SIZE) \/ LaunchFails
    /\ UNCHANGED arrays

reciprocalKernel(t) ==
    LET idx == Place(t, BLOCK_SIZE)
    IN  /\ threads[t] = 0
        /\ threads' = [threads EXCEPT ![t] = 1]
        /\ device' = IF idx < WORK_SIZE
                       THEN [device EXCEPT !["gpuData"][idx] = Inverted(@)] ELSE device
        /\ UNCHANGED <<recPc, arrays, launchError, fault>>

ReciprocalBreaksOff == BreaksOff(1) /\ UNCHANGED <<recPc, arrays>>

\* cudaMemcpy waits for the kernel.
CopyResult ==
    /\ recPc = "copy back" /\ recPc' = "free"
    /\ WaitSucceeds(1)
    /\ recGpu' = device["gpuData"]
    /\ UNCHANGED <<data, recCpu, deviceVars>>

FreeGpuData ==
    /\ recPc = "free" /\ recPc' = "verify"
    /\ FreeDevice
    /\ UNCHANGED arrays

\* The sums are printed and the arrays deleted.
Verify ==
    /\ recPc = "verify" /\ recPc' = "returned"
    /\ data' = NoBuffer /\ recCpu' = NoBuffer /\ recGpu' = NoBuffer
    /\ UNCHANGED deviceVars

\* CUDA_CHECK_RETURN: a call that fails ends the program.
ReturnCheckFails ==
    /\ recPc \in {"malloc", "copy to device", "copy back", "free"}
    /\ recPc' = "exited"
    /\ UNCHANGED <<arrays, deviceVars>>

RecNext ==
    \/ initialize \/ cpuReciprocal \/ AllocateGpuData \/ CopyData \/ LaunchReciprocal
    \/ \E t \in DOMAIN threads : reciprocalKernel(t)
    \/ ReciprocalBreaksOff \/ CopyResult \/ FreeGpuData \/ Verify \/ ReturnCheckFails
RecFinished == recPc \in {"returned", "exited"} /\ UNCHANGED recVars

RecSpec == RecInit /\ [][RecNext \/ RecFinished]_recVars
-----------------------------------------------------------------------------
\* The sums that are compared are of the same numbers, every one inverted once,
\* unless the kernel was not launched; that goes unnoticed, and the device then
\* returns the numbers themselves.
ReciprocalsAgree ==
    recPc = "verify" =>
        /\ ~launchError => recGpu = recCpu
        /\ launchError => recGpu = data
=============================================================================

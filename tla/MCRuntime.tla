------------------------------ MODULE MCRuntime ------------------------------
(***************************************************************************)
(* The execution of actions by several threads, and the scheduler that has *)
(* only one, in one model for TLC.  They share nothing: which of the two   *)
(* moves is chosen at the start, and the other stays in its initial state. *)
(***************************************************************************)
EXTENDS MCExecution, GlobalFifo

VARIABLE moves

runtimeVars == <<moves, execVars, fifoVars>>

RuntimeInit == moves \in {"execution", "fifo"} /\ ExecInit /\ FifoInit

StepExecution == /\ moves = "execution" /\ ExecNext
                 /\ UNCHANGED <<fifoVars, moves>>
StepFifo == /\ moves = "fifo" /\ FifoNext
            /\ UNCHANGED <<execVars, moves>>

RuntimeFairness ==
    /\ \A t \in Threads : WF_execVars(moves = "execution" /\ Continue(t))
    /\ WF_fifoVars(moves = "fifo" /\ Advance) /\ WF_fifoVars(moves = "fifo" /\ Tick)

(* Of each the specification with its fairness. *)
FairRuntimeSpec ==
    RuntimeInit /\ [][StepExecution \/ StepFifo]_runtimeVars /\ RuntimeFairness
==============================================================================

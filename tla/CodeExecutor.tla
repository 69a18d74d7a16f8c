---------------------------- MODULE CodeExecutor ----------------------------
(***************************************************************************)
(* The tool execute_code (executors/docker.rs): each call writes its code  *)
(* to a file, runs it in a container of its own, waits for the end of the  *)
(* container under a timeout, and only then reads what it printed.  The    *)
(* daemon runs the containers and removes those that have ended, at any    *)
(* moment; the run that made the call may be dropped at any await.         *)
(***************************************************************************)
EXTENDS Naturals, Sequences

CONSTANT Containers   \* one per call

VARIABLES
  containers,   \* state, exit code and output of each
  execution,    \* the call in progress
  result        \* what the last call returned

executorVars == <<containers, execution, result>>

NoContainer == [state |-> "none", code |-> 0, output |-> "none"]
NoExecution == [pc |-> "idle", container |-> "none", code |-> 0]
NoResult    == [kind |-> "none", container |-> "none", output |-> "none"]

InitExecutor ==
  /\ containers = [c \in Containers |-> NoContainer]
  /\ execution = NoExecution /\ result = NoResult

GoesTo(pc) == execution' = [execution EXCEPT !.pc = pc]
Returns(kind, output) ==
  /\ execution' = NoExecution
  /\ result' = [kind |-> kind, container |-> execution.container, output |-> output]
Mine == containers[execution.container]
MineBecomes(state) == containers' = [containers EXCEPT ![execution.container].state = state]

-----------------------------------------------------------------------------
(* The directory and the script are there when the container is created.   *)
ExecuteCode(c) ==
  /\ execution = NoExecution /\ containers[c] = NoContainer
  /\ execution' = [pc |-> "create", container |-> c, code |-> 0]
  /\ result' = NoResult
  /\ UNCHANGED containers

CreateContainer ==
  /\ execution.pc = "create"
  /\ MineBecomes("created") /\ GoesTo("start")
  /\ UNCHANGED result

StartContainer ==
  /\ execution.pc = "start"
  /\ MineBecomes("running") /\ GoesTo("wait")
  /\ UNCHANGED result

(* A container that could not be started stays: it removes itself only     *)
(* when it ends.                                                           *)
SetupFails ==
  /\ execution.pc \in {"create", "start"}
  /\ Returns("error", "none")
  /\ UNCHANGED containers

(* A variant with a bug, to test SuccessIsWhole: no answer is taken for 0. *)
WaitFailsUnnoticed ==
  /\ execution.pc = "wait"
  /\ GoesTo("logs")
  /\ UNCHANGED <<containers, result>>

(* The stream of wait_container has an error, also when the container is   *)
(* gone already, or ends; the container may go on.                         *)
WaitFails ==
  /\ execution.pc = "wait"
  /\ \E kind \in {"error", "failed"} : Returns(kind, "none")
  /\ UNCHANGED containers

WaitReturns ==
  /\ execution.pc = "wait" /\ Mine.state \in {"exited", "gone"}
  /\ execution' = [execution EXCEPT !.pc = "logs", !.code = Mine.code]
  /\ UNCHANGED <<containers, result>>

TimesOut ==
  /\ execution.pc = "wait"
  /\ GoesTo("stop")
  /\ UNCHANGED <<containers, result>>

(* stop_container may fail: its result is ignored. *)
StopContainer ==
  /\ execution.pc = "stop"
  /\ \/ UNCHANGED containers
     \/ /\ Mine.state = "running"
        /\ containers' = [containers EXCEPT ![execution.container] =
                            [state |-> "exited", code |-> 137, output |-> Mine.output]]
  /\ Returns("timeout", "none")

(* The logs go with the container. *)
ReadLogs ==
  /\ execution.pc = "logs" /\ Mine.state # "gone"
  /\ Returns(IF execution.code = 0 THEN "ok" ELSE "failed", Mine.output)
  /\ UNCHANGED containers

LogsFail ==
  /\ execution.pc = "logs"
  /\ Returns("error", "none")
  /\ UNCHANGED containers

(* The stream that runs the agent is dropped in the middle of the call.    *)
DropExecution ==
  /\ execution # NoExecution
  /\ execution' = NoExecution /\ result' = NoResult
  /\ UNCHANGED containers

-----------------------------------------------------------------------------
(* The daemon: a program prints and ends, or goes on for good; auto_remove.*)
ProgramPrints(c) ==
  /\ containers[c].state = "running"
  /\ containers' = [containers EXCEPT ![c].output = "part"]
  /\ UNCHANGED <<execution, result>>

ProgramEnds(c) ==
  /\ containers[c].state = "running"
  /\ \E code \in {0, 1} :
       containers' = [containers EXCEPT ![c] = [state |-> "exited", code |-> code, output |-> "whole"]]
  /\ UNCHANGED <<execution, result>>

AutoRemove(c) ==
  /\ containers[c].state = "exited"
  /\ containers' = [containers EXCEPT ![c].state = "gone"]
  /\ UNCHANGED <<execution, result>>

ExecutionStep ==
  \/ CreateContainer \/ StartContainer \/ SetupFails \/ WaitReturns \/ WaitFails \/ TimesOut
  \/ StopContainer \/ ReadLogs \/ LogsFail \/ DropExecution

NextExecutor ==
  \/ ExecutionStep
  \/ \E c \in Containers : ExecuteCode(c) \/ ProgramPrints(c) \/ ProgramEnds(c) \/ AutoRemove(c)

SpecExecutor == InitExecutor /\ [][NextExecutor]_executorVars

-----------------------------------------------------------------------------
(* What execute_code gives the agent as the output of a success is all the *)
(* output of this call's program, which ended by itself with code 0: never *)
(* a part of it, nor that of a program stopped by a timeout, whatever the  *)
(* daemon does between the wait and the logs.  Hazard: the logs are read   *)
(* after the end, from a container that removes itself (execute_code).     *)
SuccessIsWhole ==
  result.kind = "ok" =>
    LET c == containers[result.container]
    IN c.state \in {"exited", "gone"} /\ c.code = 0 /\ result.output = "whole"
=============================================================================

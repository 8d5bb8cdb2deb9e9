---------------------------- MODULE MCScheduler ----------------------------
(***************************************************************************)
(* A plan with the shapes that the planners of the repository build.       *)
(***************************************************************************)
EXTENDS Scheduler, TLC

(***************************************************************************)
(* GO 0 STEPS at the end of a pipe leaves a PassThrough, here "go0", that  *)
(* nothing depends on.  Below it a Select chooses between a single         *)
(* executor and Project <- Loop, as in FIND PATH.  The body of the loop    *)
(* nests two PassThroughs, each with two successors, as nested UNIONs do;  *)
(* one executor waits for both of them.  A StartExecutor cannot fail.      *)
(***************************************************************************)
PlanDeps == [ go0       |-> {"select"},
              select    |-> {"start"},
              start     |-> {},
              other     |-> {},
              project   |-> {"loop"},
              loop      |-> {"loopStart"},
              loopStart |-> {},
              union     |-> {"b", "c"},
              b         |-> {"pass"},
              c         |-> {"pass", "low"},
              pass      |-> {"low"},
              low       |-> {"a"},
              a         |-> {} ]

PlanExecutors == DOMAIN PlanDeps

PlanFaulty == PlanExecutors \ {"start", "loopStart"}

PlanBodies == [e \in PlanExecutors |-> CASE e = "select" -> {"project", "other"}
                                         [] e = "loop" -> {"union"}
                                         [] OTHER -> {}]

PlanKind == [e \in PlanExecutors |->
                CASE e \in {"go0", "pass", "low"} -> "passthrough"
                  [] e \in {"loop", "select"} -> e
                  [] OTHER -> "plain"]

PlanDepth == [e \in PlanExecutors |->
                CASE e = "go0" -> 0
                  [] e = "select" -> 1
                  [] e \in {"start", "project", "other"} -> 2
                  [] e = "loop" -> 3
                  [] e \in {"loopStart", "union"} -> 4
                  [] e \in {"b", "c"} -> 5
                  [] e = "pass" -> 6
                  [] e = "low" -> 7
                  [] OTHER -> 8]

PlanBlock == [e \in PlanExecutors |->
                CASE e \in {"go0", "select", "start"} -> "go0"
                  [] e = "other" -> "other"
                  [] e \in {"project", "loop", "loopStart"} -> "project"
                  [] OTHER -> "union"]
=============================================================================

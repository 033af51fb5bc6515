------------------------ MODULE MCWorkflowController ------------------------
\* Instances of WorkflowController for TLC.
EXTENDS WorkflowController

\* A spec is named for its runtime; the julia ones run in init containers.
MCRuntime ==
  [s \in Specs |-> CASE s = "here"    -> "local"
                     [] s = "volcano" -> "volcano-init"
                     [] s = "kruise"  -> "openkruise"
                     [] OTHER         -> "kubernetes-init"]
=============================================================================

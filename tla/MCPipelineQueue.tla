-------------------------- MODULE MCPipelineQueue --------------------------
(* Five calls of enqueue over two slots: tasks run, wait, are dropped.     *)
EXTENDS PipelineQueue

CONSTANTS t1, t2, t3, t4, t5
MCTasks == {t1, t2, t3, t4, t5}
=============================================================================

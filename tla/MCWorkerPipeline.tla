-------------------------- MODULE MCWorkerPipeline --------------------------
(* Values of WorkerPipeline's constants for TLC. *)
EXTENDS WorkerPipelineProperties, TLC

Machine(size, switch, distributed, credit_, steps_) ==
    [local_size |-> size, pcie_switch_size |-> switch,
     is_distributed |-> distributed, credit |-> credit_, reset_returns |-> TRUE,
     steps |-> steps_]

ThreeTensors == {"t1", "t2", "t3"}
Steps(n1, n2, n3) == [t1 |-> n1, t2 |-> n2, t3 |-> n3]

\* Three devices with switches of two are taken as one switch of three.
AllMachines == {Machine(2, 2, TRUE, 1, Steps(2, 0, 0)),
                Machine(2, 2, TRUE, 2, Steps(0, 1, 1)),
                Machine(2, 2, FALSE, 0, Steps(0, 2, 1)),
                Machine(2, 1, FALSE, 0, Steps(0, 2, 0)),
                Machine(2, 1, TRUE, 0, Steps(1, 0, 0)),
                Machine(3, 2, TRUE, 0, Steps(0, 2, 0)),
                Machine(4, 2, FALSE, 0, Steps(0, 1, 0)),
                Machine(1, 1, TRUE, 0, Steps(1, 1, 0))}
CrossSwitch == {Machine(2, 1, FALSE, 0, Steps(0, 2, 0))}

FirstTensor == {"t1"}
Partitions == [t1 |-> <<1, 2>>, t2 |-> <<3>>, t3 |-> <<4>>]
Lengths == [k \in 1..4 |-> IF k = 2 THEN 1 ELSE 2]
Priorities == [t1 |-> 0, t2 |-> 1, t3 |-> 0]
=============================================================================

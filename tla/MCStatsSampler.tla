--------------------------- MODULE MCStatsSampler ----------------------------
(* StatsSampler on two CPUs, with one SATA disk with two partitions and  *)
(* one NVMe disk with one.                                                 *)
EXTENDS StatsSampler

Dev(prefix, alpha, hasP, on) == [prefix |-> prefix, alpha |-> alpha, hasP |-> hasP, on |-> on]

MCDevices == << Dev("sd", TRUE, FALSE, 0),       \* sda
                Dev("sd", FALSE, FALSE, 1),      \* sda1
                Dev("sd", FALSE, FALSE, 1),      \* sda2
                Dev("nvme", FALSE, FALSE, 0),    \* nvme0n1
                Dev("nvme", FALSE, TRUE, 4) >>   \* nvme0n1p1
=============================================================================

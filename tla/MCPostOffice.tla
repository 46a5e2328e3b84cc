------------------------------ MODULE MCPostOffice ------------------------------
(* Two threads that call the devices, two that receive.                    *)
EXTENDS PostOffice, TLC

CONSTANTS u1, u2, r1, r2, x, n1, n2, a1, a2, a3, m1, m2

MCUsers == {u1, u2}
MCReceivers == {r1, r2}
MCKernelThreads == {u1, u2, r1, r2, Worker}
MCBoxes == {x}
MCNumbers == {n1, n2}
MCAccesses == {a1, a2, a3}
MCMail == {m1, m2}
MCWorkloads == {{n1, n2}, {a1, a2, a3}, {m1, m2}}
MCReads == [r \in MCReceivers |-> x]
MCBoxOf == [m \in MCMail |-> x]

MCSemaphores ==
    ({"lock", "done"} \X Devices) \cup ({"box"} \X MCBoxes)
        \cup ({"waiter"} \X MCReceivers) \cup {<<"messageAvailable", Worker>>}
MCInitially == [s \in MCSemaphores |-> IF s[1] \in {"lock", "box"} THEN 1 ELSE 0]
================================================================================

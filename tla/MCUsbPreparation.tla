-------------------------- MODULE MCUsbPreparation --------------------------
(* A small instance of UsbPreparation: two threads and two disks.           *)
EXTENDS UsbPreparation

CONSTANTS da, db

MCDisks   == {da, db}
MCWorkers == 1 .. 2

\* The disks are alike, so it does not matter which one is plugged in first;
\* a declared symmetry would not be sound for Settles.
MCInit == Init /\ disk = da
MCSpec == MCInit /\ [][Next]_vars /\ Fairness

=============================================================================

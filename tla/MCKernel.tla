------------------------------ MODULE MCKernel ------------------------------
(***************************************************************************)
(* Small instances of the kernel core for TLC.                             *)
(***************************************************************************)
EXTENDS Kernel

\* The window server (process 2) may spawn programs; the file system
\* (process 1) has the drive.
MCHandlers == <<"spawner", "device">>
MCGrantees == <<2, 1>>

\* A program is given an object of the window server, or (a mistake the
\* spawner asserts against) a capability of the file system.
MCSpawnArgs == {{[certifier |-> 2, local_index |-> 1]}, {[certifier |-> 1, local_index |-> 0]}}

\* Programs pass on each other's first objects: to be the argument of a spawn,
\* to a third program, or back to where they came from.
MCForwards ==
  {<<[certifier |-> 2, local_index |-> 1], KERNEL>>,
   <<[certifier |-> 3, local_index |-> 1], 3>>,
   <<[certifier |-> 3, local_index |-> 1], 1>>}

\* For IPC: a program is given an object of the window server.  There is one kernel
\* capability at boot, which leaves room for one piece of shared memory; it is
\* passed on as the ring of a stream.
IpcHandlers == <<"spawner">>
IpcGrantees == <<2>>
IpcSpawnArgs == {{[certifier |-> 2, local_index |-> 1]}}
IpcForwards == {[certifier |-> KERNEL, local_index |-> 1]} \X {1, 3}

=============================================================================

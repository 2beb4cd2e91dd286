------------------------------ MODULE MCDisplay ------------------------------
EXTENDS Display

\* For each thread the calls that differ in how many messages they append, and to
\* which windows; the printer's thread logs as the disk's does.
MCThread == {"cpu", "disk", "ui"}
MCCalls ==
  [t \in MCThread |->
     CASE t = "cpu" -> {print_interruption("QUANTUM_TIME", "EXEC"),
                        print_syscall("MEMORY_FINISH")}
       [] t = "disk" -> {print_disk_execution("READ"), print_scheduled}
       [] t = "ui" -> {print_syscall("CREATE_PROCESS")}]

ASSUME Reports == ReportsWhole

=============================================================================

----------------------------- MODULE MessageLog -----------------------------
(***************************************************************************)
(* The SOAP message logs of a host.  Every inspector of the samples calls   *)
(* File.WriteAllText on a path that does not depend on the message, so all  *)
(* the threads of a host share one file per direction.  WriteAllText opens  *)
(* the file truncating it, with FileShare.Read: while one thread has the    *)
(* file open for writing, a second WriteAllText throws an IOException.      *)
(***************************************************************************)
CONSTANTS
    Threads,      \* the threads of the host that run message inspectors
    LogFiles,     \* the fixed paths the inspectors write
    NoThread,     \* the owner of a file that is not open
    Nothing,      \* the content of an empty file
    DiskMayFail   \* TRUE when WriteAllText may also throw for other reasons

ASSUME MessageLogAssumption ==
    /\ NoThread \notin Threads
    /\ DiskMayFail \in BOOLEAN

VARIABLES
    writer,       \* writer[f]: the thread that has f open for writing
    logged        \* logged[f]: the exchange whose envelope f holds

logVars == <<writer, logged>>

LogTypeOK(Exchanges) ==
    /\ writer \in [LogFiles -> Threads \cup {NoThread}]
    /\ logged \in [LogFiles -> Exchanges \cup {Nothing}]

LogInit ==
    /\ writer = [f \in LogFiles |-> NoThread]
    /\ logged = [f \in LogFiles |-> Nothing]

\* Mistaken form of OpenLog: the file is opened with FileShare.ReadWrite.
OpenLogShared(t, f) ==
    /\ writer' = [writer EXCEPT ![f] = t]
    /\ logged' = [logged EXCEPT ![f] = Nothing]

\* WriteAllText opens the file (FileMode.Create truncates it).
OpenLog(t, f) ==
    /\ writer[f] = NoThread
    /\ writer' = [writer EXCEPT ![f] = t]
    /\ logged' = [logged EXCEPT ![f] = Nothing]

\* Mistaken form of LogThrows: the write fails although nobody has the file.
LogThrowsAlways(t, f) == UNCHANGED logVars

\* WriteAllText throws an IOException before it has touched the file.
LogThrows(t, f) ==
    /\ writer[f] # NoThread \/ DiskMayFail
    /\ UNCHANGED logVars

\* WriteAllText has written the envelope and closes the file.
CloseLog(t, f, exchange) ==
    /\ writer' = [writer EXCEPT ![f] = NoThread]
    /\ logged' = [logged EXCEPT ![f] = exchange]
=============================================================================

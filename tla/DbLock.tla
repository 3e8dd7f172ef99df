------------------------------- MODULE DbLock --------------------------------
(***************************************************************************)
(* The lock file that keeps two processes of the server off one database:  *)
(* acquireLock and releaseLock of storage/database.js.  Every file system  *)
(* call and the probe of a process id is a step of its own, since other    *)
(* processes run in between.  Creating the file and writing the process id *)
(* into it are two steps, and a crash may fall between any two.            *)
(***************************************************************************)
EXTENDS Naturals

CONSTANTS
    Process,    \* services that open the same database file
    Pid,        \* process ids of the operating system
    NoFile,     \* no lock file
    Unreadable, \* a file that cannot be parsed
    MaxCrashes  \* bound on crashes

ASSUME DbLockAssumption ==
    /\ NoFile \notin Process /\ Unreadable \notin Pid
    /\ MaxCrashes \in Nat

VARIABLES
    pc,         \* what each process does next
    pid,        \* its process id, while it is up
    seen,       \* what it read from the lock file
    lock,       \* the process that created the lock file that is there
    text,       \* text[p]: what is in the file that p created last
    judged,     \* history: processes that last read the file that is there now
    races,      \* history: how starts were misled by the steps of others
    crashes

lockVars == <<pc, pid, seen, lock, text, judged, races, crashes>>

Starting == {"create", "write", "read", "probe", "unlink", "retry"}
Stopping == {"check", "remove"}

LockTypeOK ==
    /\ pc \in [Process -> {"down", "open"} \cup Starting \cup Stopping]
    /\ pid \in [Process -> Pid]
    /\ seen \in [Process -> Pid \cup {Unreadable}]
    /\ lock \in Process \cup {NoFile}
    /\ text \in [Process -> Pid \cup {Unreadable}]
    /\ judged \subseteq Process /\ races \subseteq {"unwritten", "unread"}
    /\ crashes \in 0..MaxCrashes

LockInit ==
    /\ pc = [p \in Process |-> "down"]
    /\ pid \in [Process -> Pid]
    /\ seen = [p \in Process |-> Unreadable]
    /\ lock = NoFile
    /\ text = [p \in Process |-> Unreadable]
    /\ judged = {} /\ races = {}
    /\ crashes = 0
-----------------------------------------------------------------------------
Up == {p \in Process : pc[p] # "down"}

Running(i) == \E p \in Up : pid[p] = i

Content == IF lock = NoFile THEN Unreadable ELSE text[lock]

Goto(p, step) == pc' = [pc EXCEPT ![p] = step]

\* The operating system gives a process an id that no running process has; it
\* may be the id that a lock left behind names.
Start(p) ==
    /\ pc[p] = "down"
    /\ \E i \in Pid :
         /\ ~Running(i)
         /\ pid' = [pid EXCEPT ![p] = i]
    /\ Goto(p, "create")
    /\ UNCHANGED <<seen, lock, text, judged, races, crashes>>

\* Another file, or none, is there from now on: nobody has read that.
Replaced(file) == lock' = file /\ judged' = {}

\* writeFileSync with 'wx': creates an empty file, or fails if one is there.
CreateOr(p, otherwise) ==
    /\ IF lock = NoFile
       THEN Replaced(p) /\ text' = [text EXCEPT ![p] = Unreadable] /\ Goto(p, "write")
       ELSE UNCHANGED <<lock, text, judged>> /\ Goto(p, otherwise)
    /\ UNCHANGED <<pid, seen, races, crashes>>

Create(p) == pc[p] = "create" /\ CreateOr(p, "read")

\* The text goes into the file that p opened, whether it is still there or not.
Write(p) ==
    /\ pc[p] = "write"
    /\ text' = [text EXCEPT ![p] = pid[p]]
    /\ Goto(p, "open")
    /\ UNCHANGED <<pid, seen, lock, judged, races, crashes>>

\* Mutant: the file is taken for its content.
MutRead(p) ==
    /\ pc[p] = "read"
    /\ seen' = [seen EXCEPT ![p] = IF lock = NoFile THEN Unreadable ELSE lock]
    /\ Goto(p, IF Content = Unreadable THEN "unlink" ELSE "probe")
    /\ UNCHANGED <<pid, lock, text, judged, races, crashes>>

\* A file that is gone or cannot be parsed names nobody.  A file whose owner
\* has still to write its id cannot be parsed either.
Read(p) ==
    /\ pc[p] = "read"
    /\ seen' = [seen EXCEPT ![p] = Content]
    /\ Goto(p, IF Content = Unreadable THEN "unlink" ELSE "probe")
    /\ judged' = IF lock = NoFile THEN judged \ {p} ELSE judged \cup {p}
    /\ races' = IF lock # NoFile /\ pc[lock] = "write" /\ Content = Unreadable
                THEN races \cup {"unwritten"} ELSE races
    /\ UNCHANGED <<pid, lock, text, crashes>>

\* Mutant: a process that cannot be signalled counts as gone.
MutProbe(p) ==
    /\ pc[p] = "probe"
    /\ Goto(p, IF seen[p] = pid[p] THEN "down" ELSE "unlink")
    /\ UNCHANGED <<pid, seen, lock, text, judged, races, crashes>>

\* kill(pid, 0): refused if a process with that id runs, this one included.
Probe(p) ==
    /\ pc[p] = "probe"
    /\ Goto(p, IF Running(seen[p]) THEN "down" ELSE "unlink")
    /\ UNCHANGED <<pid, seen, lock, text, judged, races, crashes>>

\* Mutant: the stale file is left where it is.
MutUnlink(p) ==
    /\ pc[p] = "unlink"
    /\ Goto(p, "retry")
    /\ UNCHANGED <<pid, seen, lock, text, judged, races, crashes>>

\* A stale file is removed, whatever is there by now.
Unlink(p) ==
    /\ pc[p] = "unlink"
    /\ Replaced(NoFile)
    /\ races' = IF lock # NoFile /\ p \notin judged THEN races \cup {"unread"} ELSE races
    /\ Goto(p, "retry")
    /\ UNCHANGED <<pid, seen, text, crashes>>

Retry(p) == pc[p] = "retry" /\ CreateOr(p, "down")

\* close, or an open that failed after the lock was taken.
Close(p) ==
    /\ pc[p] = "open"
    /\ Goto(p, IF lock = NoFile THEN "down" ELSE "check")
    /\ UNCHANGED <<pid, seen, lock, text, judged, races, crashes>>

\* releaseLock removes its own file and any it cannot read.
Check(p) ==
    /\ pc[p] = "check"
    /\ Goto(p, IF Content \in {pid[p], Unreadable} THEN "remove" ELSE "down")
    /\ UNCHANGED <<pid, seen, lock, text, judged, races, crashes>>

Remove(p) ==
    /\ pc[p] = "remove"
    /\ Replaced(NoFile)
    /\ Goto(p, "down")
    /\ UNCHANGED <<pid, seen, text, races, crashes>>

\* A kill, a power cut: nothing is cleaned up.
Crash(p) ==
    /\ p \in Up
    /\ crashes < MaxCrashes
    /\ crashes' = crashes + 1
    /\ Goto(p, "down")
    /\ UNCHANGED <<pid, seen, lock, text, judged, races>>

Step(p) ==
    \/ Create(p) \/ Write(p) \/ Read(p) \/ Probe(p) \/ Unlink(p) \/ Retry(p)
    \/ Check(p) \/ Remove(p)

LockNext == \E p \in Process : Start(p) \/ Step(p) \/ Close(p) \/ Crash(p)

LockSpec == LockInit /\ [][LockNext]_lockVars

\* Processes run, and the service manager starts a process that is down.
Fairness == \A p \in Process : WF_lockVars(Step(p)) /\ WF_lockVars(Start(p))

FairSpec == LockSpec /\ Fairness
-----------------------------------------------------------------------------
(* Properties                                                               *)

\* Starts, closes and crashes in any order let two processes have the database
\* open at once only after one of two races: a start read a lock file before
\* its owner wrote the id into it, or unlinked a file that it had not read.
Exclusive ==
    races # {} \/ \A p, q \in Process : pc[p] = "open" /\ pc[q] = "open" => p = q

\* A lock left behind is given up: once crashes are over, some process gets
\* the database open.
Recovers == \A p \in Process : pc[p] = "down" ~> \E q \in Process : pc[q] = "open"

\* So it is where the id that a lock names does not go on recurring: any number
\* of starts may get it, and be refused for that, but not all of them for ever.
OpensAgain ==
    <>[][\A p \in Process : Start(p) => pid'[p] # Content]_lockVars => Recovers
=============================================================================

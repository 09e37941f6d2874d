------------------------------ MODULE Attachment ------------------------------
(***************************************************************************)
(* Several lecode processes and the session files of one project: create,  *)
(* open, lock, switch, delete, import, and the worker sessions a session   *)
(* brings with it.  A process is sequential, but between any two of its    *)
(* system calls the others move.  The .lock file is never unlinked, so a   *)
(* lock is identified with the session it belongs to.  What is written     *)
(* into a session is the subject of SessionTurns.                          *)
(***************************************************************************)
EXTENDS FiniteSets, Naturals

CONSTANTS
  Lecodes,        \* the processes
  RootFiles,      \* bound: the sessions of users that are ever created
  CrewFiles       \* bound: the sessions of workers that are ever created

Files == RootFiles \cup CrewFiles
NoFile == "no file"
NoLecode == "free"

\* The id of a new session is no other session's.
ASSUME AttachmentAssumption ==
  NoFile \notin Files /\ NoLecode \notin Lecodes /\ RootFiles \cap CrewFiles = {}

VARIABLES
  disk,           \* of a session file: unborn, whole, deleted, headerless
  locker,         \* the process whose flock is on the session's lock file
  seat,           \* the session a process works in
  reach,          \* the session it has opened or locked for its next step
  stage,          \* where it is between two system calls
  crew,           \* the workers a process has loaded (WorkerManager._locks)
  active,         \* those of them that are running
  enlisted        \* of a session: the workers its log names

attachVars == <<disk, locker, seat, reach, stage, crew, active, enlisted>>

AttachInit ==
  /\ disk = [f \in Files |-> "unborn"]
  /\ locker = [f \in Files |-> NoLecode]
  /\ seat = [p \in Lecodes |-> NoFile]
  /\ reach = [p \in Lecodes |-> NoFile]
  /\ stage = [p \in Lecodes |-> "away"]
  /\ crew = [p \in Lecodes |-> {}]
  /\ active = [p \in Lecodes |-> {}]
  /\ enlisted = [f \in Files |-> {}]

\* _busy: no command leaves or deletes a session while a turn or a worker runs.
Unoccupied(p) == stage[p] = "idle" /\ active[p] = {}

\* Only the interactive mode takes the lock of the session it works in.
Home(p) == IF locker[seat[p]] = p THEN "idle" ELSE "headless"

Taken(p, f) == [locker EXCEPT ![f] = p]
Freed(held) == [f \in Files |-> IF f \in held THEN NoLecode ELSE locker[f]]

-----------------------------------------------------------------------------
\* create writes the meta record: there is a file before there is a lock.
Written(f) == [disk EXCEPT ![f] = "whole"]

\* list_sessions and open want a meta record first.
Listed(f) == disk[f] = "whole"
Open(p, f) == Listed(f) /\ reach' = [reach EXCEPT ![p] = f]

ToLock(p) ==
  /\ stage' = [stage EXCEPT ![p] = "opened"]
  /\ UNCHANGED <<locker, seat, crew, active, enlisted>>

Create(p, f) ==
  /\ f \in RootFiles /\ disk[f] = "unborn"
  /\ disk' = Written(f)
  /\ reach' = [reach EXCEPT ![p] = f]
  /\ ToLock(p)

\* The name prompt of a start, /new, and /handoff, which adds the brief.
CreateAtStart(p, f) == stage[p] = "away" /\ Create(p, f)
CreateFromChat(p, f) == Unoccupied(p) /\ Create(p, f)
HandOff(p, f) == Unoccupied(p) /\ Create(p, f)

\* -r and -c with a name, the picker of a bare -r, and /resume.
OpenAtStart(p, f) == stage[p] = "away" /\ Open(p, f) /\ ToLock(p) /\ UNCHANGED disk
PickAtStart(p, f) == locker[f] = NoLecode /\ OpenAtStart(p, f)
OpenFromChat(p, f) ==
  Unoccupied(p) /\ f # seat[p] /\ Open(p, f) /\ ToLock(p) /\ UNCHANGED disk

LockableUnseen(f) == locker[f] = NoLecode

\* acquire_lock looks for the file again once it has the lock.
Lockable(f) == locker[f] = NoLecode /\ disk[f] # "deleted"

\* A starting process exits, a running one stays where it is.
LockRefused(p) ==
  /\ stage[p] = "opened" /\ ~Lockable(reach[p])
  /\ reach' = [reach EXCEPT ![p] = NoFile]
  /\ stage' = [stage EXCEPT ![p] = IF seat[p] = NoFile THEN "away" ELSE "idle"]
  /\ UNCHANGED <<disk, locker, seat, crew, active, enlisted>>

\* The new lock is held before the old one is released.
SwitchSession(p) ==
  LET f == reach[p]
  IN /\ stage[p] = "opened" /\ Lockable(f)
     /\ locker' = [g \in Files |->
                     CASE g = f -> p [] g = seat[p] -> NoLecode [] OTHER -> locker[g]]
     /\ seat' = [seat EXCEPT ![p] = f]
     /\ reach' = [reach EXCEPT ![p] = NoFile]
     /\ stage' = [stage EXCEPT ![p] = IF seat[p] = NoFile THEN "starting" ELSE "switched"]
     /\ UNCHANGED <<disk, crew, active, enlisted>>

\* WorkerManager.attach: the workers of the session that was left.
DropCrew(p) ==
  /\ stage[p] = "switched"
  /\ locker' = Freed(crew[p])
  /\ crew' = [crew EXCEPT ![p] = {}]
  /\ stage' = [stage EXCEPT ![p] = "loading"]
  /\ UNCHANGED <<disk, seat, reach, active, enlisted>>

\* WorkerManager.load, one worker at a time: open, then lock.
OpenWorker(p, c) ==
  /\ stage[p] \in {"starting", "loading"} /\ reach[p] = NoFile
  /\ c \in enlisted[seat[p]] \ crew[p] /\ Open(p, c)
  /\ UNCHANGED <<disk, locker, seat, stage, crew, active, enlisted>>

LoadWorker(p) ==
  LET c == reach[p]
  IN /\ stage[p] \in {"starting", "loading"} /\ c # NoFile /\ Lockable(c)
     /\ locker' = Taken(p, c)
     /\ crew' = [crew EXCEPT ![p] = @ \cup {c}]
     /\ reach' = [reach EXCEPT ![p] = NoFile]
     /\ UNCHANGED <<disk, seat, stage, active, enlisted>>

Loaded(p) ==
  /\ stage[p] \in {"starting", "loading"} /\ enlisted[seat[p]] \subseteq crew[p]
  /\ stage' = [stage EXCEPT ![p] = "idle"]
  /\ UNCHANGED <<disk, locker, seat, reach, crew, active, enlisted>>

\* Nothing is left of a process but its files: close(fd), or its death.
Gone(p) ==
  /\ locker' = [f \in Files |-> IF locker[f] = p THEN NoLecode ELSE locker[f]]
  /\ seat' = [seat EXCEPT ![p] = NoFile]
  /\ reach' = [reach EXCEPT ![p] = NoFile]
  /\ stage' = [stage EXCEPT ![p] = "away"]
  /\ crew' = [crew EXCEPT ![p] = {}]
  /\ active' = [active EXCEPT ![p] = {}]
  /\ UNCHANGED <<disk, enlisted>>

\* A worker's session is missing or locked by another process: a start fails,
\* a switch is left with the workers it had loaded.
LoadFails(p) ==
  /\ stage[p] \in {"starting", "loading"}
  /\ \/ reach[p] # NoFile /\ ~Lockable(reach[p])
     \/ reach[p] = NoFile /\ \E c \in enlisted[seat[p]] \ crew[p] : ~Listed(c)
  /\ \/ stage[p] = "starting" /\ Gone(p)
     \/ /\ stage[p] = "loading"
        /\ reach' = [reach EXCEPT ![p] = NoFile]
        /\ stage' = [stage EXCEPT ![p] = "idle"]
        /\ UNCHANGED <<disk, locker, seat, crew, active, enlisted>>

-----------------------------------------------------------------------------
\* -p, --loop and --chain create their session and never lock it.
RunHeadless(p, f) ==
  /\ stage[p] = "away" /\ f \in RootFiles /\ disk[f] = "unborn"
  /\ disk' = Written(f)
  /\ seat' = [seat EXCEPT ![p] = f]
  /\ stage' = [stage EXCEPT ![p] = "headless"]
  /\ UNCHANGED <<locker, reach, crew, active, enlisted>>

\* An append to a file that is gone makes a file without a meta record.
AppendRecord(p) ==
  /\ stage[p] \in {"idle", "headless"} /\ disk[seat[p]] = "deleted"
  /\ disk' = [disk EXCEPT ![seat[p]] = "headerless"]
  /\ UNCHANGED <<locker, seat, reach, stage, crew, active, enlisted>>

\* WorkerManager.start: the worker's file, its lock, then the parent's record.
CreateWorker(p, c) ==
  /\ stage[p] \in {"idle", "headless"} /\ c \in CrewFiles /\ disk[c] = "unborn"
  /\ disk' = Written(c)
  /\ reach' = [reach EXCEPT ![p] = c]
  /\ stage' = [stage EXCEPT ![p] = "creating"]
  /\ UNCHANGED <<locker, seat, crew, active, enlisted>>

StartWorking(p) ==
  LET c == reach[p]
  IN /\ stage[p] = "creating"
     /\ reach' = [reach EXCEPT ![p] = NoFile]
     /\ stage' = [stage EXCEPT ![p] = Home(p)]
     /\ IF Lockable(c)
        THEN /\ locker' = Taken(p, c)
             /\ crew' = [crew EXCEPT ![p] = @ \cup {c}]
             /\ active' = [active EXCEPT ![p] = @ \cup {c}]
             /\ enlisted' = [enlisted EXCEPT ![seat[p]] = @ \cup {c}]
        ELSE UNCHANGED <<locker, crew, active, enlisted>>
     /\ UNCHANGED <<disk, seat>>

ResumeWorking(p, c) ==
  /\ stage[p] \in {"idle", "headless"} /\ c \in crew[p] \ active[p]
  /\ active' = [active EXCEPT ![p] = @ \cup {c}]
  /\ UNCHANGED <<disk, locker, seat, reach, stage, crew, enlisted>>

StopWorking(p, c) ==
  /\ c \in active[p]
  /\ active' = [active EXCEPT ![p] = @ \ {c}]
  /\ UNCHANGED <<disk, locker, seat, reach, stage, crew, enlisted>>

-----------------------------------------------------------------------------
\* lock_holder and flush_forgets: a lock that is held for a moment.
Glance(p, f) ==
  /\ stage[p] \in {"away", "idle"} /\ locker[f] = NoLecode /\ disk[f] # "unborn"
  /\ locker' = Taken(p, f)
  /\ reach' = [reach EXCEPT ![p] = f]
  /\ stage' = [stage EXCEPT ![p] = "glancing"]
  /\ UNCHANGED <<disk, seat, crew, active, enlisted>>

EndGlance(p) ==
  /\ stage[p] = "glancing"
  /\ locker' = Freed({reach[p]})
  /\ reach' = [reach EXCEPT ![p] = NoFile]
  /\ stage' = [stage EXCEPT ![p] = IF seat[p] = NoFile THEN "away" ELSE "idle"]
  /\ UNCHANGED <<disk, seat, crew, active, enlisted>>

\* /resume --delete: neither the current session nor one that is open.
LockForDelete(p, f) ==
  /\ Unoccupied(p) /\ f # seat[p] /\ Listed(f) /\ locker[f] = NoLecode
  /\ locker' = Taken(p, f)
  /\ reach' = [reach EXCEPT ![p] = f]
  /\ stage' = [stage EXCEPT ![p] = "deleting"]
  /\ UNCHANGED <<disk, seat, crew, active, enlisted>>

Unlink(p) ==
  /\ stage[p] = "deleting"
  /\ disk' = [disk EXCEPT ![reach[p]] = "deleted"]
  /\ locker' = Freed({reach[p]})
  /\ reach' = [reach EXCEPT ![p] = NoFile]
  /\ stage' = [stage EXCEPT ![p] = "idle"]
  /\ UNCHANGED <<seat, crew, active, enlisted>>

\* /import keeps the id of the file unless a session with that id is listed.
Import(p, f) ==
  /\ stage[p] = "idle" /\ f \in RootFiles /\ ~Listed(f)
  /\ disk' = Written(f)
  /\ UNCHANGED <<locker, seat, reach, stage, crew, active, enlisted>>

Leave(p) == stage[p] # "away" /\ Gone(p)

AttachStep(p) ==
  \/ \E f \in Files :
       \/ CreateAtStart(p, f) \/ CreateFromChat(p, f) \/ HandOff(p, f)
       \/ OpenAtStart(p, f) \/ PickAtStart(p, f) \/ OpenFromChat(p, f) \/ OpenWorker(p, f)
       \/ RunHeadless(p, f) \/ CreateWorker(p, f)
       \/ ResumeWorking(p, f) \/ StopWorking(p, f)
       \/ Glance(p, f) \/ LockForDelete(p, f) \/ Import(p, f)
  \/ LockRefused(p) \/ SwitchSession(p) \/ DropCrew(p)
  \/ LoadWorker(p) \/ Loaded(p) \/ LoadFails(p)
  \/ AppendRecord(p) \/ StartWorking(p) \/ EndGlance(p) \/ Unlink(p) \/ Leave(p)

AttachNext == \E p \in Lecodes : AttachStep(p)
AttachSpec == AttachInit /\ [][AttachNext]_attachVars

-----------------------------------------------------------------------------
\* A process works in a session that is there and that nobody else can open
\* or delete, and its running workers are workers of that session: through
\* every switch, deletion and import of the others (acquire_lock, delete,
\* switch_session).  Headless processes have no lock and are left out.
AttachedIsHeld ==
  \A p \in Lecodes :
    /\ \A c \in crew[p] : locker[c] = p /\ disk[c] = "whole"
    /\ active[p] \subseteq crew[p]
    /\ seat[p] # NoFile => active[p] \subseteq enlisted[seat[p]]
    /\ seat[p] # NoFile /\ stage[p] \notin {"headless", "creating"} =>
         locker[seat[p]] = p /\ disk[seat[p]] # "deleted"
=============================================================================

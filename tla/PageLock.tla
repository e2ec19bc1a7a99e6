------------------------------- MODULE PageLock -------------------------------
(***************************************************************************)
(* What the lock word of a page promises its users: many readers or one    *)
(* writer, a sole reader may become the writer, a writer may become a      *)
(* reader.  The guards of map_table.rs (PageReadGuard, PageWriteGuard) are *)
(* the members of the two sets.  Module MapTable implements this.          *)
(***************************************************************************)
CONSTANT Threads

VARIABLES readers, writers

lockVars == <<readers, writers>>

LockInit == readers = {} /\ writers = {}

AcquireRead(t) ==
  /\ writers = {}
  /\ t \notin readers
  /\ readers' = readers \cup {t}
  /\ UNCHANGED writers

AcquireWrite(t) ==
  /\ readers = {} /\ writers = {}
  /\ writers' = {t}
  /\ UNCHANGED readers

Upgrade(t) ==
  /\ readers = {t} /\ writers = {}
  /\ readers' = {}
  /\ writers' = {t}

Downgrade(t) ==
  /\ writers = {t}
  /\ writers' = {}
  /\ readers' = {t}

ReleaseRead(t) ==
  /\ t \in readers
  /\ readers' = readers \ {t}
  /\ UNCHANGED writers

ReleaseWrite(t) ==
  /\ writers = {t}
  /\ writers' = {}
  /\ UNCHANGED readers

LockNext ==
  \E t \in Threads :
    \/ AcquireRead(t)  \/ AcquireWrite(t)
    \/ Upgrade(t)      \/ Downgrade(t)
    \/ ReleaseRead(t)  \/ ReleaseWrite(t)

LockSpec == LockInit /\ [][LockNext]_lockVars
===============================================================================

---------------------------- MODULE RefreshLock ----------------------------
(***************************************************************************)
(* The directory lock that serializes the refreshes of one user's token    *)
(* across bridge workers (uat-client-shim.ts, acquireRefreshLock): mkdir   *)
(* takes it, owner.json names its owner, a lock whose owner disappeared is *)
(* removed by whoever waits for it.                                        *)
(*                                                                         *)
(* Every file operation is one step; rm -r of the directory and its one    *)
(* file is one step, and so is the creation of owner.json with its text.   *)
(* Process ids are not reused, and the lock root is a directory of this    *)
(* user.                                                                   *)
(***************************************************************************)
EXTENDS Integers, FiniteSets

CONSTANTS Worker, NoWorker

ASSUME NoWorkerAssumption == NoWorker \notin Worker

VARIABLES
  maker,   \* who made the directory, NoWorker when there is none
  owner,   \* who its owner.json names, NoWorker when it is not readable
  old,     \* its mtime is past REFRESH_LOCK_STALE_MS
  lk,      \* where each worker is in acquireRefreshLock and release
  stolen   \* history: a removal of the path hit a live worker's lock

lockVars == <<maker, owner, old, lk, stolen>>

LockPcs == {"idle", "make", "own", "judge", "remove", "bail", "held",
            "unlink", "threw", "ended", "killed"}

LockInit ==
  /\ maker = NoWorker
  /\ owner = NoWorker
  /\ old = FALSE
  /\ lk = [w \in Worker |-> "idle"]
  /\ stolen = FALSE

LockTypeOK ==
  /\ maker \in Worker \cup {NoWorker}
  /\ owner \in Worker \cup {NoWorker}
  /\ old \in BOOLEAN
  /\ lk \in [Worker -> LockPcs]
  /\ stolen \in BOOLEAN

Exists == maker # NoWorker
Alive(w) == lk[w] \notin {"ended", "killed"}
Holding == {w \in Worker : lk[w] \in {"held", "unlink"}}

\* w has the directory it made, or the one that names it, in its hands.
Owns(w) ==
  \/ lk[w] \in {"own", "bail"} /\ maker = w
  \/ lk[w] \in {"held", "unlink"} /\ owner = w

-----------------------------------------------------------------------------
At(w, pc) == lk[w] = pc
Goes(w, pc) == lk' = [lk EXCEPT ![w] = pc]

RemoveDirectory ==
  /\ maker' = NoWorker
  /\ owner' = NoWorker
  /\ old' = FALSE

UnchangedDirectory == UNCHANGED <<maker, owner, old>>

\* The path is removed without another look at what it holds now.
Removes(w) ==
  /\ RemoveDirectory
  /\ stolen' = (stolen \/ \E v \in Worker \ {w} : Exists /\ Owns(v))

\* A failure of mkdir or writeFile: an existing path is looked at, any other
\* removes the path, whatever is there by now, and throws.
TakesExisting(error) == IF error = "EEXIST" THEN "held" ELSE "bail"
ThrowsOnly(error) == IF error = "EEXIST" THEN "judge" ELSE "threw"
Handles(error) == IF error = "EEXIST" THEN "judge" ELSE "bail"

Contend(w) ==
  /\ At(w, "idle")
  /\ Goes(w, "make")
  /\ UnchangedDirectory
  /\ UNCHANGED stolen

\* mkdir: the directory is w's, or it exists and w looks at it.
Make(w) ==
  /\ At(w, "make")
  /\ \/ /\ ~Exists
        /\ maker' = w
        /\ UNCHANGED <<owner, old>>
        /\ Goes(w, "own")
     \/ /\ Exists
        /\ UnchangedDirectory
        /\ Goes(w, Handles("EEXIST"))
  /\ UNCHANGED stolen

\* writeFile with flag wx: the directory may have been removed, or removed and
\* made again, since w made it.
Own(w) ==
  /\ At(w, "own")
  /\ \/ /\ Exists /\ owner = NoWorker
        /\ owner' = w
        /\ Goes(w, "held")
     \/ /\ Exists /\ owner # NoWorker
        /\ UNCHANGED owner
        /\ Goes(w, Handles("EEXIST"))
     \/ /\ ~Exists
        /\ UNCHANGED owner
        /\ Goes(w, Handles("ENOENT"))
  /\ UNCHANGED <<maker, old, stolen>>

\* The directory cannot be made, or owner.json not written (a full disk).
MakeFails(w) ==
  /\ At(w, "make") /\ ~Exists
  /\ Goes(w, Handles("ENOSPC"))
  /\ UnchangedDirectory
  /\ UNCHANGED stolen

OwnFails(w) ==
  /\ At(w, "own")
  /\ Goes(w, Handles("ENOSPC"))
  /\ UnchangedDirectory
  /\ UNCHANGED stolen

Bail(w) ==
  /\ At(w, "bail")
  /\ Removes(w)
  /\ Goes(w, "threw")

StaleByOwner == ~Exists \/ (owner # NoWorker /\ ~Alive(owner))
Stale == ~Exists \/ old \/ (owner # NoWorker /\ ~Alive(owner))

\* refreshLockIsStale, and the 50 ms wait before the next attempt.
Judge(w) ==
  /\ At(w, "judge")
  /\ \/ Stale /\ Goes(w, "remove")
     \/ ~Stale /\ Goes(w, "make")
  /\ UnchangedDirectory
  /\ UNCHANGED stolen

Remove(w) ==
  /\ At(w, "remove")
  /\ Removes(w)
  /\ Goes(w, "make")

\* release: read the owner, then remove the path when it is still w.
CheckOwner(w) ==
  /\ At(w, "held")
  /\ \/ Exists /\ owner = w /\ Goes(w, "unlink")
     \/ ~(Exists /\ owner = w) /\ Goes(w, "idle")
  /\ UnchangedDirectory
  /\ UNCHANGED stolen

Unlink(w) ==
  /\ At(w, "unlink")
  /\ RemoveDirectory
  /\ Goes(w, "idle")
  /\ UNCHANGED stolen

\* The caller takes the error that acquireRefreshLock threw.
Caught(w) ==
  /\ At(w, "threw")
  /\ Goes(w, "idle")
  /\ UnchangedDirectory
  /\ UNCHANGED stolen

\* The process ends: it exits, or is killed at any point of the protocol.
Die(w) ==
  /\ Alive(w)
  /\ Goes(w, IF At(w, "idle") THEN "ended" ELSE "killed")
  /\ UnchangedDirectory
  /\ UNCHANGED stolen

\* Ten minutes pass over a directory that nobody alive holds. A live refresh
\* is taken to be shorter than that, as the source says of its window.
GrowOld ==
  /\ Exists /\ ~old
  /\ ~\E w \in Worker : Owns(w)
  /\ old' = TRUE
  /\ UNCHANGED <<maker, owner, lk, stolen>>

LockStep(w) ==
  \/ Contend(w) \/ Make(w) \/ MakeFails(w) \/ Own(w) \/ OwnFails(w) \/ Bail(w)
  \/ Judge(w) \/ Remove(w) \/ CheckOwner(w) \/ Unlink(w) \/ Caught(w) \/ Die(w)

LockNext == GrowOld \/ \E w \in Worker : LockStep(w)

LockSpec == LockInit /\ [][LockNext]_lockVars

-----------------------------------------------------------------------------
\* At most one worker is in its critical section, unless another removed the
\* lock of a live one: the look of refreshLockIsStale at an earlier lock, or a
\* mkdir that failed, comes before the rm, and nothing else lets a second worker
\* in.
SerialUnlessStolen == stolen \/ \A v, w \in Holding : v = w

\* A lock directory is in the hands of the worker its owner.json names, or of
\* the one that made it when it names nobody, unless that worker was killed:
\* workers that end leave none behind, stolen or not, which would block the
\* others for ten minutes.
NoneLeft ==
  Exists =>
    IF owner = NoWorker THEN lk[maker] \in {"own", "bail", "killed"}
                        ELSE lk[owner] \in {"held", "unlink", "killed"}
=============================================================================

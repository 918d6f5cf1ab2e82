---------------------------- MODULE IssuanceLock ----------------------------
(***************************************************************************)
(* withIssuanceLock of src/issuance-lock.js: a kernel flock on a permanent *)
(* guard file, and inside it an owner marker that names the holder's pid.  *)
(*                                                                         *)
(* Every await of the function ends an action here, so that another        *)
(* process, another call of the same process, or a crash can come between  *)
(* any two file operations.  The flock belongs to an open file description *)
(* (one per call), hence calls of one process exclude each other too, and  *)
(* the kernel drops it when the process dies; the marker file stays.       *)
(***************************************************************************)
EXTENDS Naturals, FiniteSets

CONSTANTS
    Pid,            \* process identifiers
    Caller,         \* calls of withIssuanceLock; a call can be made again
    home,           \* home[c]: the process that makes call c
    Unlocked,       \* the flock is free
    Absent,         \* the marker file does not exist
    Unreadable      \* it exists and is not JSON with a positive pid

ASSUME HomeAssumption == home \in [Caller -> Pid]

ASSUME MarkerAssumption ==
    /\ Absent \notin Pid
    /\ Unreadable \notin Pid
    /\ Absent # Unreadable

ASSUME UnlockedAssumption == Unlocked \notin Caller

VARIABLES
    alive,          \* pids for which kill(pid, 0) does not answer ESRCH
    guard,          \* the call whose descriptor of the .guard file is locked
    marker,         \* content of the .lock file
    pc              \* where each call is in the function

lockVars == <<alive, guard, marker, pc>>

(***************************************************************************)
(* Points of the function at which a call waits for the operating system:  *)
(*   guard    .guard is open, flock not yet granted                        *)
(*   marker   flock granted, about to open .lock with 'wx'                 *)
(*   judge    .lock existed, about to read it and look for its pid         *)
(*   reclaim  its pid is gone, about to unlink it                          *)
(*   write    .lock created by this call, still empty                      *)
(*   work     the caller's function is running                             *)
(*   cleanup  finally: about to unlink the marker                          *)
(*   release  finally: about to close .guard                               *)
(***************************************************************************)
Locked == {"marker", "judge", "reclaim", "write", "work", "cleanup", "release"}
Point == {"idle", "guard"} \cup Locked

Goto(c, from, to) == pc[c] = from /\ pc' = [pc EXCEPT ![c] = to]

-----------------------------------------------------------------------------
(* Variants of the actions below, each with a plausible mistake.  No action *)
(* uses them: the mutation runs put one in the place of the action it is a  *)
(* variant of, to show that a property would notice the mistake.            *)

\* Acquire, were the flock not exclusive.
AcquireUnchecked(c) ==
    /\ Goto(c, "guard", "marker")
    /\ guard' = c
    /\ UNCHANGED <<alive, marker>>

\* JudgeUnreadable, were an unreadable marker taken for a dead owner.
JudgeUnreadableAsDead(c) ==
    /\ marker \notin Pid
    /\ Goto(c, "judge", "reclaim")
    /\ UNCHANGED <<alive, guard, marker>>

\* JudgeTimeout, were a live owner waited for without limit.
JudgeTimeoutNever(c) ==
    /\ FALSE
    /\ UNCHANGED lockVars

\* WriteOwner, were the call and not its process named.
WriteOwnerCall(c) ==
    /\ Goto(c, "write", "work")
    /\ marker' = c
    /\ UNCHANGED <<alive, guard>>

\* Finish, were the guard closed before the marker is removed.
FinishReleasing(c) ==
    /\ Goto(c, "work", "cleanup")
    /\ guard' = Unlocked
    /\ UNCHANGED <<alive, marker>>

-----------------------------------------------------------------------------
LockInit ==
    /\ alive = Pid
    /\ guard = Unlocked
    /\ marker = Absent
    /\ pc = [c \in Caller |-> "idle"]

\* Open the guard file.
Begin(c) ==
    /\ home[c] \in alive
    /\ Goto(c, "idle", "guard")
    /\ UNCHANGED <<alive, guard, marker>>

\* flock 'exnb' is granted.
Acquire(c) ==
    /\ guard = Unlocked
    /\ Goto(c, "guard", "marker")
    /\ guard' = c
    /\ UNCHANGED <<alive, marker>>

\* EAGAIN past the timeout, or another error of flock: the call ends and its
\* unlocked descriptor is closed.  (EAGAIN before the timeout changes nothing.)
GiveUp(c) ==
    /\ guard # Unlocked
    /\ Goto(c, "guard", "idle")
    /\ UNCHANGED <<alive, guard, marker>>

\* open 'wx' creates the marker, still empty.
CreateMarker(c) ==
    /\ marker = Absent
    /\ Goto(c, "marker", "write")
    /\ marker' = Unreadable
    /\ UNCHANGED <<alive, guard>>

\* open 'wx' answers EEXIST.
FindMarker(c) ==
    /\ marker # Absent
    /\ Goto(c, "marker", "judge")
    /\ UNCHANGED <<alive, guard, marker>>

\* The marker cannot be read or names no pid: busy, whatever the time left.
JudgeUnreadable(c) ==
    /\ marker \notin Pid
    /\ Goto(c, "judge", "release")
    /\ UNCHANGED <<alive, guard, marker>>

\* Only ESRCH proves the owner gone.
JudgeDead(c) ==
    /\ marker \in Pid \ alive
    /\ Goto(c, "judge", "reclaim")
    /\ UNCHANGED <<alive, guard, marker>>

\* The owner may be running: wait 100 ms and try again ...
JudgeAlive(c) ==
    /\ marker \in alive
    /\ Goto(c, "judge", "marker")
    /\ UNCHANGED <<alive, guard, marker>>

\* ... until the timeout has passed.
JudgeTimeout(c) ==
    /\ marker \in alive
    /\ Goto(c, "judge", "release")
    /\ UNCHANGED <<alive, guard, marker>>

\* unlink the marker judged dead.  The pid may have been reused since.
Reclaim(c) ==
    /\ Goto(c, "reclaim", "marker")
    /\ marker' = Absent
    /\ UNCHANGED <<alive, guard>>

\* The marker's content is complete; work() is called.
WriteOwner(c) ==
    /\ Goto(c, "write", "work")
    /\ marker' = home[c]
    /\ UNCHANGED <<alive, guard>>

\* work() returns or throws: the finally block begins.
Finish(c) ==
    /\ Goto(c, "work", "cleanup")
    /\ UNCHANGED <<alive, guard, marker>>

\* The owner descriptor is closed and the marker unlinked.
Cleanup(c) ==
    /\ Goto(c, "cleanup", "release")
    /\ marker' = Absent
    /\ UNCHANGED <<alive, guard>>

\* Closing or unlinking fails; the nested finally still closes the guard.
CleanupFails(c) ==
    /\ Goto(c, "cleanup", "release")
    /\ UNCHANGED <<alive, guard, marker>>

\* Closing the descriptor releases the flock.
Release(c) ==
    /\ Goto(c, "release", "idle")
    /\ guard' = Unlocked
    /\ UNCHANGED <<alive, marker>>

\* A file operation before `owner` is set fails with an unexpected error.
FailUnowned(c) ==
    /\ \/ Goto(c, "marker", "release")
       \/ Goto(c, "reclaim", "release")
    /\ UNCHANGED <<alive, guard, marker>>

\* Writing the owner's pid fails: the half-written marker is cleaned up.
FailWrite(c) ==
    /\ Goto(c, "write", "cleanup")
    /\ UNCHANGED <<alive, guard, marker>>

\* A process dies between two operations: its descriptors are closed, so its
\* flock is gone, and the marker stays as it was.
Die(p) ==
    /\ p \in alive
    /\ alive' = alive \ {p}
    /\ pc' = [c \in Caller |-> IF home[c] = p THEN "idle" ELSE pc[c]]
    /\ guard' = IF \E c \in Caller : guard = c /\ home[c] = p
                THEN Unlocked ELSE guard
    /\ UNCHANGED marker

\* A process starts under a pid that was free: a restarted server, or an
\* unrelated program that the kernel gives the dead owner's pid.
Start(p) ==
    /\ p \notin alive
    /\ alive' = alive \cup {p}
    /\ UNCHANGED <<guard, marker, pc>>

\* The steps of one call once it has begun.
Step(c) ==
    \/ Acquire(c) \/ GiveUp(c)
    \/ CreateMarker(c) \/ FindMarker(c)
    \/ JudgeUnreadable(c) \/ JudgeDead(c) \/ JudgeAlive(c) \/ JudgeTimeout(c)
    \/ Reclaim(c) \/ WriteOwner(c)
    \/ Finish(c) \/ Cleanup(c) \/ CleanupFails(c) \/ Release(c)
    \/ FailUnowned(c) \/ FailWrite(c)

LockNext ==
    \/ \E c \in Caller : Begin(c) \/ Step(c)
    \/ \E p \in Pid : Die(p) \/ Start(p)

LockSpec == LockInit /\ [][LockNext]_lockVars

\* The event loop runs every call on, the work it guards ends (its ledger
\* calls have their own time limits), and the 30 s of a waiting call pass.
Fairness ==
    \A c \in Caller : WF_lockVars(Step(c)) /\ SF_lockVars(JudgeTimeout(c))

FairSpec == LockSpec /\ Fairness

-----------------------------------------------------------------------------
LockTypeOK ==
    /\ alive \subseteq Pid
    /\ guard \in Caller \cup {Unlocked}
    /\ marker \in Pid \cup {Absent, Unreadable}
    /\ pc \in [Caller -> Point]

\* No two calls run their work at once, in one process or in two, through
\* crashes, reused pids and concurrent recovery of a dead owner's marker.
Mutex ==
    \A c, d \in Caller : pc[c] = "work" /\ pc[d] = "work" => c = d

\* While work runs, the marker names the process that runs it: no recovering
\* process has removed this holder's replacement marker
\* (the comment at src/issuance-lock.js:34).
OwnerMarked ==
    \A c \in Caller : pc[c] = "work" => marker = home[c]

\* What withIssuanceLock promises its callers while work runs: nobody else works, and
\* no recovery of a dead owner's marker has taken this one away.
WorkIsGuarded == Mutex /\ OwnerMarked

\* An unreadable marker that no call is still writing or cleaning up.
Abandoned ==
    /\ marker = Unreadable
    /\ \A c \in Caller : pc[c] \notin {"write", "cleanup"}

\* A process that dies between creating its marker and writing its pid leaves
\* every later call refused, without end: nobody guesses who owned it
\* (tests/safety.test.js:64, "an abandoned issuance lock fails closed").
FailsClosed == [][Abandoned => Abandoned' /\ \A c \in Caller : pc'[c] # "work"]_lockVars

\* A call always returns, with its result or with a refusal: neither a held
\* lock nor a left marker blocks it for good.
EveryCallReturns == \A c \in Caller : pc[c] # "idle" ~> pc[c] = "idle"

\* The lock implements the abstract promise: work never overlaps.
Promise == INSTANCE ExclusiveWork
           WITH Call <- Caller, inside <- {c \in Caller : pc[c] = "work"}
ExclusiveSpec == Promise!Spec

-----------------------------------------------------------------------------
(***************************************************************************)
(* The inductive invariant.  Mutex alone is not inductive: it needs that   *)
(* the calls past the flock are exactly its holder, and that the marker is *)
(* what the holder, at its point of the function, found or made it.        *)
(***************************************************************************)
HolderIsLocked == \A c \in Caller : pc[c] \in Locked <=> guard = c

RunnersAreAlive == \A c \in Caller : pc[c] # "idle" => home[c] \in alive

HolderMarker ==
    \A c \in Caller :
        /\ pc[c] = "reclaim" => marker \in Pid
        /\ pc[c] = "write" => marker = Unreadable
        /\ pc[c] = "work" => marker = home[c]

LockInv == LockTypeOK /\ HolderIsLocked /\ RunnersAreAlive /\ HolderMarker
=============================================================================

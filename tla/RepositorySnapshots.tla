-------------------------- MODULE RepositorySnapshots ---------------------------
(***************************************************************************)
(* Snapshots of repositories (tools/code-explorer): a clone is authorised  *)
(* by Radar's registry, takes a GitHub token that all share, is admitted   *)
(* under a gate against the number of snapshots and the size of the disk,  *)
(* and runs git under a monitor. A snapshot is read by its own actor, one  *)
(* call at a time, until half an hour is over; what has expired is removed *)
(* by a later clone. Sizes are in units of 32 MiB.                         *)
(***************************************************************************)
EXTENDS Naturals, Sequences, FiniteSets

CONSTANTS
  Clone,          \* clone calls; a call names the snapshot it makes
  Reader,         \* calls that list, read or search a snapshot
  actorOf,        \* [Clone \union Reader -> actor]
  MaxSnapshots, Capacity, Reservation, CloneBytes,
  NoDir, NoSnapshot

ASSUME SnapshotAssumption ==
  /\ {MaxSnapshots, Capacity, Reservation, CloneBytes} \subseteq Nat /\ CloneBytes < Reservation
  /\ NoDir \notin Nat /\ NoSnapshot \notin Clone

VARIABLES
  clone,          \* where each clone call is
  reader,         \* the reading calls: where, and on which snapshot
  snapshots, expired,       \* the kept snapshots, and those past their time
  dir,            \* size of each staging directory
  child,          \* the git process of each clone
  gate,           \* clones in line for the gate; the first holds it
  survey,         \* the holder's preflight: what is left to measure, the sum, the expired snapshots
  reserved, cloning,
  token, mint     \* the shared token, and the request for one

snapshotVars == <<clone, reader, snapshots, expired, dir, child, gate, survey, reserved, cloning, token, mint>>

NoSurvey == [todo |-> {}, sum |-> 0, stale |-> {}]
NotReading == [pc |-> "idle", on |-> NoSnapshot]

SnapshotsInit ==
  /\ clone = [c \in Clone |-> "idle"] /\ reader = [r \in Reader |-> NotReading]
  /\ snapshots = {} /\ expired = {}
  /\ dir = [c \in Clone |-> NoDir] /\ child = [c \in Clone |-> "none"]
  /\ gate = <<>> /\ survey = NoSurvey /\ reserved = 0 /\ cloning = 0
  /\ token = "none" /\ mint = "none"

busy(c) == \E r \in Reader : reader[r].on = c
At(c, pc) == clone[c] = pc
To(c, pc) == clone' = [clone EXCEPT ![c] = pc]

-----------------------------------------------------------------------------
(* Authorisation and the token *)

tokenVars == <<token, mint>>
stateVars == <<reader, snapshots, expired, dir, child, gate, survey, reserved, cloning>>

\* clone(): the arguments are in order; Radar is asked.
Call(c) == At(c, "idle") /\ To(c, "authorize") /\ UNCHANGED <<stateVars, tokenVars>>

\* fetchRegistry(): not registered, no answer within its time, or the caller gave up.
Unauthorized(c) == At(c, "authorize") /\ To(c, "failed") /\ UNCHANGED <<stateVars, tokenVars>>

\* getToken(): the cached token if it lives for another minute, else the one request
\* that all who ask meanwhile share.
GetToken(c) ==
  /\ At(c, "authorize")
  /\ IF token = "fresh" THEN To(c, "admit") /\ UNCHANGED mint
     ELSE To(c, "token") /\ mint' = "asked"
  /\ UNCHANGED <<stateVars, token>>

Minted ==
  /\ mint = "asked" /\ mint' = "none" /\ token' = "fresh"
  /\ clone' = [c \in Clone |-> IF At(c, "token") THEN "admit" ELSE clone[c]]
  /\ UNCHANGED stateVars

\* GitHub refuses, answers with other rights or not within ten seconds.
MintFails ==
  /\ mint = "asked" /\ mint' = "none"
  /\ clone' = [c \in Clone |-> IF At(c, "token") THEN "failed" ELSE clone[c]]
  /\ UNCHANGED <<stateVars, token>>

\* A caller that gives up leaves the request to the others.
GiveUp(c) == At(c, "token") /\ To(c, "failed") /\ UNCHANGED <<stateVars, tokenVars>>

TokenAges == token = "fresh" /\ token' = "stale" /\ UNCHANGED <<clone, stateVars, mint>>

-----------------------------------------------------------------------------
(* Under the gate *)

Lock(c) ==
  /\ At(c, "admit") /\ To(c, "gate") /\ gate' = Append(gate, c)
  /\ UNCHANGED <<reader, snapshots, expired, dir, child, survey, reserved, cloning, tokenVars>>

Holds(c, pc) == gate # <<>> /\ Head(gate) = c /\ At(c, pc)
LeaveGate(c, pc) == To(c, pc) /\ gate' = Tail(gate) /\ survey' = NoSurvey

\* The count is taken, with what has expired left out of it, before the disk is measured.
Preflight(c) ==
  /\ Holds(c, "gate")
  /\ LET stale == {d \in snapshots \cap expired : ~ busy(d)} IN
     IF Cardinality(snapshots) - Cardinality(stale) + cloning >= MaxSnapshots
     THEN LeaveGate(c, "failed")
     ELSE /\ To(c, "measure") /\ UNCHANGED gate
          /\ survey' = [todo |-> {d \in Clone : dir[d] # NoDir}, sum |-> 0, stale |-> stale]
  /\ UNCHANGED <<reader, snapshots, expired, dir, child, reserved, cloning, tokenVars>>

\* diskBytes(): one directory after the other; one that has gone fails the walk.
Measure(c) ==
  /\ Holds(c, "measure")
  /\ \E d \in survey.todo :
       IF dir[d] = NoDir THEN LeaveGate(c, "failed")
       ELSE /\ survey' = [survey EXCEPT !.todo = @ \ {d}, !.sum = @ + dir[d]]
            /\ UNCHANGED <<clone, gate>>
  /\ UNCHANGED <<reader, snapshots, expired, dir, child, reserved, cloning, tokenVars>>

\* What others hold in reserve is read after the walk.
Weigh(c) ==
  /\ Holds(c, "measure") /\ survey.todo = {}
  /\ IF survey.sum + reserved + Reservation > Capacity THEN LeaveGate(c, "failed")
     ELSE To(c, "evict") /\ UNCHANGED <<gate, survey>>
  /\ UNCHANGED <<reader, snapshots, expired, dir, child, reserved, cloning, tokenVars>>

\* Expired snapshots go only now: the directory, then the entry.
RemoveExpired(c) ==
  /\ Holds(c, "evict")
  /\ \E d \in survey.stale : dir[d] # NoDir /\ dir' = [dir EXCEPT ![d] = NoDir]
  /\ UNCHANGED <<clone, reader, snapshots, expired, child, gate, survey, reserved, cloning, tokenVars>>

ForgetExpired(c) ==
  /\ Holds(c, "evict")
  /\ \E d \in survey.stale :
       /\ dir[d] = NoDir /\ snapshots' = snapshots \ {d}
       /\ survey' = [survey EXCEPT !.stale = @ \ {d}]
  /\ UNCHANGED <<clone, reader, expired, dir, child, gate, reserved, cloning, tokenVars>>

\* A directory cannot be removed, or none can be made.
StagingFails(c) ==
  /\ Holds(c, "evict") /\ LeaveGate(c, "failed")
  /\ UNCHANGED <<reader, snapshots, expired, dir, child, reserved, cloning, tokenVars>>

Stage(c) ==
  /\ Holds(c, "evict") /\ survey.stale = {} /\ LeaveGate(c, "git")
  /\ dir' = [dir EXCEPT ![c] = 0] /\ child' = [child EXCEPT ![c] = "running"]
  /\ reserved' = reserved + Reservation /\ cloning' = cloning + 1
  /\ UNCHANGED <<reader, snapshots, expired, tokenVars>>

-----------------------------------------------------------------------------
(* git, watched *)

gitVars == <<reader, gate, survey, tokenVars>>

\* The monitor looks every 100 ms; what is written in between stays within the reserve.
Write(c) ==
  /\ child[c] = "running" /\ dir[c] < Reservation
  /\ dir' = [dir EXCEPT ![c] = @ + 1]
  /\ UNCHANGED <<clone, snapshots, expired, child, reserved, cloning, gitVars>>

\* fail(): over the limit, out of time, too much output or given up: the group is killed,
\* and the outcome waits for its end.
Kill(c) ==
  /\ child[c] = "running" /\ child' = [child EXCEPT ![c] = "killed"]
  /\ UNCHANGED <<clone, snapshots, expired, dir, reserved, cloning, gitVars>>

GitCloses(c) ==
  /\ child[c] # "none"
  /\ \/ child[c] = "running" /\ To(c, "inspect")
     \/ To(c, "cleanup")
  /\ child' = [child EXCEPT ![c] = "none"]
  /\ UNCHANGED <<snapshots, expired, dir, reserved, cloning, gitVars>>

Unreserve == reserved' = reserved - Reservation /\ cloning' = cloning - 1

\* The last look of the monitor, the commit and the tree are in order.
Keep(c) ==
  /\ At(c, "inspect") /\ dir[c] <= CloneBytes
  /\ snapshots' = snapshots \union {c} /\ To(c, "done") /\ Unreserve
  /\ UNCHANGED <<expired, dir, child, gitVars>>

Reject(c) ==
  /\ At(c, "inspect") /\ To(c, "cleanup")
  /\ UNCHANGED <<snapshots, expired, dir, child, reserved, cloning, gitVars>>

CleanUp(c) ==
  /\ At(c, "cleanup") /\ dir' = [dir EXCEPT ![c] = NoDir] /\ To(c, "release")
  /\ UNCHANGED <<snapshots, expired, child, reserved, cloning, gitVars>>

GiveBack(c) ==
  /\ At(c, "release") /\ To(c, "failed") /\ Unreserve
  /\ UNCHANGED <<snapshots, expired, dir, child, gitVars>>

-----------------------------------------------------------------------------
(* Reading *)

SnapshotExpires(c) ==
  /\ c \in snapshots \ expired /\ expired' = expired \union {c}
  /\ UNCHANGED <<clone, snapshots, dir, child, reserved, cloning, gitVars>>

\* A mutant: the time of the snapshot is not looked at.
AvailableForEver(r, c) == c \in snapshots /\ actorOf[r] = actorOf[c] /\ ~ busy(c)

Available(r, c) == c \in snapshots \ expired /\ actorOf[r] = actorOf[c] /\ ~ busy(c)

ReaderTo(r, state) ==
  /\ reader' = [reader EXCEPT ![r] = state]
  /\ UNCHANGED <<clone, snapshots, expired, dir, child, gate, survey, reserved, cloning, tokenVars>>

\* use(): the snapshot is taken for this call, and Radar is asked again.
Use(r, c) == reader[r] = NotReading /\ Available(r, c) /\ ReaderTo(r, [pc |-> "authorize", on |-> c])

Reauthorized(r) == reader[r].pc = "authorize" /\ ReaderTo(r, [reader[r] EXCEPT !.pc = "read"])

\* The call ends, well or not: Radar's refusal, a git command, the page.
EndUse(r) == reader[r] # NotReading /\ ReaderTo(r, NotReading)

-----------------------------------------------------------------------------

CloneStep(c) ==
  \/ Call(c) \/ Unauthorized(c) \/ GetToken(c)
  \/ Lock(c) \/ Preflight(c) \/ Measure(c) \/ Weigh(c)
  \/ RemoveExpired(c) \/ ForgetExpired(c) \/ StagingFails(c) \/ Stage(c)
  \/ GitCloses(c) \/ Keep(c) \/ Reject(c) \/ CleanUp(c) \/ GiveBack(c)

SnapshotsNext ==
  \/ Minted \/ MintFails \/ TokenAges
  \/ \E c \in Clone : CloneStep(c) \/ GiveUp(c) \/ Write(c) \/ Kill(c) \/ SnapshotExpires(c)
  \/ \E r \in Reader : Reauthorized(r) \/ EndUse(r) \/ \E c \in Clone : Use(r, c)

\* A call that began goes on, GitHub answers or its time is over, and git ends.
SnapshotsFairness ==
  /\ WF_snapshotVars(Minted \/ MintFails)
  /\ \A c \in Clone : WF_snapshotVars(~ At(c, "idle") /\ CloneStep(c))

SnapshotsSpec == SnapshotsInit /\ [][SnapshotsNext]_snapshotVars /\ SnapshotsFairness

-----------------------------------------------------------------------------

Staged == {c \in Clone : clone[c] \in {"git", "inspect", "cleanup", "release"}}

\* At no moment are there more snapshots, kept or in the making, than allowed.
WithinCount == Cardinality(snapshots) + cloning <= MaxSnapshots

\* The reserve is that of the clones under way: none is lost and none returned twice.
ReserveAddsUp == cloning = Cardinality(Staged) /\ reserved = Reservation * cloning

\* What is being read is there, is the reader's own and nobody else's.
ReadIsKept ==
  \A r \in Reader : reader[r] # NotReading =>
    LET c == reader[r].on IN
    /\ c \in snapshots /\ dir[c] # NoDir /\ actorOf[r] = actorOf[c]
    /\ \A other \in Reader : reader[other].on = c => other = r

\* git has ended before its directory is removed, and a kept snapshot that can still be
\* read has its directory.
DirectoriesKept ==
  /\ \A c \in Clone : child[c] # "none" => dir[c] # NoDir
  /\ \A c \in snapshots \ expired : dir[c] # NoDir /\ dir[c] <= CloneBytes

\* Clones, readers and the removal of expired snapshots, over the awaits of each, keep
\* the books of the disk and what is in use (repository-snapshots.ts:96-107, 133, 137).
SnapshotsKept == WithinCount /\ ReserveAddsUp /\ ReadIsKept /\ DirectoriesKept

\* A clone that began ends: no failure keeps the gate, the token or the process from it.
ClonesEnd == \A c \in Clone : ~ At(c, "idle") ~> clone[c] \in {"done", "failed"}
=============================================================================

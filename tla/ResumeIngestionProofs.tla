------------------------ MODULE ResumeIngestionProofs ------------------------
(***************************************************************************)
(* The text and the original of a resume are what the rows say they are,   *)
(* and the resume files are a work queue: for any number of files,         *)
(* candidates, workers and erasures, and any leases and backoffs.          *)
(***************************************************************************)
EXTENDS ResumeIngestion, TLAPS

(* The inductive invariant behind the properties. *)

Holding == {"claimed", "read", "marked", "applying", "written", "failing", "retrying"}
Locking == {"marked", "applying", "written"}

\* A lane at work on a file knows it, and counts the attempt that it makes.
LanesInv == \A w \in Workers :
  /\ lane[w].pc \in Holding => lane[w].file \in Files /\ lane[w].attempts # 0
  /\ lane[w].pc \notin Holding => lane[w].file = None
  /\ lane[w].token <= clock

\* Row locks exclude each other; the row a lane has marked is still its own.
LocksInv ==
  /\ \A w \in Workers : lane[w].pc \in Locking => file[lane[w].file].status = "RUNNING"
  /\ \A v, w \in Workers : lane[v].pc \in Locking /\ lane[w].pc \in Locking
                           /\ lane[v].file = lane[w].file => v = w

\* The original is stored before the row.
UploadsInv == \A f \in Files :
  /\ upload[f] \in {"none", "stored"} => file[f].status = "NONE"
  /\ upload[f] = "stored" => f \in blobs

\* Rows go with their candidate.
RowsInv == \A f \in Files : f \in Rows => CandidateOf[f] \in present

\* An erasure removes originals only of rows of the candidates it erased, or
\* that someone else has erased.
ErasureOK(q) ==
  /\ q.pc \in {"listed", "locked", "erased"} => \A f \in q.keys : file[f].status # "NONE"
  /\ q.pc = "listed" => \A f \in q.keys : CandidateOf[f] \in q.cands
  /\ q.pc = "locked" => \A f \in q.keys : CandidateOf[f] \in q.cands \/ CandidateOf[f] \notin present
  /\ q.pc = "erased" => \A f \in q.keys : CandidateOf[f] \notin present

ErasersInv == \A e \in Erasers : ErasureOK(eraser[e])

\* The clock orders the claims of a file: a queued one is due only after every
\* claim ever made on it, a running one carries the latest of them.
ClaimsInv ==
  /\ \A f \in Files : file[f].status = "RUNNING" => file[f].lockedAt \in Nat
  /\ \A w \in Workers : lane[w].file # None =>
       /\ file[lane[w].file].status # "NONE"
       /\ file[lane[w].file].status = "QUEUED" => lane[w].token < file[lane[w].file].nextAttemptAt
       /\ file[lane[w].file].status = "RUNNING" => lane[w].token <= file[lane[w].file].lockedAt

\* A queued file has an attempt left, and the claim that is current knows how
\* many are gone.
AttemptsInv ==
  /\ \A f \in Files : /\ file[f].attempts <= MaxParseAttempts
                      /\ file[f].status = "QUEUED" => file[f].attempts < MaxParseAttempts
                      /\ file[f].status = "NONE" => file[f].attempts = 0
  /\ \A w \in Workers : lane[w].pc \in Holding /\ OwnedBy(w) =>
       lane[w].attempts = file[lane[w].file].attempts

IndInv ==
  /\ TypeOK
  /\ LanesInv
  /\ LocksInv
  /\ UploadsInv
  /\ RowsInv
  /\ ErasersInv
  /\ ClaimsInv
  /\ AttemptsInv
  /\ TextWasRead
  /\ OriginalKept
-----------------------------------------------------------------------------
(* Types. *)

LEMMA Constants ==
  /\ NewFile \in File
  /\ IdleLane \in Lane /\ IdleLane.pc = "idle" /\ IdleLane.file = None /\ IdleLane.token = 0
  /\ NoErasure \in Eraser /\ NoErasure.pc = "idle"
BY DEF NewFile, File, Statuses, IdleLane, Lane, NoErasure, Eraser

\* The type of one file is kept by each of the updates.
LEMMA FileUpdates ==
  ASSUME NEW q \in File, clock \in Nat
  PROVE  /\ [NewFile EXCEPT !.status = "QUEUED", !.nextAttemptAt = clock, !.createdAt = clock] \in File
         /\ \A now \in Nat : [q EXCEPT !.status = "RUNNING", !.lockedAt = now,
                                       !.attempts = @ + 1] \in File
         /\ [q EXCEPT !.status = "PARSED", !.lockedAt = None] \in File
         /\ [q EXCEPT !.status = "FAILED", !.lockedAt = None] \in File
         /\ [q EXCEPT !.status = "DELETED"] \in File
         /\ \A at \in Nat : [q EXCEPT !.status = "QUEUED", !.lockedAt = None,
                                      !.nextAttemptAt = at] \in File
<1>1. [NewFile EXCEPT !.status = "QUEUED", !.nextAttemptAt = clock, !.createdAt = clock] \in File
  BY DEF File, Statuses, NewFile
<1>2. ASSUME NEW now \in Nat
      PROVE  [q EXCEPT !.status = "RUNNING", !.lockedAt = now, !.attempts = @ + 1] \in File
  <2>1. q.attempts + 1 \in Nat /\ now \in Nat \cup {None}
    BY DEF File
  <2> QED
    BY <2>1 DEF File, Statuses
<1>3. /\ [q EXCEPT !.status = "PARSED", !.lockedAt = None] \in File
      /\ [q EXCEPT !.status = "FAILED", !.lockedAt = None] \in File
      /\ [q EXCEPT !.status = "DELETED"] \in File
  BY DEF File, Statuses
<1>4. \A at \in Nat : [q EXCEPT !.status = "QUEUED", !.lockedAt = None, !.nextAttemptAt = at] \in File
  BY DEF File, Statuses
<1> QED
  BY <1>1, <1>2, <1>3, <1>4

LEMMA LaneUpdates ==
  ASSUME NEW l \in Lane
  PROVE  /\ \A to \in Holding \cup {"idle", "asked"} : [l EXCEPT !.pc = to] \in Lane
         /\ \A now \in Nat : [IdleLane EXCEPT !.pc = "asked", !.token = now] \in Lane
         /\ \A f \in Files : \A n \in Nat :
              [l EXCEPT !.pc = "claimed", !.file = f, !.attempts = n] \in Lane
BY DEF Lane, IdleLane, Holding

LEMMA EraserUpdates ==
  ASSUME NEW q \in Eraser
  PROVE  /\ \A keys \in SUBSET Files : [q EXCEPT !.pc = "listed", !.keys = keys] \in Eraser
         /\ \A cs \in SUBSET Candidates : [q EXCEPT !.pc = "locked", !.cands = cs] \in Eraser
         /\ [q EXCEPT !.pc = "erased"] \in Eraser
BY DEF Eraser

LEMMA TypeUpload ==
  ASSUME TypeOK, NEW f \in Files, Upload(f)
  PROVE  TypeOK'
<1> USE BoundsAssumption
<1>1. CASE PutBlob(f)
  BY <1>1 DEF PutBlob, TypeOK
<1>2. CASE InsertRow(f)
  <2>1. file' \in [Files -> File]
    BY <1>2, Constants, FileUpdates DEF InsertRow, TypeOK
  <2> QED
    BY <1>2, <2>1 DEF InsertRow, Fault, TypeOK
<1>3. CASE InsertFails(f)
  BY <1>3 DEF InsertFails, Fault, TypeOK
<1>4. CASE CleanUp(f)
  BY <1>4 DEF CleanUp, Fault, TypeOK
<1>5. CASE CrashUpload(f)
  BY <1>5 DEF CrashUpload, Fault, TypeOK
<1> QED
  BY <1>1, <1>2, <1>3, <1>4, <1>5 DEF Upload

LEMMA TypeWork ==
  ASSUME TypeOK, LanesInv, NEW w \in Workers, Work(w)
  PROVE  TypeOK'
<1>0. lane[w] \in Lane /\ clock \in Nat
  BY DEF TypeOK
<1>a. ASSUME NEW to \in Holding \cup {"idle", "asked"}, Step(w, to) PROVE lane' \in [Workers -> Lane]
  BY <1>0, <1>a, LaneUpdates DEF Step, TypeOK
<1>b. ASSUME GoIdle(w) PROVE lane' \in [Workers -> Lane]
  BY <1>b, Constants DEF GoIdle, TypeOK
<1>c. lane[w].pc \in Holding => lane[w].file \in Files /\ file[lane[w].file] \in File
  BY DEF LanesInv, TypeOK
<1>1. CASE ClaimStart(w)
  BY <1>0, <1>1, LaneUpdates DEF ClaimStart, TypeOK
<1>2. CASE ClaimNextResumeFile(w)
  <2>1. ASSUME NEW f \in Due(lane[w].token),
               file' = [file EXCEPT ![f].status = "RUNNING", ![f].lockedAt = lane[w].token,
                                    ![f].attempts = @ + 1],
               lane' = [lane EXCEPT ![w].pc = "claimed", ![w].file = f,
                                    ![w].attempts = file[f].attempts + 1]
        PROVE  file' \in [Files -> File] /\ lane' \in [Workers -> Lane]
    <3>1. f \in Files /\ file[f] \in File /\ lane[w].token \in Nat /\ file[f].attempts + 1 \in Nat
      BY <1>0 DEF Due, TypeOK, File, Lane
    <3>2. [file[f] EXCEPT !.status = "RUNNING", !.lockedAt = lane[w].token, !.attempts = @ + 1] \in File
      BY <1>0, <3>1, FileUpdates
    <3>3. [lane[w] EXCEPT !.pc = "claimed", !.file = f, !.attempts = file[f].attempts + 1] \in Lane
      BY <1>0, <3>1, LaneUpdates
    <3> QED
      BY <2>1, <3>1, <3>2, <3>3 DEF TypeOK
  <2>2. file' \in [Files -> File] /\ lane' \in [Workers -> Lane]
    BY <1>2, <1>b, <2>1 DEF ClaimNextResumeFile, TypeOK
  <2> QED
    BY <1>2, <2>2 DEF ClaimNextResumeFile, TypeOK
<1>3. CASE Read(w)
  <2>1. lane' \in [Workers -> Lane]
    BY <1>3, <1>a DEF Read, Holding
  <2> QED
    BY <1>3, <2>1 DEF Read, TypeOK
<1>4. CASE MarkParsed(w)
  <2>1. lane' \in [Workers -> Lane]
    BY <1>4, <1>a, <1>b DEF MarkParsed, Holding
  <2> QED
    BY <1>4, <2>1 DEF MarkParsed, TypeOK
<1>d. ASSUME NEW txt \in [Candidates -> Files \cup {Typed}], lane[w].pc \in Holding, Commit(w, txt)
      PROVE  /\ file' \in [Files -> File] /\ lane' \in [Workers -> Lane]
             /\ text' \in [Candidates -> Files \cup {Typed}]
  <2>1. [file[lane[w].file] EXCEPT !.status = "PARSED", !.lockedAt = None] \in File
    BY <1>0, <1>c, <1>d, FileUpdates
  <2> QED
    BY <1>b, <1>c, <1>d, <2>1 DEF Commit, TypeOK
<1>5. CASE CheckNewer(w)
  <2>1. file' \in [Files -> File] /\ lane' \in [Workers -> Lane] /\ text' \in [Candidates -> Files \cup {Typed}]
    BY <1>5, <1>a, <1>d DEF CheckNewer, Holding, TypeOK
  <2> QED
    BY <1>5, <2>1 DEF CheckNewer, TypeOK
<1>6. CASE ApplyText(w)
  <2>1. lane' \in [Workers -> Lane]
    BY <1>6, <1>a DEF ApplyText, Holding
  <2> QED
    BY <1>6, <2>1 DEF ApplyText, TypeOK
<1>7. CASE CommitText(w)
  <2>1. lane[w].file \in Files /\ lane[w].pc \in Holding
    BY <1>7, <1>c DEF CommitText, Holding
  <2>2. [text EXCEPT ![CandidateOf[lane[w].file]] = lane[w].file] \in [Candidates -> Files \cup {Typed}]
    BY <2>1, DataAssumption DEF TypeOK
  <2>3. file' \in [Files -> File] /\ lane' \in [Workers -> Lane] /\ text' \in [Candidates -> Files \cup {Typed}]
    BY <1>7, <1>d, <2>1, <2>2 DEF CommitText
  <2> QED
    BY <1>7, <2>3 DEF CommitText, TypeOK
<1>8. CASE Rollback(w)
  <2>1. lane' \in [Workers -> Lane]
    BY <1>8, <1>a DEF Rollback, Holding
  <2> QED
    BY <1>8, <2>1, BoundsAssumption DEF Rollback, Fault, TypeOK
<1>9. CASE FailFile(w)
  <2>1. lane' \in [Workers -> Lane]
    BY <1>9, <1>b DEF FailFile
  <2>2. [file[lane[w].file] EXCEPT !.status = "FAILED", !.lockedAt = None] \in File
    BY <1>0, <1>9, <1>c, FileUpdates DEF FailFile, Holding
  <2>3. file' \in [Files -> File]
    BY <1>9, <2>2 DEF FailFile, TypeOK
  <2> QED
    BY <1>9, <2>1, <2>3 DEF FailFile, TypeOK
<1>10. CASE RetryOrFail(w)
  <2>1. lane' \in [Workers -> Lane]
    BY <1>10, <1>a, <1>b DEF RetryOrFail, Holding
  <2>2. CASE file' = file
    BY <1>10, <2>1, <2>2 DEF RetryOrFail, TypeOK
  <2>3. CASE file' # file
    <3>1. lane[w].attempts \in Nat /\ lane[w].attempts # 0 /\ lane[w].attempts < MaxParseAttempts
      BY <1>0, <1>10, <2>3, BoundsAssumption DEF RetryOrFail, Lane, LanesInv, Holding
    <3>2. lane[w].attempts \in 1..MaxParseAttempts
      BY <3>1, BoundsAssumption
    <3>3. clock + Backoff[lane[w].attempts] \in Nat
      BY <1>0, <3>2, BoundsAssumption
    <3>4. [file[lane[w].file] EXCEPT !.status = "QUEUED", !.lockedAt = None,
             !.nextAttemptAt = clock + Backoff[lane[w].attempts]] \in File
      BY <1>0, <1>10, <1>c, <3>3, FileUpdates DEF RetryOrFail, Holding
    <3>5. file' \in [Files -> File]
      BY <1>10, <2>3, <3>4 DEF RetryOrFail, TypeOK
    <3> QED
      BY <1>10, <2>1, <3>5 DEF RetryOrFail, TypeOK
  <2> QED
    BY <2>2, <2>3
<1>11. CASE Crash(w)
  <2>1. lane' \in [Workers -> Lane]
    BY <1>11, <1>b DEF Crash
  <2> QED
    BY <1>11, <2>1, BoundsAssumption DEF Crash, Fault, TypeOK
<1> QED
  BY <1>1, <1>2, <1>3, <1>4, <1>5, <1>6, <1>7, <1>8, <1>9, <1>10, <1>11 DEF Work

LEMMA TypeErase ==
  ASSUME TypeOK, NEW e \in Erasers, Erase(e)
  PROVE  TypeOK'
<1> USE BoundsAssumption
<1>0. eraser[e] \in Eraser
  BY DEF TypeOK
<1>1. ASSUME NEW c \in Candidates, DeleteCandidate(e, c) PROVE TypeOK'
  <2>1. [pc |-> "listed", purge |-> FALSE, cands |-> {c}, keys |-> Rows \cap FilesOf(c)] \in Eraser
    BY DEF Eraser, Rows, FilesOf
  <2>2. eraser' \in [Erasers -> Eraser]
    BY <1>1, <2>1 DEF DeleteCandidate, TypeOK
  <2> QED
    BY <1>1, <2>2 DEF DeleteCandidate, TypeOK
<1>2. CASE PurgeCompany(e)
  <2>1. PICK cs \in SUBSET (present \cap idle) :
          eraser' = [eraser EXCEPT ![e] = [pc |-> "picked", purge |-> TRUE, cands |-> cs, keys |-> {}]]
    BY <1>2 DEF PurgeCompany
  <2>2. [pc |-> "picked", purge |-> TRUE, cands |-> cs, keys |-> {}] \in Eraser
    BY DEF Eraser, TypeOK
  <2>3. eraser' \in [Erasers -> Eraser]
    BY <2>1, <2>2 DEF TypeOK
  <2> QED
    BY <1>2, <2>3 DEF PurgeCompany, TypeOK
<1>3. CASE ListFiles(e)
  <2> DEFINE keys == {f \in Rows : CandidateOf[f] \in eraser[e].cands}
  <2>1. [eraser[e] EXCEPT !.pc = "listed", !.keys = keys] \in Eraser
    BY <1>0, EraserUpdates DEF Rows
  <2>2. eraser' \in [Erasers -> Eraser]
    BY <1>3, <2>1 DEF ListFiles, TypeOK
  <2> QED
    BY <1>3, <2>2 DEF ListFiles, TypeOK
<1>4. CASE LockCandidates(e)
  <2>1. [eraser[e] EXCEPT !.pc = "locked", !.cands = @ \cap present] \in Eraser
    BY <1>0 DEF TypeOK, Eraser
  <2>2. eraser' \in [Erasers -> Eraser]
    BY <1>4, <2>1, Constants DEF LockCandidates, TypeOK
  <2> QED
    BY <1>4, <2>2 DEF LockCandidates, TypeOK
<1>5. CASE CommitErasure(e)
  <2>1. eraser' \in [Erasers -> Eraser]
    BY <1>0, <1>5, EraserUpdates DEF CommitErasure, TypeOK
  <2>2. \A f \in Files : [file[f] EXCEPT !.status = "DELETED"] \in File
    BY FileUpdates DEF TypeOK
  <2>3. file' \in [Files -> File]
    BY <1>5, <2>2 DEF CommitErasure, TypeOK
  <2> QED
    BY <1>5, <2>1, <2>3 DEF CommitErasure, TypeOK
<1>6. CASE DeleteBlobs(e)
  <2>1. eraser' \in [Erasers -> Eraser] /\ eraser[e].keys \subseteq Files
    BY <1>0, <1>6, Constants DEF DeleteBlobs, TypeOK, Eraser
  <2> QED
    BY <1>6, <2>1 DEF DeleteBlobs, Fault, TypeOK
<1>7. CASE AbortErasure(e) \/ CrashErasure(e)
  <2>1. eraser' \in [Erasers -> Eraser]
    BY <1>7, Constants DEF AbortErasure, CrashErasure, TypeOK
  <2> QED
    BY <1>7, <2>1 DEF AbortErasure, CrashErasure, Fault, TypeOK
<1> QED
  BY <1>1, <1>2, <1>3, <1>4, <1>5, <1>6, <1>7 DEF Erase

LEMMA TypeStep ==
  ASSUME TypeOK, LanesInv, [Next]_vars
  PROVE  TypeOK'
<1>1. CASE RecoverStaleResumeFiles
  <2>1. \A f \in Files :
          /\ [file[f] EXCEPT !.status = "QUEUED", !.lockedAt = None, !.nextAttemptAt = clock] \in File
          /\ [file[f] EXCEPT !.status = "FAILED", !.lockedAt = None] \in File
    BY FileUpdates DEF TypeOK
  <2>2. file' \in [Files -> File]
    BY <1>1, <2>1 DEF RecoverStaleResumeFiles, TypeOK
  <2> QED
    BY <1>1, <2>2 DEF RecoverStaleResumeFiles, TypeOK
<1>2. ASSUME NEW c \in Candidates, UpdateCandidate(c) PROVE TypeOK'
  BY <1>2 DEF UpdateCandidate, TypeOK
<1>3. CASE Tick
  BY <1>3 DEF Tick, TypeOK
<1>4. CASE UNCHANGED vars
  BY <1>4 DEF vars, TypeOK
<1> QED
  BY <1>1, <1>2, <1>3, <1>4, TypeUpload, TypeWork, TypeErase DEF Next
-----------------------------------------------------------------------------
(* What one step does to a row and to a lane. *)

RowStep(f) ==
  \/ file'[f] = file[f]
  \/ /\ file[f].status = "NONE"
     /\ upload[f] = "stored"
     /\ upload'[f] # "stored" /\ upload'[f] # "none"
     /\ file'[f].status = "QUEUED"
     /\ file'[f].attempts = 0
     /\ CandidateOf[f] \in present'
  \/ /\ file[f].status = "QUEUED"
     /\ file'[f].status = "RUNNING"
     /\ file'[f].attempts = file[f].attempts + 1
     /\ file'[f].lockedAt \in Nat
     /\ file[f].nextAttemptAt <= file'[f].lockedAt
  \/ /\ file[f].status = "RUNNING"
     /\ file[f].attempts < MaxParseAttempts
     /\ ~FileLocked(f)
     /\ file'[f].status = "QUEUED"
     /\ file'[f].attempts = file[f].attempts
     /\ file[f].lockedAt < file'[f].nextAttemptAt
  \/ /\ file[f].status = "RUNNING"
     /\ \/ file'[f].status = "FAILED" /\ ~FileLocked(f)
        \/ /\ file'[f].status = "PARSED"
           /\ \E w \in Workers : /\ lane[w].file = f
                                 /\ lane[w].pc \in Locking
                                 /\ lane'[w].pc \notin Locking
     /\ file'[f].attempts = file[f].attempts
  \/ /\ f \in Rows
     /\ ~FileLocked(f)
     /\ file'[f].status = "DELETED"
     /\ file'[f].attempts = file[f].attempts
     /\ CandidateOf[f] \notin present'

LaneStep(w) ==
  \/ lane'[w].pc \notin Holding /\ lane'[w].file = None /\ lane'[w].token <= clock
  \/ /\ lane[w].pc \in Holding
     /\ lane'[w].pc \in Holding
     /\ lane'[w].file = lane[w].file
     /\ lane'[w].token = lane[w].token
     /\ lane'[w].attempts = lane[w].attempts
     /\ lane'[w].pc \in Locking /\ lane[w].pc \notin Locking =>
          OwnedBy(w) /\ ~FileLocked(lane[w].file)
  \/ /\ lane'[w].pc = "claimed"
     /\ lane'[w].file \in Files
     /\ lane'[w].token = lane[w].token
     /\ file[lane'[w].file].status = "QUEUED"
     /\ file'[lane'[w].file].status = "RUNNING"
     /\ file'[lane'[w].file].lockedAt = lane[w].token
     /\ lane'[w].attempts = file'[lane'[w].file].attempts
     /\ lane'[w].attempts # 0

\* The steps of everyone but the lanes.
LEMMA LanesRest ==
  ASSUME [Next]_vars, ~\E w \in Workers : Work(w)
  PROVE  lane' = lane
BY DEF Next, Upload, PutBlob, InsertRow, InsertFails, CleanUp, CrashUpload, RecoverStaleResumeFiles,
       Erase, DeleteCandidate, PurgeCompany, ListFiles, LockCandidates, CommitErasure, DeleteBlobs,
       AbortErasure, CrashErasure, UpdateCandidate, Tick, vars

\* One lane moves at a time.
LEMMA OneLane ==
  ASSUME TypeOK, [Next]_vars, NEW v \in Workers, NEW w \in Workers, lane'[v] # lane[v], lane'[w] # lane[w]
  PROVE  v = w
<1>1. PICK x \in Workers : Work(x)
  BY LanesRest
<1>2. \A y \in Workers \ {x} : lane'[y] = lane[y]
  BY <1>1 DEF Work, ClaimStart, ClaimNextResumeFile, Read, MarkParsed, CheckNewer, ApplyText, CommitText,
              Commit, Rollback, FailFile, RetryOrFail, Crash, Step, GoIdle, TypeOK
<1> QED
  BY <1>2

LEMMA LaneSteps ==
  ASSUME TypeOK, LanesInv, [Next]_vars, NEW w \in Workers
  PROVE  LaneStep(w) \/ lane'[w] = lane[w]
<1>0. lane[w] \in Lane /\ clock \in Nat
  BY DEF TypeOK
<1>a. ASSUME NEW to \in Holding, Step(w, to), lane[w].pc \in Holding,
             to \in Locking => lane[w].pc \in Locking \/ (OwnedBy(w) /\ ~FileLocked(lane[w].file))
      PROVE  LaneStep(w)
  <2>1. lane'[w] = [lane[w] EXCEPT !.pc = to]
    BY <1>a DEF Step, TypeOK
  <2>2. /\ lane'[w].pc = to /\ lane'[w].file = lane[w].file /\ lane'[w].token = lane[w].token
        /\ lane'[w].attempts = lane[w].attempts
    BY <1>0, <2>1 DEF Lane
  <2> QED
    BY <1>a, <2>2 DEF LaneStep
<1>b. ASSUME GoIdle(w) PROVE LaneStep(w)
  <2>1. lane'[w] = IdleLane
    BY <1>b DEF GoIdle, TypeOK
  <2> QED
    BY <1>0, <2>1, Constants DEF LaneStep, Holding
<1>1. CASE ClaimStart(w)
  <2>1. lane'[w] = [IdleLane EXCEPT !.pc = "asked", !.token = clock]
    BY <1>1 DEF ClaimStart, TypeOK
  <2>2. lane'[w].pc = "asked" /\ lane'[w].file = None /\ lane'[w].token = clock
    BY <2>1 DEF IdleLane
  <2> QED
    BY <1>0, <2>2 DEF LaneStep, Holding
<1>2. CASE ClaimNextResumeFile(w)
  <2>1. ASSUME NEW f \in Due(lane[w].token),
               file' = [file EXCEPT ![f].status = "RUNNING", ![f].lockedAt = lane[w].token,
                                    ![f].attempts = @ + 1],
               lane' = [lane EXCEPT ![w].pc = "claimed", ![w].file = f,
                                    ![w].attempts = file[f].attempts + 1]
        PROVE  LaneStep(w)
    <3>1. f \in Files /\ file[f] \in File /\ file[f].attempts \in Nat /\ file[f].status = "QUEUED"
      BY DEF Due, TypeOK, File
    <3>2. /\ file'[f].status = "RUNNING" /\ file'[f].lockedAt = lane[w].token
          /\ file'[f].attempts = file[f].attempts + 1
      BY <2>1, <3>1 DEF TypeOK, File
    <3>3. /\ lane'[w].pc = "claimed" /\ lane'[w].file = f /\ lane'[w].token = lane[w].token
          /\ lane'[w].attempts = file[f].attempts + 1
      BY <1>0, <2>1 DEF TypeOK, Lane
    <3> QED
      BY <3>1, <3>2, <3>3 DEF LaneStep
  <2> QED
    BY <1>2, <1>b, <2>1 DEF ClaimNextResumeFile
<1>3. CASE Read(w)
  BY <1>3, <1>a DEF Read, Holding, Locking
<1>4. CASE MarkParsed(w)
  BY <1>4, <1>a, <1>b DEF MarkParsed, Holding, Locking
<1>5. CASE CheckNewer(w)
  <2>1. lane[w].pc \in Locking /\ lane[w].pc \in Holding /\ "applying" \in Holding
    BY <1>5 DEF CheckNewer, Holding, Locking
  <2>2. GoIdle(w) \/ Step(w, "applying")
    BY <1>5 DEF CheckNewer, Commit
  <2> QED
    BY <1>a, <1>b, <2>1, <2>2
<1>6. CASE ApplyText(w)
  <2>1. lane[w].pc \in Locking /\ lane[w].pc \in Holding /\ "written" \in Holding
    BY <1>6 DEF ApplyText, Holding, Locking
  <2>2. Step(w, "written")
    BY <1>6 DEF ApplyText
  <2> QED
    BY <1>a, <2>1, <2>2
<1>7. CASE CommitText(w) \/ FailFile(w) \/ Crash(w)
  BY <1>7, <1>b DEF CommitText, Commit, FailFile, Crash
<1>8. CASE Rollback(w)
  BY <1>8, <1>a DEF Rollback, Holding, Locking
<1>9. CASE RetryOrFail(w)
  BY <1>9, <1>a, <1>b DEF RetryOrFail, Holding, Locking
<1>10. CASE Work(w)
  BY <1>10, <1>1, <1>2, <1>3, <1>4, <1>5, <1>6, <1>7, <1>8, <1>9 DEF Work
<1>11. ASSUME NEW v \in Workers, Work(v), v # w PROVE lane'[w] = lane[w]
  BY <1>11 DEF Work, ClaimStart, ClaimNextResumeFile, Read, MarkParsed, CheckNewer, ApplyText, CommitText,
               Commit, Rollback, FailFile, RetryOrFail, Crash, Step, GoIdle, TypeOK
<1> QED
  BY <1>10, <1>11, LanesRest

LEMMA RowSteps ==
  ASSUME TypeOK, LanesInv, LocksInv, UploadsInv, ClaimsInv, AttemptsInv, [Next]_vars, NEW f \in Files
  PROVE  RowStep(f)
<1>0. file[f] \in File /\ clock \in Nat
  BY DEF TypeOK
<1>1. ASSUME NEW g \in Files, Upload(g) PROVE RowStep(f)
  <2>1. CASE InsertRow(g) /\ g = f
    <3>1. file'[f] = [NewFile EXCEPT !.status = "QUEUED", !.nextAttemptAt = clock, !.createdAt = clock]
      BY <2>1 DEF InsertRow, TypeOK
    <3>2. file'[f].status = "QUEUED" /\ file'[f].attempts = 0
      BY <3>1 DEF NewFile
    <3>3. upload[f] = "stored" /\ CandidateOf[f] \in present' /\ file[f].status = "NONE"
          /\ upload'[f] \in {"ok", "cleaning"}
      BY <2>1 DEF InsertRow, UploadsInv, TypeOK
    <3> QED
      BY <3>2, <3>3 DEF RowStep
  <2>2. CASE ~(InsertRow(g) /\ g = f)
    BY <1>1, <2>2 DEF Upload, PutBlob, InsertRow, InsertFails, CleanUp, CrashUpload, RowStep, TypeOK
  <2> QED
    BY <2>1, <2>2
<1>2. ASSUME NEW w \in Workers, Work(w) PROVE RowStep(f)
  <2>0. lane[w] \in Lane /\ (lane[w].pc \in Holding => lane[w].file \in Files)
    BY DEF TypeOK, LanesInv
  <2>1. CASE ClaimNextResumeFile(w)
    <3>1. ASSUME NEW g \in Due(lane[w].token),
                 file' = [file EXCEPT ![g].status = "RUNNING", ![g].lockedAt = lane[w].token,
                                      ![g].attempts = @ + 1]
          PROVE  RowStep(f)
      <4>1. g \in Files /\ file[g] \in File /\ file[g].status = "QUEUED"
            /\ file[g].nextAttemptAt <= lane[w].token /\ lane[w].token \in Nat
        BY <2>0 DEF Due, TypeOK, Lane
      <4>2. CASE g = f
        <5>1. /\ file'[f].status = "RUNNING" /\ file'[f].lockedAt = lane[w].token
              /\ file'[f].attempts = file[f].attempts + 1
          BY <3>1, <4>1, <4>2 DEF TypeOK, File
        <5> QED
          BY <4>1, <4>2, <5>1 DEF RowStep
      <4>3. CASE g # f
        BY <3>1, <4>1, <4>3 DEF RowStep, TypeOK
      <4> QED
        BY <4>2, <4>3
    <3> QED
      BY <2>1, <3>1 DEF ClaimNextResumeFile, RowStep
  <2>2. ASSUME NEW txt, Commit(w, txt), lane[w].pc \in Locking PROVE RowStep(f)
    <3>1. lane[w].file \in Files /\ file[lane[w].file].status = "RUNNING"
      BY <2>0, <2>2 DEF LocksInv, Locking, Holding
    <3>2. lane'[w].pc \notin Locking
      BY <2>2, Constants DEF Commit, GoIdle, TypeOK, Locking
    <3>3. CASE lane[w].file = f
      <4>1. file'[f].status = "PARSED" /\ file'[f].attempts = file[f].attempts
        BY <2>2, <3>1, <3>3 DEF Commit, TypeOK, File
      <4> QED
        BY <2>2, <3>1, <3>2, <3>3, <4>1 DEF RowStep
    <3>4. CASE lane[w].file # f
      BY <2>2, <3>1, <3>4 DEF Commit, RowStep, TypeOK
    <3> QED
      BY <3>3, <3>4
  <2>3. CASE CheckNewer(w) \/ CommitText(w)
    BY <2>2, <2>3 DEF CheckNewer, CommitText, Locking, RowStep
  <2>4. CASE FailFile(w)
    <3>1. lane[w].file \in Files
      BY <2>0, <2>4 DEF FailFile, Holding
    <3>2. CASE OwnedBy(w) /\ lane[w].file = f
      <4>1. file'[f].status = "FAILED" /\ file'[f].attempts = file[f].attempts
        BY <1>0, <2>4, <3>2 DEF FailFile, TypeOK, File
      <4> QED
        BY <2>4, <3>2, <4>1 DEF FailFile, OwnedBy, RowStep
    <3>3. CASE ~(OwnedBy(w) /\ lane[w].file = f)
      BY <2>4, <3>1, <3>3 DEF FailFile, RowStep, TypeOK
    <3> QED
      BY <3>2, <3>3
  <2>5. CASE RetryOrFail(w)
    <3>1. lane[w].file \in Files /\ lane[w].pc \in Holding
      BY <2>0, <2>5 DEF RetryOrFail, Holding
    <3>2. CASE file' # file /\ OwnedBy(w) /\ lane[w].file = f
      <4>1. lane[w].attempts \in Nat /\ lane[w].attempts # 0 /\ lane[w].attempts < MaxParseAttempts
        BY <2>0, <2>5, <3>1, <3>2, BoundsAssumption DEF RetryOrFail, Lane, LanesInv
      <4>2. lane[w].attempts \in 1..MaxParseAttempts
        BY <4>1, BoundsAssumption
      <4>3. Backoff[lane[w].attempts] \in Nat /\ Backoff[lane[w].attempts] > 0
        BY <4>2, BoundsAssumption
      <4>4. /\ ~FileLocked(f)
            /\ file' = [file EXCEPT ![f].status = "QUEUED", ![f].lockedAt = None,
                                    ![f].nextAttemptAt = clock + Backoff[lane[w].attempts]]
        BY <2>5, <3>2, <4>1, BoundsAssumption DEF RetryOrFail
      <4>5. /\ file'[f].status = "QUEUED" /\ file'[f].attempts = file[f].attempts
            /\ file'[f].nextAttemptAt = clock + Backoff[lane[w].attempts]
        BY <1>0, <4>4 DEF TypeOK, File
      <4>6. file[f].status = "RUNNING" /\ file[f].lockedAt = lane[w].token /\ lane[w].token \in Nat
            /\ lane[w].token <= clock
        BY <2>0, <3>2 DEF OwnedBy, LanesInv, Lane
      <4>7. file[f].lockedAt < file'[f].nextAttemptAt
        BY <1>0, <4>3, <4>5, <4>6
      <4>8. file[f].attempts < MaxParseAttempts
        BY <3>1, <3>2, <4>1 DEF AttemptsInv
      <4> QED
        BY <4>4, <4>5, <4>6, <4>7, <4>8 DEF RowStep
    <3>3. CASE ~(file' # file /\ OwnedBy(w) /\ lane[w].file = f)
      BY <2>5, <3>1, <3>3 DEF RetryOrFail, RowStep, TypeOK
    <3> QED
      BY <3>2, <3>3
  <2>6. CASE file' = file
    BY <2>6 DEF RowStep
  <2> QED
    BY <1>2, <2>1, <2>3, <2>4, <2>5, <2>6
       DEF Work, ClaimStart, Read, MarkParsed, ApplyText, Rollback, Crash
<1>3. CASE RecoverStaleResumeFiles
  <2>1. CASE f \in Stale
    <3>1. /\ ~FileLocked(f) /\ file[f].status = "RUNNING" /\ file[f].lockedAt \in Nat
          /\ file[f].lockedAt < clock - StaleAfter
      BY <1>3, <2>1 DEF RecoverStaleResumeFiles, Stale, ClaimsInv
    <3>2. file[f].lockedAt < clock
      BY <1>0, <3>1, BoundsAssumption
    <3>3. CASE file[f].attempts < MaxParseAttempts
      <4>1. file'[f] = [file[f] EXCEPT !.status = "QUEUED", !.lockedAt = None, !.nextAttemptAt = clock]
        BY <1>3, <2>1, <3>3 DEF RecoverStaleResumeFiles
      <4>2. file'[f].status = "QUEUED" /\ file'[f].attempts = file[f].attempts /\ file'[f].nextAttemptAt = clock
        BY <1>0, <4>1 DEF File
      <4> QED
        BY <3>1, <3>2, <3>3, <4>2 DEF RowStep
    <3>4. CASE ~(file[f].attempts < MaxParseAttempts)
      <4>1. file'[f] = [file[f] EXCEPT !.status = "FAILED", !.lockedAt = None]
        BY <1>3, <2>1, <3>4 DEF RecoverStaleResumeFiles
      <4>2. file'[f].status = "FAILED" /\ file'[f].attempts = file[f].attempts
        BY <1>0, <4>1 DEF File
      <4> QED
        BY <3>1, <4>2 DEF RowStep
    <3> QED
      BY <3>3, <3>4
  <2>2. CASE f \notin Stale
    BY <1>3, <2>2 DEF RecoverStaleResumeFiles, RowStep
  <2> QED
    BY <2>1, <2>2
<1>4. ASSUME NEW e \in Erasers, Erase(e) PROVE RowStep(f)
  <2>1. CASE CommitErasure(e)
    <3>1. CASE f \in Rows /\ CandidateOf[f] \in eraser[e].cands
      <4>1. file'[f] = [file[f] EXCEPT !.status = "DELETED"] /\ CandidateOf[f] \notin present'
            /\ ~FileLocked(f)
        BY <2>1, <3>1 DEF CommitErasure, FilesOf
      <4>2. file'[f].status = "DELETED" /\ file'[f].attempts = file[f].attempts
        BY <1>0, <4>1 DEF File
      <4> QED
        BY <3>1, <4>1, <4>2 DEF RowStep
    <3>2. CASE ~(f \in Rows /\ CandidateOf[f] \in eraser[e].cands)
      BY <2>1, <3>2 DEF CommitErasure, RowStep
    <3> QED
      BY <3>1, <3>2
  <2>2. CASE ~CommitErasure(e)
    BY <1>4, <2>2 DEF Erase, DeleteCandidate, PurgeCompany, ListFiles, LockCandidates, DeleteBlobs,
                      AbortErasure, CrashErasure, RowStep
  <2> QED
    BY <2>1, <2>2
<1>5. ASSUME (\E c \in Candidates : UpdateCandidate(c)) \/ Tick \/ UNCHANGED vars PROVE RowStep(f)
  BY <1>5 DEF UpdateCandidate, Tick, vars, RowStep
<1> QED
  BY <1>1, <1>2, <1>3, <1>4, <1>5 DEF Next
-----------------------------------------------------------------------------
(* The steps keep the parts of the invariant. *)

LEMMA LanesKept ==
  ASSUME TypeOK, LanesInv, [Next]_vars
  PROVE  LanesInv'
<1>1. clock' \in Nat /\ clock <= clock'
  <2>1. clock' = clock \/ clock' = clock + 1
    BY DEF Next, Upload, PutBlob, InsertRow, InsertFails, CleanUp, CrashUpload, RecoverStaleResumeFiles,
           Work, ClaimStart, ClaimNextResumeFile, Read, MarkParsed, CheckNewer, ApplyText, CommitText,
           Rollback, FailFile, RetryOrFail, Crash, Erase, DeleteCandidate, PurgeCompany, ListFiles,
           LockCandidates, CommitErasure, DeleteBlobs, AbortErasure, CrashErasure, UpdateCandidate, Tick, vars
  <2> QED
    BY <2>1 DEF TypeOK
<1>2. ASSUME NEW w \in Workers
      PROVE  /\ lane'[w].pc \in Holding => lane'[w].file \in Files /\ lane'[w].attempts # 0
             /\ lane'[w].pc \notin Holding => lane'[w].file = None
             /\ lane'[w].token <= clock'
  <2>1. lane[w].token \in Nat /\ clock \in Nat /\ lane[w].token <= clock
    BY DEF TypeOK, Lane, LanesInv
  <2>2. CASE lane'[w] = lane[w]
    BY <1>1, <2>1, <2>2 DEF LanesInv
  <2>3. CASE LaneStep(w)
    <3>1. lane'[w].token \in Nat /\ lane'[w].token <= clock
      BY <2>1, <2>3, TypeStep DEF LaneStep, TypeOK, Lane
    <3>2. /\ lane'[w].pc \in Holding => lane'[w].file \in Files /\ lane'[w].attempts # 0
          /\ lane'[w].pc \notin Holding => lane'[w].file = None
      BY <2>3 DEF LaneStep, LanesInv, Holding
    <3> QED
      BY <1>1, <2>1, <3>1, <3>2
  <2> QED
    BY <2>2, <2>3, LaneSteps
<1> QED
  BY <1>2 DEF LanesInv

LEMMA LocksKept ==
  ASSUME TypeOK, LanesInv, LocksInv, UploadsInv, ClaimsInv, AttemptsInv, [Next]_vars
  PROVE  LocksInv'
\* A lane that holds a lock now held it before, or its row was free.
<1>1. ASSUME NEW w \in Workers, lane'[w].pc \in Locking
      PROVE  /\ lane'[w].file = lane[w].file /\ lane[w].file \in Files
             /\ file[lane[w].file].status = "RUNNING"
             /\ \/ lane[w].pc \in Locking
                \/ ~FileLocked(lane[w].file) /\ lane'[w] # lane[w]
  <2>1. CASE lane'[w] = lane[w]
    BY <1>1, <2>1 DEF LocksInv, LanesInv, Locking, Holding
  <2>2. CASE LaneStep(w)
    <3>1. lane'[w].pc \in Holding /\ lane'[w].pc # "claimed"
      BY <1>1 DEF Holding, Locking
    <3>2. lane[w].pc \in Holding /\ lane'[w].file = lane[w].file
          /\ (lane[w].pc \notin Locking => OwnedBy(w) /\ ~FileLocked(lane[w].file))
      BY <1>1, <2>2, <3>1 DEF LaneStep
    <3>3. lane[w].file \in Files
      BY <3>2 DEF LanesInv
    <3>4. lane[w].pc \notin Locking => lane'[w] # lane[w]
      BY <1>1
    <3> QED
      BY <3>2, <3>3, <3>4 DEF LocksInv, OwnedBy
  <2> QED
    BY <2>1, <2>2, LaneSteps
<1>2. ASSUME NEW w \in Workers, lane'[w].pc \in Locking
      PROVE  file'[lane'[w].file].status = "RUNNING"
  <2> DEFINE f == lane[w].file
  <2>1. f \in Files /\ file[f].status = "RUNNING" /\ lane'[w].file = f
    BY <1>1, <1>2
  <2>2. RowStep(f)
    BY <2>1, RowSteps
  <2>3. lane[w].pc \in Locking => FileLocked(f)
    BY DEF FileLocked, Locking
  <2>4. CASE lane[w].pc \in Locking
    <3>1. \A v \in Workers : lane[v].file = f /\ lane[v].pc \in Locking => v = w
      BY <2>4 DEF LocksInv
    <3> QED
      BY <1>2, <2>1, <2>2, <2>3, <2>4, <3>1 DEF RowStep
  <2>5. CASE lane[w].pc \notin Locking
    <3>1. OwnedBy(w) /\ ~FileLocked(f) /\ lane'[w] # lane[w] /\ LaneStep(w)
      BY <1>1, <1>2, <2>5, LaneSteps DEF LaneStep, Locking, Holding
    <3>2. file' = file
      <4>1. PICK v \in Workers : Work(v)
        BY <3>1, LanesRest
      <4>2. \A y \in Workers \ {v} : lane'[y] = lane[y]
        BY <4>1 DEF Work, ClaimStart, ClaimNextResumeFile, Read, MarkParsed, CheckNewer, ApplyText,
                    CommitText, Commit, Rollback, FailFile, RetryOrFail, Crash, Step, GoIdle, TypeOK
      <4>3. Work(w)
        BY <3>1, <4>1, <4>2
      <4>4. \A to : Step(w, to) => lane'[w].pc = to
        BY DEF Step, TypeOK, Lane
      <4>5. GoIdle(w) => lane'[w].pc = "idle"
        BY Constants DEF GoIdle, TypeOK
      <4>6. MarkParsed(w)
        <5>1. "idle" \notin Locking /\ "read" \notin Locking /\ "failing" \notin Locking
              /\ "retrying" \notin Locking
          BY DEF Locking
        <5>2. ~(ClaimStart(w) \/ ClaimNextResumeFile(w))
          <6>1. lane[w].pc \in Holding
            BY <1>2, <3>1 DEF LaneStep, Locking, Holding
          <6> QED
            BY <6>1 DEF ClaimStart, ClaimNextResumeFile, Holding
        <5>3. ~(Read(w) \/ FailFile(w) \/ RetryOrFail(w) \/ Crash(w) \/ Rollback(w))
          BY <1>2, <4>4, <4>5, <5>1 DEF Read, FailFile, RetryOrFail, Crash, Rollback
        <5>4. ~(CheckNewer(w) \/ ApplyText(w) \/ CommitText(w))
          BY <2>5 DEF CheckNewer, ApplyText, CommitText, Locking
        <5> QED
          BY <4>3, <5>2, <5>3, <5>4 DEF Work
      <4> QED
        BY <4>6 DEF MarkParsed
    <3> QED
      BY <2>1, <3>2
  <2> QED
    BY <2>4, <2>5
<1>3. ASSUME NEW v \in Workers, NEW w \in Workers, lane'[v].pc \in Locking, lane'[w].pc \in Locking,
             lane'[v].file = lane'[w].file
      PROVE  v = w
  <2>1. ASSUME NEW x \in Workers, lane[x].pc \in Locking PROVE FileLocked(lane[x].file)
    BY <2>1 DEF FileLocked, Locking
  <2> QED
    BY <1>1, <1>3, <2>1, OneLane DEF LocksInv
<1> QED
  BY <1>2, <1>3 DEF LocksInv

LEMMA ClaimsKept ==
  ASSUME TypeOK, LanesInv, LocksInv, UploadsInv, ClaimsInv, AttemptsInv, [Next]_vars
  PROVE  ClaimsInv' /\ AttemptsInv'
<1>0. TypeOK'
  BY TypeStep
<1>1. ASSUME NEW f \in Files
      PROVE  /\ file'[f].status = "RUNNING" => file'[f].lockedAt \in Nat
             /\ file'[f].attempts <= MaxParseAttempts
             /\ file'[f].status = "QUEUED" => file'[f].attempts < MaxParseAttempts
             /\ file'[f].status = "NONE" => file'[f].attempts = 0
  <2>1. file[f].attempts \in Nat /\ RowStep(f)
    BY RowSteps DEF TypeOK, File
  <2> QED
    BY <2>1, BoundsAssumption DEF RowStep, ClaimsInv, AttemptsInv, Rows
<1>2. ASSUME NEW w \in Workers, lane'[w].file # None
      PROVE  /\ file'[lane'[w].file].status # "NONE"
             /\ file'[lane'[w].file].status = "QUEUED" => lane'[w].token < file'[lane'[w].file].nextAttemptAt
             /\ file'[lane'[w].file].status = "RUNNING" => lane'[w].token <= file'[lane'[w].file].lockedAt
             /\ lane'[w].pc \in Holding /\ OwnedBy(w)' => lane'[w].attempts = file'[lane'[w].file].attempts
  <2>0. lane[w].token \in Nat
    BY DEF TypeOK, Lane
  <2>1. CASE /\ lane'[w].file = lane[w].file /\ lane'[w].token = lane[w].token
             /\ lane'[w].attempts = lane[w].attempts
             /\ lane'[w].pc \in Holding => lane[w].pc \in Holding
    <3> DEFINE f == lane[w].file
    <3>1. f \in Files /\ f # None /\ lane'[w].file = f
      BY <1>2, <2>1 DEF LanesInv
    <3>2. RowStep(f) /\ file[f] \in File /\ file'[f] \in File
      BY <1>0, <3>1, RowSteps DEF TypeOK
    <3>3. /\ file[f].status # "NONE"
          /\ file[f].status = "QUEUED" => lane[w].token < file[f].nextAttemptAt
          /\ file[f].status = "RUNNING" => lane[w].token <= file[f].lockedAt /\ file[f].lockedAt \in Nat
      BY <3>1 DEF ClaimsInv
    <3>4. file[f].nextAttemptAt \in Nat /\ file'[f].nextAttemptAt \in Nat
      BY <3>2 DEF File
    <3> HIDE DEF f
    <3>5. file'[f] = file[f] \/ file'[f].status \notin {"QUEUED", "RUNNING"}
          \/ (file[f].status = "QUEUED" /\ file'[f].status = "RUNNING" /\ file'[f].lockedAt \in Nat
              /\ file[f].nextAttemptAt <= file'[f].lockedAt)
          \/ (file[f].status = "RUNNING" /\ file'[f].status = "QUEUED"
              /\ file[f].lockedAt < file'[f].nextAttemptAt)
      BY <3>2, <3>3 DEF RowStep
    <3>6. file'[f].status # "NONE"
      BY <3>2, <3>3 DEF RowStep
    <3>7. /\ file'[f].status = "QUEUED" => lane[w].token < file'[f].nextAttemptAt
          /\ file'[f].status = "RUNNING" => lane[w].token <= file'[f].lockedAt
      BY <2>0, <3>3, <3>4, <3>5
    <3>8. file'[f] # file[f] /\ file'[f].status = "RUNNING" => lane[w].token < file'[f].lockedAt
      BY <2>0, <3>3, <3>4, <3>5
    <3>9. ASSUME lane'[w].pc \in Holding, file'[f].status = "RUNNING", file'[f].lockedAt = lane[w].token
          PROVE  lane[w].attempts = file'[f].attempts
      <4>1. file'[f] = file[f]
        BY <2>0, <3>8, <3>9
      <4>2. OwnedBy(w) /\ lane[w].pc \in Holding
        BY <2>1, <3>9, <4>1 DEF OwnedBy, f
      <4> QED
        BY <4>1, <4>2 DEF AttemptsInv, f
    <3> QED
      BY <2>1, <3>1, <3>6, <3>7, <3>9 DEF OwnedBy
  <2>2. CASE LaneStep(w) /\ lane'[w].pc = "claimed" /\ lane[w].pc \notin Holding
    <3>1. /\ file'[lane'[w].file].status = "RUNNING"
          /\ file'[lane'[w].file].lockedAt = lane[w].token
          /\ lane'[w].token = lane[w].token
          /\ lane'[w].attempts = file'[lane'[w].file].attempts
      BY <1>2, <2>2 DEF LaneStep, Holding
    <3> QED
      BY <2>0, <3>1
  <2>3. CASE LaneStep(w) /\ lane[w].pc \in Holding /\ lane'[w].pc = "claimed"
             /\ file[lane'[w].file].status = "QUEUED"
             /\ file'[lane'[w].file].status = "RUNNING"
             /\ file'[lane'[w].file].lockedAt = lane[w].token
             /\ lane'[w].token = lane[w].token
             /\ lane'[w].attempts = file'[lane'[w].file].attempts
    BY <2>0, <2>3
  <2> QED
    BY <1>2, <2>1, <2>2, <2>3, LaneSteps DEF LaneStep
<1>3. \A w \in Workers : lane'[w].pc \in Holding => lane'[w].file # None
  BY LanesKept, DataAssumption DEF LanesInv
<1> QED
  BY <1>1, <1>2, <1>3 DEF ClaimsInv, AttemptsInv
-----------------------------------------------------------------------------
\* Rows go at most once, and only those of candidates that are erased.
LEMMA RowsLast ==
  ASSUME NEW f \in Files, RowStep(f)
  PROVE  /\ file[f].status # "NONE" => file'[f].status # "NONE"
         /\ f \in Rows' => f \in Rows \/ (upload[f] = "stored" /\ CandidateOf[f] \in present')
BY DEF RowStep, Rows

\* Where an upload is and where its original is.
LEMMA UploadSteps ==
  ASSUME TypeOK, ErasersInv, [Next]_vars, NEW f \in Files
  PROVE  /\ \/ upload'[f] = upload[f]
            \/ upload[f] = "none" /\ upload'[f] = "stored" /\ f \in blobs' /\ file' = file
            \/ upload[f] \in {"stored", "cleaning"} /\ upload'[f] \notin {"none", "stored"}
               /\ (upload'[f] = "ok" => upload[f] = "stored" /\ blobs' = blobs)
         /\ \/ f \in blobs => f \in blobs'
            \/ upload[f] = "cleaning" /\ upload'[f] = "failed"
            \/ /\ upload' = upload /\ file' = file
               /\ file[f].status # "NONE" /\ CandidateOf[f] \notin present
<1>1. ASSUME NEW g \in Files, Upload(g)
      PROVE  /\ \/ upload'[f] = upload[f]
                \/ upload[f] = "none" /\ upload'[f] = "stored" /\ f \in blobs' /\ file' = file
                \/ upload[f] \in {"stored", "cleaning"} /\ upload'[f] \notin {"none", "stored"}
                   /\ (upload'[f] = "ok" => upload[f] = "stored" /\ blobs' = blobs)
             /\ \/ f \in blobs => f \in blobs'
                \/ upload[f] = "cleaning" /\ upload'[f] = "failed"
  <2>1. CASE PutBlob(g)
    BY <2>1 DEF PutBlob, TypeOK
  <2>2. CASE InsertRow(g)
    BY <2>2 DEF InsertRow, TypeOK
  <2>3. CASE InsertFails(g)
    BY <2>3 DEF InsertFails, TypeOK
  <2>4. CASE CleanUp(g)
    BY <2>4 DEF CleanUp, TypeOK
  <2>5. CASE CrashUpload(g)
    BY <2>5 DEF CrashUpload, TypeOK
  <2> QED
    BY <1>1, <2>1, <2>2, <2>3, <2>4, <2>5 DEF Upload
<1>2. ASSUME NEW e \in Erasers, DeleteBlobs(e)
      PROVE  /\ upload' = upload
             /\ \/ f \in blobs => f \in blobs'
                \/ file' = file /\ file[f].status # "NONE" /\ CandidateOf[f] \notin present
  <2>1. ErasureOK(eraser[e]) /\ eraser[e].pc = "erased"
    BY <1>2 DEF ErasersInv, DeleteBlobs
  <2> QED
    BY <1>2, <2>1 DEF DeleteBlobs, ErasureOK
<1>3. CASE ~(\E g \in Files : Upload(g)) /\ ~(\E e \in Erasers : DeleteBlobs(e))
  <2>1. upload' = upload /\ blobs' = blobs
    BY <1>3 DEF Next, RecoverStaleResumeFiles, Work, ClaimStart, ClaimNextResumeFile, Read, MarkParsed,
           CheckNewer, ApplyText, CommitText, Rollback, FailFile, RetryOrFail, Crash, Erase,
           DeleteCandidate, PurgeCompany, ListFiles, LockCandidates, CommitErasure,
           AbortErasure, CrashErasure, UpdateCandidate, Tick, vars
  <2> QED
    BY <2>1
<1> QED
  BY <1>1, <1>2, <1>3

LEMMA UploadsKept ==
  ASSUME TypeOK, ErasersInv, UploadsInv, [Next]_vars, \A f \in Files : RowStep(f)
  PROVE  UploadsInv'
<1> SUFFICES ASSUME NEW f \in Files, upload'[f] \in {"none", "stored"}
             PROVE  file'[f].status = "NONE" /\ (upload'[f] = "stored" => f \in blobs')
  BY DEF UploadsInv
<1>1. CASE upload'[f] = upload[f]
  <2>1. file[f].status = "NONE" /\ (upload[f] = "stored" => f \in blobs)
    BY <1>1 DEF UploadsInv
  <2>2. file'[f].status = "NONE"
    BY <1>1, <2>1 DEF RowStep, Rows
  <2>3. upload[f] # "cleaning"
    BY <1>1
  <2> QED
    BY <1>1, <2>1, <2>2, <2>3, UploadSteps
<1>2. CASE upload'[f] # upload[f]
  BY <1>2, UploadSteps DEF UploadsInv
<1> QED
  BY <1>1, <1>2

\* Only the commit of an erasure takes candidates away, and it takes their rows too.
LEMMA PresentStep ==
  ASSUME [Next]_vars
  PROVE  \/ present' = present
         \/ /\ present' \subseteq present /\ upload' = upload
            /\ \A f \in Rows : CandidateOf[f] \in present \ present' => f \notin Rows'
<1>1. ASSUME NEW e \in Erasers, CommitErasure(e)
      PROVE  /\ present' \subseteq present /\ upload' = upload
             /\ \A f \in Rows : CandidateOf[f] \in present \ present' => f \notin Rows'
  BY <1>1 DEF CommitErasure, Rows
<1>2. CASE ~\E e \in Erasers : CommitErasure(e)
  BY <1>2 DEF Next, Upload, PutBlob, InsertRow, InsertFails, CleanUp, CrashUpload, RecoverStaleResumeFiles,
       Work, ClaimStart, ClaimNextResumeFile, Read, MarkParsed, CheckNewer, ApplyText, CommitText,
       Rollback, FailFile, RetryOrFail, Crash, Erase, DeleteCandidate, PurgeCompany, ListFiles,
       LockCandidates, DeleteBlobs, AbortErasure, CrashErasure, UpdateCandidate, Tick, vars
<1> QED
  BY <1>1, <1>2

LEMMA RowsKept ==
  ASSUME RowsInv, [Next]_vars, \A f \in Files : RowStep(f)
  PROVE  RowsInv'
<1> SUFFICES ASSUME NEW f \in Files, f \in Rows' PROVE CandidateOf[f] \in present'
  BY DEF RowsInv
<1>1. f \in Rows \/ CandidateOf[f] \in present'
  BY RowsLast
<1> QED
  BY <1>1, PresentStep DEF RowsInv

LEMMA ErasersKept ==
  ASSUME TypeOK, LanesInv, RowsInv, ErasersInv, [Next]_vars, \A f \in Files : RowStep(f)
  PROVE  ErasersInv'
<1>0. \A e \in Erasers : eraser[e] \in Eraser /\ eraser'[e] \in Eraser
  BY TypeStep DEF TypeOK
<1>1. present' \subseteq present
  BY PresentStep
\* What was known of the files of an erasure stays true.
<1>2. ASSUME NEW q \in Eraser, ErasureOK(q)
      PROVE  /\ q.pc \in {"listed", "locked", "erased"} => \A f \in q.keys : file'[f].status # "NONE"
             /\ q.pc = "listed" => \A f \in q.keys : CandidateOf[f] \in q.cands
             /\ q.pc = "locked" => \A f \in q.keys : CandidateOf[f] \in q.cands \/ CandidateOf[f] \notin present'
             /\ q.pc = "erased" => \A f \in q.keys : CandidateOf[f] \notin present'
  <2>1. \A f \in q.keys : f \in Files /\ (file[f].status # "NONE" => file'[f].status # "NONE")
    BY RowsLast DEF Eraser
  <2> QED
    BY <1>1, <1>2, <2>1 DEF ErasureOK
<1>3. ASSUME NEW e \in Erasers, Erase(e), NEW q \in Eraser, q = eraser'[e]
      PROVE  /\ q.pc \in {"listed", "locked", "erased"} => \A f \in q.keys : file'[f].status # "NONE"
             /\ q.pc = "listed" => \A f \in q.keys : CandidateOf[f] \in q.cands
             /\ q.pc = "locked" => \A f \in q.keys : CandidateOf[f] \in q.cands \/ CandidateOf[f] \notin present'
             /\ q.pc = "erased" => \A f \in q.keys : CandidateOf[f] \notin present'
  <2>0. PICK p \in Eraser : p = eraser[e]
    BY <1>0
  <2>1. ASSUME NEW c \in Candidates, DeleteCandidate(e, c)
        PROVE  q.pc = "listed" /\ q.cands = {c} /\ q.keys = Rows \cap FilesOf(c) /\ file' = file
    BY <1>3, <2>1 DEF DeleteCandidate, TypeOK
  <2>2. CASE \E c \in Candidates : DeleteCandidate(e, c)
    BY <2>1, <2>2 DEF Rows, FilesOf
  <2>3. CASE PurgeCompany(e)
    <3>1. q.pc = "picked"
      BY <1>3, <2>3 DEF PurgeCompany, TypeOK
    <3> QED
      BY <3>1
  <2>4. CASE ListFiles(e)
    <3>1. /\ q.pc = "listed" /\ q.cands = p.cands
          /\ q.keys = {f \in Rows : CandidateOf[f] \in p.cands} /\ file' = file
      BY <1>3, <2>0, <2>4 DEF ListFiles, TypeOK, Eraser
    <3> QED
      BY <3>1 DEF Rows
  <2>5. CASE LockCandidates(e)
    <3>1. file' = file /\ present' = present /\ p.pc = "listed" /\ ErasureOK(p)
      BY <2>0, <2>5 DEF LockCandidates, ErasersInv
    <3>2. q = NoErasure \/ (q.pc = "locked" /\ q.cands = p.cands \cap present /\ q.keys = p.keys)
      BY <1>3, <2>0, <2>5 DEF LockCandidates, TypeOK, Eraser
    <3> QED
      BY <3>1, <3>2, Constants DEF ErasureOK
  <2>6. CASE CommitErasure(e)
    <3>1. present' = present \ p.cands /\ p.pc = "locked" /\ ErasureOK(p)
      BY <2>0, <2>6 DEF CommitErasure, ErasersInv
    <3>2. q.pc = "erased" /\ q.cands = p.cands /\ q.keys = p.keys
      BY <1>3, <2>0, <2>6 DEF CommitErasure, TypeOK, Eraser
    <3>3. \A f \in q.keys : file'[f].status # "NONE"
      <4>1. \A f \in p.keys : f \in Files /\ file[f].status # "NONE"
        BY <3>1 DEF ErasureOK, Eraser
      <4> QED
        BY <3>2, <4>1, RowsLast
    <3>4. \A f \in p.keys : CandidateOf[f] \in p.cands \/ CandidateOf[f] \notin present
      BY <3>1 DEF ErasureOK
    <3> QED
      BY <3>1, <3>2, <3>3, <3>4
  <2>7. CASE DeleteBlobs(e) \/ AbortErasure(e) \/ CrashErasure(e)
    <3>1. q.pc = "idle"
      BY <1>3, <2>7, Constants DEF DeleteBlobs, AbortErasure, CrashErasure, TypeOK
    <3> QED
      BY <3>1
  <2> QED
    BY <1>3, <2>2, <2>3, <2>4, <2>5, <2>6, <2>7 DEF Erase
<1>4. \A e \in Erasers : Erase(e) \/ eraser'[e] = eraser[e]
  <2>1. ASSUME NEW d \in Erasers, Erase(d) PROVE \A e \in Erasers \ {d} : eraser'[e] = eraser[e]
    BY <2>1 DEF Erase, DeleteCandidate, PurgeCompany, ListFiles, LockCandidates, CommitErasure,
                DeleteBlobs, AbortErasure, CrashErasure, TypeOK
  <2>2. CASE ~\E e \in Erasers : Erase(e)
    BY <2>2 DEF Next, Upload, PutBlob, InsertRow, InsertFails, CleanUp, CrashUpload, RecoverStaleResumeFiles,
       Work, ClaimStart, ClaimNextResumeFile, Read, MarkParsed, CheckNewer, ApplyText, CommitText,
       Rollback, FailFile, RetryOrFail, Crash, UpdateCandidate, Tick, vars
  <2> QED
    BY <2>1, <2>2
<1>5. ASSUME NEW e \in Erasers
      PROVE  ErasureOK(eraser[e])'
  <2>1. PICK q \in Eraser : q = eraser'[e]
    BY <1>0
  <2>2. Erase(e) \/ (q = eraser[e] /\ ErasureOK(q))
    BY <1>4, <2>1 DEF ErasersInv
  <2> QED
    BY <1>2, <1>3, <2>1, <2>2 DEF ErasureOK
<1> QED
  BY <1>5 DEF ErasersInv

LEMMA TextKept ==
  ASSUME TypeOK, LanesInv, TextWasRead, [Next]_vars, \A f \in Files : RowStep(f)
  PROVE  TextWasRead'
<1> SUFFICES ASSUME NEW c \in Candidates, c \in present', text'[c] # Typed
             PROVE  text'[c] \in Files /\ CandidateOf[text'[c]] = c /\ file'[text'[c]].status = "PARSED"
  <2>1. present' \subseteq Candidates
    BY PresentStep DEF TypeOK
  <2> QED
    BY <2>1 DEF TextWasRead, FilesOf
<1>1. CASE text'[c] = text[c]
  <2>1. c \in present
    BY PresentStep
  <2>2. PICK f \in Files : f = text[c] /\ CandidateOf[f] = c /\ file[f].status = "PARSED"
    BY <1>1, <2>1 DEF TextWasRead, FilesOf
  <2>3. file'[f].status = "PARSED"
    BY <2>2 DEF RowStep
  <2> QED
    BY <1>1, <2>2, <2>3
<1>2. CASE text'[c] # text[c]
  <2>1. PICK w \in Workers : CommitText(w)
    <3>1. ASSUME NEW d \in Candidates, UpdateCandidate(d) PROVE text'[c] \in {text[c], Typed}
      BY <3>1 DEF UpdateCandidate, TypeOK
    <3> QED
      BY <1>2, <3>1 DEF Next, Upload, PutBlob, InsertRow, InsertFails, CleanUp, CrashUpload,
         RecoverStaleResumeFiles, Work, ClaimStart, ClaimNextResumeFile, Read, MarkParsed, CheckNewer, Commit,
         ApplyText, Rollback, FailFile, RetryOrFail, Crash, Erase, DeleteCandidate, PurgeCompany, ListFiles,
         LockCandidates, CommitErasure, DeleteBlobs, AbortErasure, CrashErasure, Tick, vars
  <2>2. PICK f \in Files : f = lane[w].file
    BY <2>1 DEF CommitText, LanesInv, Holding
  <2>3. text' = [text EXCEPT ![CandidateOf[f]] = f]
        /\ file' = [file EXCEPT ![f].status = "PARSED", ![f].lockedAt = None]
    BY <2>1, <2>2 DEF CommitText, Commit
  <2>4. file'[f].status = "PARSED"
    BY <2>3 DEF TypeOK, File
  <2>5. c = CandidateOf[f] /\ text'[c] = f
    BY <1>2, <2>3, DataAssumption DEF TypeOK
  <2> QED
    BY <2>4, <2>5
<1> QED
  BY <1>1, <1>2

LEMMA OriginalsKept ==
  ASSUME TypeOK, RowsInv, ErasersInv, UploadsInv, OriginalKept, [Next]_vars, \A f \in Files : RowStep(f)
  PROVE  OriginalKept'
<1> SUFFICES ASSUME NEW f \in Files, f \in Rows', upload'[f] = "ok" PROVE f \in blobs'
  BY DEF OriginalKept
<1>1. CASE upload[f] # "ok"
  <2>1. upload[f] = "stored" /\ blobs' = blobs
    BY <1>1, UploadSteps
  <2> QED
    BY <2>1 DEF UploadsInv
<1>2. CASE upload[f] = "ok"
  <2>1. f \in Rows
    BY <1>2, RowsLast
  <2>2. f \in blobs /\ CandidateOf[f] \in present
    BY <1>2, <2>1 DEF OriginalKept, RowsInv
  <2> QED
    BY <1>2, <2>2, UploadSteps
<1> QED
  BY <1>1, <1>2

LEMMA InitHolds == Init => IndInv
<1> SUFFICES ASSUME Init PROVE IndInv
  OBVIOUS
<1> USE DataAssumption, BoundsAssumption, Constants
<1>1. NewFile.status = "NONE" /\ NewFile.attempts = 0
  BY DEF NewFile
<1>2. TypeOK
  BY DEF Init, TypeOK
<1>3. LanesInv
  BY DEF Init, LanesInv, Holding
<1>4. LocksInv
  BY DEF Init, LocksInv, Locking
<1>5. UploadsInv /\ RowsInv
  BY <1>1 DEF Init, UploadsInv, RowsInv, Rows
<1>6. ErasersInv
  BY DEF Init, ErasersInv, ErasureOK
<1>7. ClaimsInv /\ AttemptsInv
  BY <1>1 DEF Init, ClaimsInv, AttemptsInv, Holding
<1>8. TextWasRead /\ OriginalKept
  BY <1>1 DEF Init, TextWasRead, OriginalKept, Rows
<1> QED
  BY <1>2, <1>3, <1>4, <1>5, <1>6, <1>7, <1>8 DEF IndInv

\* The inductive invariant holds in every reachable state.
THEOREM Invariance == Spec => []IndInv
<1>1. IndInv /\ [Next]_vars => IndInv'
  <2> SUFFICES ASSUME IndInv, [Next]_vars PROVE IndInv'
    OBVIOUS
  <2>1. TypeOK /\ LanesInv /\ LocksInv /\ UploadsInv /\ RowsInv /\ ErasersInv /\ ClaimsInv /\ AttemptsInv
        /\ TextWasRead /\ OriginalKept
    BY DEF IndInv
  <2>2. \A f \in Files : RowStep(f)
    BY <2>1, RowSteps
  <2> QED
    BY <2>1, <2>2, TypeStep, LanesKept, LocksKept, ClaimsKept, UploadsKept, RowsKept, ErasersKept,
       TextKept, OriginalsKept DEF IndInv
<1> QED
  BY InitHolds, <1>1, PTL DEF Spec

\* Every variable keeps its type.
THEOREM TypeCorrect == Spec => []TypeOK
BY Invariance, PTL DEF IndInv

\* A candidate's text is what a file of theirs said, and an original stays as
\* long as its row: through lost claims, deadlocks, erasures that die half-way
\* and uploads that race them.
THEOREM ResumesAreSound == Spec => []ResumesSound
<1>1. IndInv => ResumesSound
  BY DEF IndInv, ResumesSound
<1> QED
  BY <1>1, Invariance, PTL
-----------------------------------------------------------------------------
(* The abstract queue. *)

\* A row's step is a step of the abstract queue.
LEMMA QueueSteps ==
  ASSUME IndInv, TypeOK', [Next]_vars
  PROVE  Queue!Next
<1>0. TypeOK /\ LanesInv /\ LocksInv /\ UploadsInv /\ RowsInv /\ ErasersInv /\ ClaimsInv /\ AttemptsInv
  BY DEF IndInv
<1>1. \A f \in Files : /\ file[f].attempts \in Nat /\ file'[f].attempts \in Nat
                       /\ file[f].status \in Statuses /\ file'[f].status \in Statuses
  BY <1>0 DEF TypeOK, File
<1>2. \A s : QueueState(s) \in {"absent", "waiting", "working", "done"}
  BY DEF QueueState
<1>3. ASSUME NEW f \in Files
      PROVE  \/ Queue!Put(f) \/ Queue!Take(f) \/ Queue!Return(f)
             \/ Queue!Finish(f) \/ Queue!Withdraw(f) \/ Queue!Stay(f)
  <2>1. RowStep(f)
    BY <1>0, RowSteps
  <2>2. file[f].status = "QUEUED" => file[f].attempts < MaxParseAttempts
    BY <1>0 DEF AttemptsInv
  <2>3. f \in Rows => file[f].status \in {"QUEUED", "RUNNING", "PARSED", "FAILED"}
    BY <1>1 DEF Rows, Statuses
  <2> QED
    BY <2>1, <2>2, <2>3 DEF RowStep, Queue!Put, Queue!Take, Queue!Return, Queue!Finish,
                            Queue!Withdraw, Queue!Stay, QueueState
<1> QED
  BY <1>1, <1>2, <1>3 DEF Queue!Next

\* Resume files are a work queue: a file is read at most MAX_PARSE_ATTEMPTS
\* times and stays settled, under any interleaving of uploads, workers,
\* crashes, recoveries and erasures.
THEOREM IngestionImplementsWorkQueue == Spec => ImplementsWorkQueue
<1>1. Init => Queue!Init
  BY DEF Init, NewFile, Queue!Init, QueueState
<1>2. IndInv /\ IndInv' /\ [Next]_vars => [Queue!Next]_(Queue!vars)
  BY QueueSteps DEF IndInv
<1> QED
  BY <1>1, <1>2, Invariance, PTL DEF Spec, ImplementsWorkQueue, Queue!Spec
=============================================================================

--------------------------- MODULE ResumeIngestion ---------------------------
(***************************************************************************)
(* Resume files: uploads keep the original in blob storage and queue a row *)
(* (services/resume-files.ts), workers read the files and replace the      *)
(* candidate's resume text (ingestion/queue.ts), and erasing a candidate,  *)
(* by hand (services/candidates.ts) or by the retention purge              *)
(* (retention/candidates.ts), takes the rows and the originals with it.    *)
(*                                                                         *)
(* Postgres runs READ COMMITTED: a transaction sees what others have       *)
(* committed when each of its statements starts, and its own row locks are *)
(* held until it ends.  Blob storage is no part of any transaction.        *)
(***************************************************************************)
EXTENDS Integers, FiniteSets

CONSTANTS
  Files,             \* upload ids (randomUUID), one upload each
  Candidates,
  CandidateOf,       \* the candidate each file is uploaded for
  Workers,           \* lanes of the draining instances
  Erasers,           \* requests or crons erasing candidates
  MaxParseAttempts,
  Backoff,           \* BASE_BACKOFF_MS * 2 ** (attempts - 1), by attempts made, in ticks
  StaleAfter,        \* STALE_PARSE_MS, in ticks
  MaxPurge,          \* MAX_PURGE_PER_RUN
  MaxFaults,         \* bound: crashes and failing calls, parser errors aside
  Typed,             \* resume text a recruiter typed
  None               \* SQL NULL

VARIABLES
  clock,
  file,     \* ResumeFile rows
  text,     \* Candidate.resumeText, as the file it was read from
  present,  \* candidates that have not been erased
  idle,     \* candidates with no activity since the retention cutoff
  blobs,    \* files whose original is in the store
  logged,   \* originals a log line names as left behind
  lane,     \* the drain lanes
  upload,   \* where each upload is
  eraser,
  faults

vars == <<clock, file, text, present, idle, blobs, logged, lane, upload, eraser, faults>>

ASSUME BoundsAssumption ==
  /\ MaxParseAttempts \in Nat \ {0}
  /\ Backoff \in [1..MaxParseAttempts -> Nat \ {0}]
  /\ StaleAfter \in Nat
  /\ MaxPurge \in Nat
  /\ MaxFaults \in Nat

ASSUME DataAssumption ==
  /\ CandidateOf \in [Files -> Candidates]
  /\ Typed \notin Files
  /\ None \notin Files \cup Nat

Statuses == {"NONE", "QUEUED", "RUNNING", "PARSED", "FAILED", "DELETED"}
Settled == {"PARSED", "FAILED", "DELETED"}

File == [status: Statuses, attempts: Nat, nextAttemptAt: Nat, lockedAt: Nat \cup {None},
         createdAt: Nat]

\* "marked" and "applying" hold the file's row lock, "written" the candidate's too.
Lane == [pc: {"idle", "asked", "claimed", "read", "marked", "applying", "written",
              "failing", "retrying"},
         file: Files \cup {None}, token: Nat, attempts: Nat]

Eraser == [pc: {"idle", "picked", "listed", "locked", "erased"}, purge: BOOLEAN,
           cands: SUBSET Candidates, keys: SUBSET Files]

NewFile == [status |-> "NONE", attempts |-> 0, nextAttemptAt |-> 0, lockedAt |-> None,
            createdAt |-> 0]
IdleLane == [pc |-> "idle", file |-> None, token |-> 0, attempts |-> 0]
NoErasure == [pc |-> "idle", purge |-> FALSE, cands |-> {}, keys |-> {}]

TypeOK ==
  /\ clock \in Nat
  /\ file \in [Files -> File]
  /\ text \in [Candidates -> Files \cup {Typed}]
  /\ present \subseteq Candidates
  /\ idle \subseteq Candidates
  /\ blobs \subseteq Files
  /\ logged \subseteq Files
  /\ lane \in [Workers -> Lane]
  /\ upload \in [Files -> {"none", "stored", "cleaning", "ok", "failed"}]
  /\ eraser \in [Erasers -> Eraser]
  /\ faults \in 0..MaxFaults

Init ==
  /\ clock = 0
  /\ file = [f \in Files |-> NewFile]
  /\ text = [c \in Candidates |-> Typed]
  /\ present = Candidates
  /\ idle \in SUBSET Candidates
  /\ blobs = {}
  /\ logged = {}
  /\ lane = [w \in Workers |-> IdleLane]
  /\ upload = [f \in Files |-> "none"]
  /\ eraser = [e \in Erasers |-> NoErasure]
  /\ faults = 0
-----------------------------------------------------------------------------
(* Rows and their locks. *)

Rows == {f \in Files : file[f].status \notin {"NONE", "DELETED"}}
FilesOf(c) == {f \in Files : CandidateOf[f] = c}
Newer(f) == {g \in FilesOf(CandidateOf[f]) : file[g].createdAt > file[f].createdAt}

\* A RUNNING file older than this lost its worker.
Stale == {f \in Files : file[f].status = "RUNNING" /\ file[f].lockedAt < clock - StaleAfter}

\* ownedBy: only the claim that is still current may finish a file.
OwnedBy(w) == /\ file[lane[w].file].status = "RUNNING"
              /\ file[lane[w].file].lockedAt = lane[w].token

\* The uncommitted update of a file's row, and of its candidate's.
FileLocked(f) == \E w \in Workers :
  lane[w].file = f /\ lane[w].pc \in {"marked", "applying", "written"}

CandidateLocked(c) ==
  \/ \E w \in Workers : lane[w].pc = "written" /\ CandidateOf[lane[w].file] = c
  \/ \E e \in Erasers : eraser[e].pc = "locked" /\ c \in eraser[e].cands

Fault == faults < MaxFaults /\ faults' = faults + 1
-----------------------------------------------------------------------------
(* uploadResumeFile *)

\* The candidate is read, then the original is stored.
PutBlob(f) ==
  /\ upload[f] = "none"
  /\ CandidateOf[f] \in present
  /\ upload' = [upload EXCEPT ![f] = "stored"]
  /\ blobs' = blobs \cup {f}
  /\ UNCHANGED <<clock, file, text, present, idle, logged, lane, eraser, faults>>

\* The row, due at once.  The foreign key's share lock waits for an erasure of
\* the candidate; the caller may not hear of the commit.
InsertRow(f) ==
  /\ upload[f] = "stored"
  /\ CandidateOf[f] \in present
  /\ \A e \in Erasers : eraser[e].pc = "locked" => CandidateOf[f] \notin eraser[e].cands
  /\ file' = [file EXCEPT ![f] = [NewFile EXCEPT !.status = "QUEUED", !.nextAttemptAt = clock,
                                                 !.createdAt = clock]]
  /\ \/ upload' = [upload EXCEPT ![f] = "ok"] /\ UNCHANGED faults
     \/ upload' = [upload EXCEPT ![f] = "cleaning"] /\ Fault
  /\ UNCHANGED <<clock, text, present, idle, blobs, logged, lane, eraser>>

\* The candidate is gone (foreign key), or the database fails.
InsertFails(f) ==
  /\ upload[f] = "stored"
  /\ \/ CandidateOf[f] \notin present /\ UNCHANGED faults
     \/ Fault
  /\ upload' = [upload EXCEPT ![f] = "cleaning"]
  /\ UNCHANGED <<clock, file, text, present, idle, blobs, logged, lane, eraser>>

\* "Nothing points at the stored file, so take it back out."
CleanUp(f) ==
  /\ upload[f] = "cleaning"
  /\ upload' = [upload EXCEPT ![f] = "failed"]
  /\ \/ blobs' = blobs \ {f} /\ UNCHANGED <<logged, faults>>
     \/ logged' = logged \cup {f} /\ Fault /\ UNCHANGED blobs
  /\ UNCHANGED <<clock, file, text, present, idle, lane, eraser>>

\* The instance serving the upload dies.
CrashUpload(f) ==
  /\ upload[f] \in {"stored", "cleaning"}
  /\ Fault
  /\ upload' = [upload EXCEPT ![f] = "failed"]
  /\ UNCHANGED <<clock, file, text, present, idle, blobs, logged, lane, eraser>>
-----------------------------------------------------------------------------
(* drainResumeQueue *)

Step(w, pc) == lane' = [lane EXCEPT ![w].pc = pc]
GoIdle(w) == lane' = [lane EXCEPT ![w] = IdleLane]

\* The lane reads its clock; the claim is sent with it.
ClaimStart(w) ==
  /\ lane[w].pc = "idle"
  /\ lane' = [lane EXCEPT ![w] = [IdleLane EXCEPT !.pc = "asked", !.token = clock]]
  /\ UNCHANGED <<clock, file, text, present, idle, blobs, logged, upload, eraser, faults>>

Due(now) == {f \in Files : file[f].status = "QUEUED" /\ file[f].nextAttemptAt <= now}

\* The erasure of a candidate holds the locks of the queued rows it deletes too,
\* and SKIP LOCKED passes over them; in time they are gone.
ClaimNextResumeFile(w) ==
  /\ lane[w].pc = "asked"
  /\ LET now == lane[w].token IN
     \/ \E f \in Due(now) :
          /\ \A g \in Due(now) : file[f].nextAttemptAt <= file[g].nextAttemptAt
          /\ file' = [file EXCEPT ![f].status = "RUNNING", ![f].lockedAt = now,
                                  ![f].attempts = @ + 1]
          /\ lane' = [lane EXCEPT ![w].pc = "claimed", ![w].file = f,
                                  ![w].attempts = file[f].attempts + 1]
     \/ Due(now) = {} /\ GoIdle(w) /\ UNCHANGED file
  /\ UNCHANGED <<clock, text, present, idle, blobs, logged, upload, eraser, faults>>

\* store.get and the parser: the text; no such blob, or a file that cannot be
\* read; any other error.
Read(w) ==
  /\ lane[w].pc = "claimed"
  /\ \/ lane[w].file \in blobs /\ Step(w, "read")
     \/ Step(w, "failing")
     \/ Step(w, "retrying")
  /\ UNCHANGED <<clock, file, text, present, idle, blobs, logged, upload, eraser, faults>>

\* The transaction opens with the update to PARSED, which takes the row's lock;
\* a file that was recovered, reclaimed or erased is left to others.
MarkParsed(w) ==
  /\ lane[w].pc = "read"
  /\ ~FileLocked(lane[w].file)
  /\ IF OwnedBy(w) THEN Step(w, "marked") ELSE GoIdle(w)
  /\ UNCHANGED <<clock, file, text, present, idle, blobs, logged, upload, eraser, faults>>

Commit(w, txt) ==
  /\ file' = [file EXCEPT ![lane[w].file].status = "PARSED", ![lane[w].file].lockedAt = None]
  /\ text' = txt
  /\ GoIdle(w)

\* newerParsed sees committed rows only.  When there is one the text is kept and
\* nothing is left to wait for.
CheckNewer(w) ==
  /\ lane[w].pc = "marked"
  /\ IF \E g \in Newer(lane[w].file) : file[g].status = "PARSED"
     THEN Commit(w, text)
     ELSE Step(w, "applying") /\ UNCHANGED <<file, text>>
  /\ UNCHANGED <<clock, present, idle, blobs, logged, upload, eraser, faults>>

\* The update of the candidate waits for the row.
ApplyText(w) ==
  /\ lane[w].pc = "applying"
  /\ ~CandidateLocked(CandidateOf[lane[w].file])
  /\ Step(w, "written")
  /\ UNCHANGED <<clock, file, text, present, idle, blobs, logged, upload, eraser, faults>>

CommitText(w) ==
  /\ lane[w].pc = "written"
  /\ LET f == lane[w].file IN Commit(w, [text EXCEPT ![CandidateOf[f]] = f])
  /\ idle' = idle \ {CandidateOf[lane[w].file]}
  /\ UNCHANGED <<clock, present, blobs, logged, upload, eraser, faults>>

\* Worker and erasure wait for each other: one locked the file first, the other
\* the candidate.
Deadlocked(w, e) ==
  /\ lane[w].pc = "applying"
  /\ eraser[e].pc = "locked"
  /\ CandidateOf[lane[w].file] \in eraser[e].cands

\* The transaction is rolled back, by the database's deadlock detection or an
\* error; drainResumeQueue's catch calls retryOrFail.
Rollback(w) ==
  /\ lane[w].pc \in {"read", "marked", "applying", "written"}
  /\ \/ (\E e \in Erasers : Deadlocked(w, e)) /\ UNCHANGED faults
     \/ Fault
  /\ Step(w, "retrying")
  /\ UNCHANGED <<clock, file, text, present, idle, blobs, logged, upload, eraser>>

\* failFile
FailFile(w) ==
  /\ lane[w].pc = "failing"
  /\ ~FileLocked(lane[w].file)
  /\ file' = IF OwnedBy(w)
             THEN [file EXCEPT ![lane[w].file].status = "FAILED", ![lane[w].file].lockedAt = None]
             ELSE file
  /\ GoIdle(w)
  /\ UNCHANGED <<clock, text, present, idle, blobs, logged, upload, eraser, faults>>

\* retryOrFail: every other error is retried while attempts are left.
RetryOrFail(w) ==
  /\ lane[w].pc = "retrying"
  /\ IF lane[w].attempts >= MaxParseAttempts
     THEN Step(w, "failing") /\ UNCHANGED file
     ELSE /\ ~FileLocked(lane[w].file)
          /\ file' = IF OwnedBy(w)
                     THEN [file EXCEPT ![lane[w].file].status = "QUEUED",
                                       ![lane[w].file].lockedAt = None,
                                       ![lane[w].file].nextAttemptAt =
                                           clock + Backoff[lane[w].attempts]]
                     ELSE file
          /\ GoIdle(w)
  /\ UNCHANGED <<clock, text, present, idle, blobs, logged, upload, eraser, faults>>

\* mutant: recovery does not count attempts
RecoverStaleResumeFiles_AlwaysRequeue ==
  /\ Stale # {}
  /\ \A f \in Stale : ~FileLocked(f)
  /\ file' = [f \in Files |-> IF f \notin Stale THEN file[f] ELSE
       [file[f] EXCEPT !.status = "QUEUED", !.lockedAt = None, !.nextAttemptAt = clock]]
  /\ UNCHANGED <<clock, text, present, idle, blobs, logged, lane, upload, eraser, faults>>

\* mutant: only files with attempts left are recovered
RecoverStaleResumeFiles_Retryable ==
  /\ Stale # {}
  /\ \A f \in Stale : ~FileLocked(f)
  /\ file' = [f \in Files |-> IF f \notin Stale \/ file[f].attempts >= MaxParseAttempts THEN file[f] ELSE
       [file[f] EXCEPT !.status = "QUEUED", !.lockedAt = None, !.nextAttemptAt = clock]]
  /\ UNCHANGED <<clock, text, present, idle, blobs, logged, lane, upload, eraser, faults>>

\* recoverStaleResumeFiles, at the start of every drain.  It waits for rows a
\* late worker has locked and looks at them again.
RecoverStaleResumeFiles ==
  /\ Stale # {}
  /\ \A f \in Stale : ~FileLocked(f)
  /\ file' = [f \in Files |->
       IF f \notin Stale THEN file[f]
       ELSE IF file[f].attempts < MaxParseAttempts
            THEN [file[f] EXCEPT !.status = "QUEUED", !.lockedAt = None, !.nextAttemptAt = clock]
            ELSE [file[f] EXCEPT !.status = "FAILED", !.lockedAt = None]]
  /\ UNCHANGED <<clock, text, present, idle, blobs, logged, lane, upload, eraser, faults>>

\* The worker is killed, or its last write fails; its transaction is undone.
Crash(w) ==
  /\ lane[w].pc # "idle"
  /\ Fault
  /\ GoIdle(w)
  /\ UNCHANGED <<clock, file, text, present, idle, blobs, logged, upload, eraser>>
-----------------------------------------------------------------------------
(* deleteCandidate and purgeCompany *)

\* deleteCandidate's first statement lists the files.
DeleteCandidate(e, c) ==
  /\ eraser[e].pc = "idle"
  /\ c \in present
  /\ eraser' = [eraser EXCEPT ![e] = [pc |-> "listed", purge |-> FALSE, cands |-> {c},
                                      keys |-> Rows \cap FilesOf(c)]]
  /\ UNCHANGED <<clock, file, text, present, idle, blobs, logged, lane, upload, faults>>

\* purgeCompany first picks candidates, up to MAX_PURGE_PER_RUN.
PurgeCompany(e) ==
  /\ eraser[e].pc = "idle"
  /\ \E cs \in SUBSET (present \cap idle) \ {{}} :
       /\ Cardinality(cs) <= MaxPurge
       /\ cs = present \cap idle \/ Cardinality(cs) = MaxPurge
       /\ eraser' = [eraser EXCEPT ![e] = [pc |-> "picked", purge |-> TRUE, cands |-> cs,
                                           keys |-> {}]]
  /\ UNCHANGED <<clock, file, text, present, idle, blobs, logged, lane, upload, faults>>

ListFiles(e) ==
  /\ eraser[e].pc = "picked"
  /\ eraser' = [eraser EXCEPT ![e].pc = "listed",
                              ![e].keys = {f \in Rows : CandidateOf[f] \in eraser[e].cands}]
  /\ UNCHANGED <<clock, file, text, present, idle, blobs, logged, lane, upload, faults>>

\* mutant: the originals go before the rows
LockCandidates_BlobsFirst(e) ==
  /\ eraser[e].pc = "listed"
  /\ \A c \in eraser[e].cands \cap present : ~CandidateLocked(c)
  /\ eraser' = [eraser EXCEPT ![e].pc = "locked", ![e].cands = @ \cap present]
  /\ blobs' = blobs \ eraser[e].keys
  /\ UNCHANGED <<clock, file, text, present, idle, logged, lane, upload, faults>>

\* The delete locks the candidates' rows; rows that are gone are not found
\* (deleteCandidate then answers NotFound, purgeCompany deletes what is left).
LockCandidates(e) ==
  /\ eraser[e].pc = "listed"
  /\ \A c \in eraser[e].cands \cap present : ~CandidateLocked(c)
  /\ eraser' = IF ~eraser[e].purge /\ eraser[e].cands \cap present = {}
               THEN [eraser EXCEPT ![e] = NoErasure]
               ELSE [eraser EXCEPT ![e].pc = "locked", ![e].cands = @ \cap present]
  /\ UNCHANGED <<clock, file, text, present, idle, blobs, logged, lane, upload, faults>>

\* The rows cascade, waiting for the ones a worker has locked, and the erasure commits.
CommitErasure(e) ==
  /\ eraser[e].pc = "locked"
  /\ \A c \in eraser[e].cands : \A f \in FilesOf(c) : ~FileLocked(f)
  /\ file' = [f \in Files |-> IF f \in Rows /\ CandidateOf[f] \in eraser[e].cands
                              THEN [file[f] EXCEPT !.status = "DELETED"] ELSE file[f]]
  /\ present' = present \ eraser[e].cands
  /\ eraser' = [eraser EXCEPT ![e].pc = "erased"]
  /\ UNCHANGED <<clock, text, idle, blobs, logged, lane, upload, faults>>

\* The originals, once the rows are gone; a failure is logged.
DeleteBlobs(e) ==
  /\ eraser[e].pc = "erased"
  /\ \/ blobs' = blobs \ eraser[e].keys /\ UNCHANGED <<logged, faults>>
     \/ logged' = logged \cup eraser[e].keys /\ Fault /\ UNCHANGED blobs
  /\ eraser' = [eraser EXCEPT ![e] = NoErasure]
  /\ UNCHANGED <<clock, file, text, present, idle, lane, upload>>

\* The erasure is the deadlock's victim, or its transaction fails.
AbortErasure(e) ==
  /\ eraser[e].pc \in {"picked", "listed", "locked"}
  /\ \/ (\E w \in Workers : Deadlocked(w, e)) /\ UNCHANGED faults
     \/ Fault
  /\ eraser' = [eraser EXCEPT ![e] = NoErasure]
  /\ UNCHANGED <<clock, file, text, present, idle, blobs, logged, lane, upload>>

\* The instance dies between the commit and the blob store.
CrashErasure(e) ==
  /\ eraser[e].pc = "erased"
  /\ Fault
  /\ eraser' = [eraser EXCEPT ![e] = NoErasure]
  /\ UNCHANGED <<clock, file, text, present, idle, blobs, logged, lane, upload>>
-----------------------------------------------------------------------------
(* The rest of the application, and time. *)

\* updateCandidate with a resume typed by hand.
UpdateCandidate(c) ==
  /\ c \in present
  /\ ~CandidateLocked(c)
  /\ text' = [text EXCEPT ![c] = Typed]
  /\ idle' = idle \ {c}
  /\ UNCHANGED <<clock, file, present, blobs, logged, lane, upload, eraser, faults>>

\* Time matters only while a backoff or a lease is running.
TimerPending == \E f \in Files :
  \/ file[f].status = "QUEUED" /\ file[f].nextAttemptAt > clock
  \/ file[f].status = "RUNNING" /\ f \notin Stale

Tick ==
  /\ TimerPending
  /\ clock' = clock + 1
  /\ UNCHANGED <<file, text, present, idle, blobs, logged, lane, upload, eraser, faults>>

Upload(f) ==
  \/ PutBlob(f)
  \/ InsertRow(f)
  \/ InsertFails(f)
  \/ CleanUp(f)
  \/ CrashUpload(f)

Work(w) ==
  \/ ClaimStart(w)
  \/ ClaimNextResumeFile(w)
  \/ Read(w)
  \/ MarkParsed(w)
  \/ CheckNewer(w)
  \/ ApplyText(w)
  \/ CommitText(w)
  \/ Rollback(w)
  \/ FailFile(w)
  \/ RetryOrFail(w)
  \/ Crash(w)

Erase(e) ==
  \/ \E c \in Candidates : DeleteCandidate(e, c)
  \/ PurgeCompany(e)
  \/ ListFiles(e)
  \/ LockCandidates(e)
  \/ CommitErasure(e)
  \/ DeleteBlobs(e)
  \/ AbortErasure(e)
  \/ CrashErasure(e)

Next ==
  \/ \E f \in Files : Upload(f)
  \/ \E w \in Workers : Work(w)
  \/ RecoverStaleResumeFiles
  \/ \E e \in Erasers : Erase(e)
  \/ \E c \in Candidates : UpdateCandidate(c)
  \/ Tick

Spec == Init /\ [][Next]_vars

(* Fairness.  Uploads, status polls and the cron keep draining; an          *)
(* instance's own steps follow each other; Postgres grants row locks in     *)
(* turn, which makes a step that waits for one strongly fair, and breaks    *)
(* deadlocks.                                                              *)
Drain(w) ==
  \/ ClaimStart(w)
  \/ ClaimNextResumeFile(w)
  \/ Read(w)
  \/ MarkParsed(w)
  \/ CheckNewer(w)
  \/ ApplyText(w)
  \/ CommitText(w)
  \/ FailFile(w)
  \/ RetryOrFail(w)

Fairness ==
  /\ WF_vars(Tick)
  /\ SF_vars(RecoverStaleResumeFiles)
  /\ \A w \in Workers : SF_vars(Drain(w))
  /\ \A e \in Erasers :
       /\ SF_vars(ListFiles(e) \/ LockCandidates(e) \/ CommitErasure(e) \/ DeleteBlobs(e))
       /\ \A w \in Workers : WF_vars(Deadlocked(w, e) /\ (Rollback(w) \/ AbortErasure(e)))

FairSpec == Spec /\ Fairness
-----------------------------------------------------------------------------
(* Properties. *)

\* A file whose upload succeeded keeps its original as long as its row exists,
\* through erasures that fail half-way: the original is stored before the row
\* and removed after it.
OriginalKept == \A f \in Files : f \in Rows /\ upload[f] = "ok" => f \in blobs

\* The resume text comes from a file of the candidate that was read, and only
\* the read that settled the file may have written it.
TextWasRead == \A c \in present :
  text[c] # Typed => text[c] \in FilesOf(c) /\ file[text[c]].status = "PARSED"

\* The text and the original of a resume are both what the rows say they are.
ResumesSound == TextWasRead /\ OriginalKept

QueueState(s) == CASE s = "NONE" -> "absent"
                   [] s = "QUEUED" -> "waiting"
                   [] s = "RUNNING" -> "working"
                   [] OTHER -> "done"

Queue == INSTANCE WorkQueue WITH
  Items <- Files,
  MaxAttempts <- MaxParseAttempts,
  state <- [f \in Files |-> QueueState(file[f].status)],
  attempts <- [f \in Files |-> file[f].attempts]

\* Resume files are a work queue: crashes, retries and recoveries together never
\* start more than MAX_PARSE_ATTEMPTS reads, and a settled file is never queued again.
ImplementsWorkQueue == Queue!Spec

\* Every queued file is read, given up or erased.
FilesSettle == \A f \in Files : file[f].status = "QUEUED" ~> file[f].status \in Settled

=============================================================================

------------------------------ MODULE AuditLog ------------------------------
(***************************************************************************)
(* One company's audit log: entries sealed into a hash chain as their      *)
(* transactions commit (the audit_seal trigger), the owners' settings      *)
(* (services/audit.ts), the retention purge (audit/retention.ts), the      *)
(* verification of the chain (audit/chain.ts) and the stream that carries  *)
(* the entries to the company's SIEM (audit/stream.ts).  Companies share   *)
(* nothing here, so one is enough.                                         *)
(*                                                                         *)
(* A hash is the identity of the entry it was computed for: SHA-256 over   *)
(* the content and the previous hash is equal only for the same entry, and *)
(* the audit_log_guard trigger keeps the content from changing.            *)
(***************************************************************************)
EXTENDS Integers, FiniteSets

CONSTANTS
  Operations,       \* what the writers do: a subset of Ops
  Writers,          \* transactions that write an entry
  Drains,           \* workers of drainAuditStreams
  Purgers,          \* runs of purgeExpiredAuditEntries
  Verifiers,        \* requests of verifyAuditLog
  RetentionChoices, \* retention periods an owner may choose, in ticks
  MaxPurge,         \* MAX_PURGE_PER_RUN
  VerifyBatch,      \* VERIFY_BATCH
  StreamBatch,      \* STREAM_BATCH_SIZE
  StaleAfter,       \* STALE_LOCK_MS, in ticks
  Backoff,          \* delay after a failure or a missing entitlement, in ticks
  MaxEntries,       \* bound: entries ever written
  MaxFaults,        \* bound: crashes, failed sends, overrun leases
  None              \* SQL NULL

VARIABLES
  clock,
  log,        \* the committed ActivityLog rows
  written,    \* how many entries were ever committed
  sealing,    \* the transaction that holds the company's advisory lock
  tx,         \* the writers
  retention,  \* Company.auditRetentionDays
  entitled,   \* the company has "audit-streaming"
  stream,     \* the AuditStream row
  streams,    \* how many rows there have been
  drain,      \* the drains
  received,   \* entries the SIEM has accepted for the current row
  purger,     \* the purges
  verifier,   \* the verifications
  faults

vars == <<clock, log, written, sealing, tx, retention, entitled, stream, streams,
          drain, received, purger, verifier, faults>>

logVars == <<log, written, sealing, tx>>
settings == <<retention, entitled>>
streamVars == <<stream, streams, received>>

\* Any other mutation, the owners' operations, and a change of the entitlement.
Ops == {"event", "save", "pause", "resume", "remove", "keep", "flag"}

ASSUME BoundsAssumption ==
  /\ RetentionChoices \subseteq Nat
  /\ {MaxPurge, VerifyBatch, StreamBatch, Backoff} \subseteq Nat \ {0}
  /\ {StaleAfter, MaxEntries, MaxFaults} \subseteq Nat
  /\ None \notin Nat \cup Writers
  /\ Operations \subseteq Ops

Seqs == 1..MaxEntries
Hashes == 1..MaxEntries
Link == [seq: Seqs, hash: Hashes]
Entry == [seq: Seqs, hash: Hashes, prevHash: Hashes \cup {None}, createdAt: Nat,
          cut: Link \cup {None}]

Tx == [pc: {"idle", "open", "sealed"}, op: Ops, entry: Entry \cup {None},
       createdAt: Nat, latest: Nat, days: RetentionChoices \cup {None}]
Lock == [at: Nat, by: Drains]
Stream == [id: Nat, enabled: BOOLEAN, start: Nat, cursor: Nat, nextAttemptAt: Nat,
           lock: Lock \cup {None}]
Drain == [pc: {"idle", "asked", "claimed", "reading", "sending", "settling"}, id: Nat, token: Nat,
          cursor: Nat, batch: SUBSET Seqs, outcome: {"held", "failed", "empty", "delivered", None}]
Purger == [pc: {"idle", "chosen", "bounded"}, cutoff: Int, cut: Link \cup {None}, createdAt: Nat]
Fault == [seq: Seqs, fault: {"missing", "unlinked", "unanchored"}]
Verifier == [pc: {"idle", "reading", "anchoring", "done"}, first: Nat \cup {None},
             previous: Link \cup {None}, after: Nat, batch: SUBSET Entry,
             fault: Fault \cup {None}, raced: BOOLEAN]

ASSUME NullAssumption == None \notin Link \cup Entry \cup Lock \cup Stream \cup Fault

IdleTx == [pc |-> "idle", op |-> "event", entry |-> None, createdAt |-> 0,
           latest |-> 0, days |-> None]
IdleDrain == [pc |-> "idle", id |-> 0, token |-> 0, cursor |-> 0, batch |-> {}, outcome |-> None]
IdlePurger == [pc |-> "idle", cutoff |-> 0, cut |-> None, createdAt |-> 0]
IdleVerifier == [pc |-> "idle", first |-> None, previous |-> None, after |-> 0, batch |-> {},
                 fault |-> None, raced |-> FALSE]

TypeOK ==
  /\ clock \in Nat
  /\ log \subseteq Entry
  /\ written \in 0..MaxEntries
  /\ sealing \in Writers \cup {None}
  /\ tx \in [Writers -> Tx]
  /\ retention \in RetentionChoices \cup {None}
  /\ entitled \in BOOLEAN
  /\ stream \in Stream \cup {None}
  /\ streams \in Nat
  /\ drain \in [Drains -> Drain]
  /\ received \subseteq Seqs
  /\ purger \in [Purgers -> Purger]
  /\ verifier \in [Verifiers -> Verifier]
  /\ faults \in 0..MaxFaults

\* A new company: forever kept, not streamed, entitled by default.
Init ==
  /\ clock = 0
  /\ log = {}
  /\ written = 0
  /\ sealing = None
  /\ tx = [w \in Writers |-> IdleTx]
  /\ retention = None
  /\ entitled = TRUE
  /\ stream = None
  /\ streams = 0
  /\ drain = [d \in Drains |-> IdleDrain]
  /\ received = {}
  /\ purger = [p \in Purgers |-> IdlePurger]
  /\ verifier = [v \in Verifiers |-> IdleVerifier]
  /\ faults = 0

FaultHappens == faults < MaxFaults /\ faults' = faults + 1

LogSeqs == {e.seq : e \in log}
Highest(S) == IF S = {} THEN 0 ELSE CHOOSE n \in S : \A m \in S : m <= n
Lowest(S) == CHOOSE n \in S : \A m \in S : n <= m

\* The newest committed entry's seq, 0 in an empty log (latestSeq).
LatestSeq == Highest(LogSeqs)

\* The first n entries after a seq, in the order of seq.
NextEntries(after, n) == {e \in log : /\ e.seq > after
                                      /\ Cardinality({f \in log : after < f.seq /\ f.seq < e.seq}) < n}
-----------------------------------------------------------------------------
(* Writing.  Any mutation logs an entry in its own transaction; the entry's *)
(* place in the chain is decided by the deferred trigger at its commit.     *)

\* What the operation has checked, and what it read inside its transaction.
Permitted(op) ==
  /\ op \in {"save", "resume"} => entitled
  /\ op \in {"pause", "resume", "remove"} => stream # None

\* The request's transaction up to its last statement.  Only saving reads the newest seq.
Begin(w, op, days) ==
  /\ tx[w].pc = "idle"
  /\ Permitted(op)
  /\ op # "keep" => days = None
  /\ tx' = [tx EXCEPT ![w] = [IdleTx EXCEPT !.pc = "open", !.op = op, !.createdAt = clock,
                                !.latest = IF op = "save" THEN LatestSeq ELSE 0, !.days = days]]
  /\ UNCHANGED <<clock, log, written, sealing, settings, streamVars, drain, purger, verifier, faults>>

\* The entry after the head of the chain as the trigger reads it.
Sealed(hash, createdAt, cut, rows) ==
  LET head == {e \in rows : e.seq = Highest({f.seq : f \in rows})} IN
  [seq |-> Highest({e.seq : e \in rows}) + 1,
   hash |-> hash,
   prevHash |-> IF head = {} THEN None ELSE (CHOOSE e \in head : TRUE).hash,
   createdAt |-> createdAt,
   cut |-> cut]

\* audit_seal: under the advisory lock, which is held until the commit.
AuditSeal(w) ==
  /\ tx[w].pc = "open"
  /\ sealing = None
  /\ written < MaxEntries
  /\ sealing' = w
  /\ tx' = [tx EXCEPT ![w].pc = "sealed",
                      ![w].entry = Sealed(written + 1, tx[w].createdAt, None, log)]
  /\ UNCHANGED <<clock, log, written, settings, streamVars, drain, purger, verifier, faults>>

\* mutant: changing the destination starts from the newest entry again
SaveAuditStream_Restart(w) ==
  /\ streams' = streams + 1
  /\ received' = IF stream = None THEN {} ELSE received
  /\ stream' = [id |-> IF stream = None THEN streams + 1 ELSE stream.id, enabled |-> TRUE,
                start |-> IF stream = None THEN tx[w].latest ELSE stream.start,
                cursor |-> tx[w].latest, nextAttemptAt |-> tx[w].createdAt, lock |-> None]

\* saveAuditStream: a new stream starts at the newest entry, a changed one keeps its place.
SaveAuditStream(w) ==
  IF stream = None
  THEN /\ streams' = streams + 1
       /\ received' = {}
       /\ stream' = [id |-> streams + 1, enabled |-> TRUE, start |-> tx[w].latest,
                     cursor |-> tx[w].latest, nextAttemptAt |-> tx[w].createdAt, lock |-> None]
  ELSE /\ UNCHANGED <<streams, received>>
       /\ stream' = [stream EXCEPT !.enabled = TRUE, !.nextAttemptAt = tx[w].createdAt,
                                   !.lock = None]

\* setAuditStreamEnabled: pausing only clears the flag.
SetAuditStreamEnabled(w) ==
  /\ stream' = IF tx[w].op = "pause"
               THEN [stream EXCEPT !.enabled = FALSE]
               ELSE [stream EXCEPT !.enabled = TRUE, !.nextAttemptAt = tx[w].createdAt,
                                   !.lock = None]
  /\ UNCHANGED <<streams, received>>

RemoveAuditStream(w) == stream' = None /\ received' = {} /\ UNCHANGED streams

\* The operation's own change, visible with the commit.
StreamChange(w) ==
  \/ tx[w].op = "save" /\ SaveAuditStream(w)
  \/ tx[w].op \in {"pause", "resume"} /\ stream # None /\ SetAuditStreamEnabled(w)
  \/ tx[w].op = "remove" /\ stream # None /\ RemoveAuditStream(w)
  \/ tx[w].op \in {"event", "keep", "flag"} /\ UNCHANGED <<streamVars>>

\* The commit shows the change and its entry together.
Commit(w) ==
  /\ tx[w].pc = "sealed"
  /\ StreamChange(w)
  /\ retention' = IF tx[w].op = "keep" THEN tx[w].days ELSE retention
  /\ entitled' = IF tx[w].op = "flag" THEN ~entitled ELSE entitled
  /\ log' = log \cup {tx[w].entry}
  /\ written' = written + 1
  /\ sealing' = None
  /\ tx' = [tx EXCEPT ![w] = IdleTx]
  /\ UNCHANGED <<clock, drain, purger, verifier, faults>>

\* The transaction fails: a stream that is gone, a lost connection.
Rollback(w) ==
  /\ tx[w].pc # "idle"
  /\ sealing' = IF sealing = w THEN None ELSE sealing
  /\ tx' = [tx EXCEPT ![w] = IdleTx]
  /\ UNCHANGED <<clock, log, written, settings, streamVars, drain, purger, verifier, faults>>
-----------------------------------------------------------------------------
(* purgeExpiredAuditEntries and purgeCompany. *)

\* The companies and their periods are read before the first transaction.
PurgeStart(p) ==
  /\ purger[p].pc = "idle"
  /\ retention # None
  /\ purger' = [purger EXCEPT ![p] = [IdlePurger EXCEPT !.pc = "chosen", !.cutoff = clock - retention]]
  /\ UNCHANGED <<clock, logVars, settings, streamVars, drain, verifier, faults>>

Expired(cutoff) == {e.seq : e \in {f \in log : f.createdAt < cutoff}}
Least(a, b) == IF a <= b THEN a ELSE b

\* mutant: LEAST skips the NULL, so nothing expired means all but the newest
Boundary_NullLeast(cutoff) ==
  IF log = {} THEN {}
  ELSE LET expired == Expired(cutoff)
           belowTip == LatestSeq - 1
           batchEnd == Lowest(LogSeqs) + MaxPurge - 1
           through == IF expired = {} THEN Least(belowTip, batchEnd)
                      ELSE Least(Highest(expired), Least(belowTip, batchEnd))
       IN {e \in log : e.seq = through}

\* The entry to cut after: by seq, below the newest entry, at most a batch.
Boundary(cutoff) ==
  LET expired == Expired(cutoff) IN
  IF expired = {} THEN {}
  ELSE {e \in log : e.seq = Least(Highest(expired),
                                  Least(LatestSeq - 1, Lowest(LogSeqs) + MaxPurge - 1))}

PurgeBoundary(p) ==
  /\ purger[p].pc = "chosen"
  /\ LET at == Boundary(purger[p].cutoff) IN
     \/ \E e \in at : purger' = [purger EXCEPT ![p].pc = "bounded", ![p].createdAt = clock,
                                               ![p].cut = [seq |-> e.seq, hash |-> e.hash]]
     \/ at = {} /\ purger' = [purger EXCEPT ![p] = IdlePurger]
  /\ UNCHANGED <<clock, logVars, settings, streamVars, drain, verifier, faults>>

\* mutant: the purge reads the head without the advisory lock
PurgeCommit_NoLock(p) ==
  /\ purger[p].pc = "bounded"
  /\ LET doomed == {e \in log : e.seq <= purger[p].cut.seq} IN
       /\ doomed # {}
       /\ written + 1 < MaxEntries
       /\ written' = written + 1
       /\ log' = (log \ doomed) \cup
                 {Sealed(written + 1, purger[p].createdAt, purger[p].cut, log \ doomed)}
  /\ verifier' = [v \in Verifiers |-> [verifier[v] EXCEPT !.raced = TRUE]]
  /\ purger' = [purger EXCEPT ![p] = IdlePurger]
  /\ UNCHANGED <<clock, sealing, tx, settings, streamVars, drain, faults>>

\* The delete, the audit.purge entry and the commit.  Two purges wait for each
\* other's row locks, so each delete counts only what the other left.
PurgeCommit(p) ==
  /\ purger[p].pc = "bounded"
  /\ LET doomed == {e \in log : e.seq <= purger[p].cut.seq} IN
     \/ /\ doomed # {}
        /\ sealing = None
        /\ written < MaxEntries
        /\ written' = written + 1
        /\ log' = (log \ doomed) \cup
                  {Sealed(written + 1, purger[p].createdAt, purger[p].cut, log \ doomed)}
        /\ verifier' = [v \in Verifiers |->
                          IF verifier[v].pc \in {"reading", "anchoring"}
                          THEN [verifier[v] EXCEPT !.raced = TRUE] ELSE verifier[v]]
     \/ doomed = {} /\ UNCHANGED <<written, log, verifier>>
  /\ purger' = [purger EXCEPT ![p] = IdlePurger]
  /\ UNCHANGED <<clock, sealing, tx, settings, streamVars, drain, faults>>
-----------------------------------------------------------------------------
(* verifyAuditLog. *)

\* The fault at entry e when it follows last, if there is one.
FaultAt(last, e) ==
  IF last = None
  THEN IF e.seq # 1 \/ e.prevHash # None THEN {[seq |-> e.seq, fault |-> "unanchored"]} ELSE {}
  ELSE IF e.seq # last.seq + 1 THEN {[seq |-> last.seq + 1, fault |-> "missing"]}
  ELSE IF e.prevHash # last.hash THEN {[seq |-> e.seq, fault |-> "unlinked"]}
  ELSE {}

\* findChainBreak: the faults of the first entry that has any.
FindChainBreak(previous, entries) ==
  LET before(e) == {f \in entries : f.seq < e.seq}
      last(e) == IF before(e) = {} THEN previous
                 ELSE LET f == CHOOSE f \in before(e) : f.seq = Highest({g.seq : g \in before(e)})
                      IN [seq |-> f.seq, hash |-> f.hash]
      broken == {e \in entries : FaultAt(last(e), e) # {}}
  IN UNION {FaultAt(last(e), e) : e \in {b \in broken : \A c \in broken : b.seq <= c.seq}}

\* purgeAnchor: a cut recorded among the rows just before the first entry.
PurgeAnchor(e, rows) ==
  IF e.prevHash # None /\ \E c \in rows : c.cut = [seq |-> e.seq - 1, hash |-> e.prevHash]
  THEN [seq |-> e.seq - 1, hash |-> e.prevHash] ELSE None

\* One turn of the loop: stop at a fault or after a short batch.
Checked(v, previous, batch) ==
  LET breaks == FindChainBreak(previous, batch)
      last == CHOOSE e \in batch : e.seq = Highest({f.seq : f \in batch})
  IN IF breaks # {}
     THEN [verifier[v] EXCEPT !.pc = "done", !.fault = CHOOSE b \in breaks : TRUE, !.batch = {},
                              !.previous = previous]
     ELSE [verifier[v] EXCEPT !.pc = IF Cardinality(batch) < VerifyBatch THEN "done" ELSE "reading",
                              !.previous = [seq |-> last.seq, hash |-> last.hash],
                              !.after = last.seq, !.batch = {}]

VerifyStart(v) ==
  /\ verifier[v].pc \in {"idle", "done"}
  /\ verifier' = [verifier EXCEPT ![v] = [IdleVerifier EXCEPT !.pc = "reading"]]
  /\ UNCHANGED <<clock, logVars, settings, streamVars, drain, purger, faults>>

\* The next batch; the first one may need an anchor, which is another query.
VerifyRead(v) ==
  /\ verifier[v].pc = "reading"
  /\ LET q == verifier[v]
         batch == NextEntries(q.after, VerifyBatch)
         first == IF q.first = None THEN Lowest({e.seq : e \in batch}) ELSE q.first
     IN verifier' = [verifier EXCEPT ![v] =
          IF batch = {} THEN [q EXCEPT !.pc = "done"]
          ELSE IF q.first = None /\ first > 1
               THEN [q EXCEPT !.pc = "anchoring", !.first = first, !.batch = batch]
               ELSE [Checked(v, q.previous, batch) EXCEPT !.first = first]]
  /\ UNCHANGED <<clock, logVars, settings, streamVars, drain, purger, faults>>

VerifyAnchor(v) ==
  /\ verifier[v].pc = "anchoring"
  /\ LET e == CHOOSE e \in verifier[v].batch : e.seq = verifier[v].first
     IN verifier' = [verifier EXCEPT ![v] = Checked(v, PurgeAnchor(e, log), verifier[v].batch)]
  /\ UNCHANGED <<clock, logVars, settings, streamVars, drain, purger, faults>>
-----------------------------------------------------------------------------
(* drainAuditStreams. *)

DrainStart(d) ==
  /\ drain[d].pc = "idle"
  /\ drain' = [drain EXCEPT ![d] = [IdleDrain EXCEPT !.pc = "asked", !.token = clock]]
  /\ UNCHANGED <<clock, logVars, settings, streamVars, purger, verifier, faults>>

\* mutant: a claim that was left behind is never taken over
Claimable_NoStale(now) == /\ stream # None
                          /\ stream.enabled
                          /\ stream.nextAttemptAt <= now
                          /\ stream.lock = None

Claimable(now) == /\ stream # None
                  /\ stream.enabled
                  /\ stream.nextAttemptAt <= now
                  /\ stream.lock = None \/ stream.lock.at < now - StaleAfter

ClaimNextStream(d) ==
  /\ drain[d].pc = "asked"
  /\ IF Claimable(drain[d].token)
     THEN /\ stream' = [stream EXCEPT !.lock = [at |-> drain[d].token, by |-> d]]
          /\ drain' = [drain EXCEPT ![d].pc = "claimed", ![d].id = stream.id, ![d].cursor = stream.cursor]
     ELSE drain' = [drain EXCEPT ![d] = IdleDrain] /\ UNCHANGED stream
  /\ UNCHANGED <<clock, logVars, settings, streams, received, purger, verifier, faults>>

SettleAs(d, outcome) == drain' = [drain EXCEPT ![d].pc = "settling", ![d].outcome = outcome]

\* companyHasFeature, then the token, which cannot be opened once AUTH_SECRET has changed.
CheckFeature(d) ==
  /\ drain[d].pc = "claimed"
  /\ \/ ~entitled /\ SettleAs(d, "held") /\ UNCHANGED faults
     \/ entitled /\ drain' = [drain EXCEPT ![d].pc = "reading"] /\ UNCHANGED faults
     \/ entitled /\ FaultHappens /\ SettleAs(d, "failed")
  /\ UNCHANGED <<clock, logVars, settings, streamVars, purger, verifier>>

ReadBatch(d) ==
  /\ drain[d].pc = "reading"
  /\ LET batch == {e.seq : e \in NextEntries(drain[d].cursor, StreamBatch)} IN
     IF batch = {} THEN SettleAs(d, "empty")
     ELSE drain' = [drain EXCEPT ![d].pc = "sending", ![d].batch = batch]
  /\ UNCHANGED <<clock, logVars, settings, streamVars, purger, verifier, faults>>

\* The SIEM has the batch, refuses it, or has it and the answer is lost.
Send(d) ==
  /\ drain[d].pc = "sending"
  /\ LET accept == received' = IF stream # None /\ stream.id = drain[d].id
                               THEN received \cup drain[d].batch ELSE received
     IN \/ accept /\ SettleAs(d, "delivered") /\ UNCHANGED faults
        \/ accept /\ FaultHappens /\ SettleAs(d, "failed")
        \/ FaultHappens /\ SettleAs(d, "failed") /\ UNCHANGED received
  /\ UNCHANGED <<clock, logVars, settings, stream, streams, purger, verifier>>

\* Claims made at different times carry different lockedAt.  A drain has one claim
\* at a time, so its name stands for that value.
OwnedBy(d) == /\ stream # None /\ stream.id = drain[d].id
              /\ stream.lock # None /\ stream.lock.by = d

\* What each outcome writes into the row.
Settled(d) ==
  CASE drain[d].outcome = "delivered" ->
         [stream EXCEPT !.cursor = Highest(drain[d].batch), !.nextAttemptAt = drain[d].token,
                        !.lock = None]
    [] drain[d].outcome = "empty" -> [stream EXCEPT !.lock = None]
    [] OTHER -> [stream EXCEPT !.nextAttemptAt = drain[d].token + Backoff, !.lock = None]

Settle(d) ==
  /\ drain[d].pc = "settling"
  /\ stream' = IF OwnedBy(d) THEN Settled(d) ELSE stream
  /\ drain' = [drain EXCEPT ![d] = IdleDrain]
  /\ UNCHANGED <<clock, logVars, settings, streams, received, purger, verifier, faults>>

\* The instance dies; the claim stays.
Crash(d) ==
  /\ drain[d].pc # "idle"
  /\ FaultHappens
  /\ drain' = [drain EXCEPT ![d] = IdleDrain]
  /\ UNCHANGED <<clock, logVars, settings, streamVars, purger, verifier>>
-----------------------------------------------------------------------------
\* Time passes while something waits for it: a backoff, the lease of a claim
\* nobody works on any more, the age of an entry.
TimerPending ==
  \/ stream # None /\ entitled /\ stream.nextAttemptAt > clock
  \/ /\ stream # None /\ stream.lock # None
     /\ stream.lock.at >= clock - StaleAfter
     /\ \A d \in Drains : ~OwnedBy(d)
  \/ retention # None /\ \E e \in log : e.createdAt >= clock - retention

\* A drain may also overrun the lease of its claim.
LeaseOverrun == /\ stream # None /\ stream.lock # None
                /\ stream.lock.at >= clock - StaleAfter
                /\ FaultHappens

Tick ==
  /\ (TimerPending /\ UNCHANGED faults) \/ LeaseOverrun
  /\ clock' = clock + 1
  /\ UNCHANGED <<logVars, settings, streamVars, drain, purger, verifier>>

Write(w) ==
  \/ \E op \in Operations, days \in RetentionChoices \cup {None} : Begin(w, op, days)
  \/ AuditSeal(w)
  \/ Commit(w)
  \/ Rollback(w)

Purge(p) == PurgeStart(p) \/ PurgeBoundary(p) \/ PurgeCommit(p)

Verify(v) == VerifyStart(v) \/ VerifyRead(v) \/ VerifyAnchor(v)

Deliver(d) ==
  \/ DrainStart(d)
  \/ ClaimNextStream(d)
  \/ CheckFeature(d)
  \/ ReadBatch(d)
  \/ Send(d)
  \/ Settle(d)

Next ==
  \/ \E w \in Writers : Write(w)
  \/ \E p \in Purgers : Purge(p)
  \/ \E v \in Verifiers : Verify(v)
  \/ \E d \in Drains : Deliver(d) \/ Crash(d)
  \/ Tick

Spec == Init /\ [][Next]_vars

(* Fairness.  The cron runs every minute and a drain's steps follow each other. *)
Fairness == WF_vars(Tick) /\ \A d \in Drains : WF_vars(Deliver(d))

FairSpec == Spec /\ Fairness
-----------------------------------------------------------------------------
(* Properties. *)

First(rows) == CHOOSE e \in rows : \A f \in rows : e.seq <= f.seq

\* Whatever the writers and the purges do, the whole log, read at once, is a chain
\* without a break: numbered without gaps or doubles, linked, and anchored where it was cut.
ChainIntact ==
  /\ Cardinality(LogSeqs) = Cardinality(log)
  /\ log # {} => FindChainBreak(PurgeAnchor(First(log), log), log) = {}

\* Had any entry but the newest been removed behind the application's back, the
\* verification would name the gap: the missing entry, or the first one left when
\* nothing left in the log accounts for the entries before it.
RemovalsDetected == \A e \in log :
  e.seq # LatestSeq =>
    LET rest == log \ {e}
        anchor == PurgeAnchor(First(rest), rest)
    IN FindChainBreak(anchor, rest) =
         IF First(rest).seq = 1 \/ anchor # None
         THEN {[seq |-> e.seq, fault |-> "missing"]}
         ELSE {[seq |-> First(rest).seq, fault |-> "unanchored"]}

\* A verification reports a fault only if a purge committed while it was reading.
VerifySound == \A v \in Verifiers : verifier[v].fault # None => verifier[v].raced

\* The log and its verification together: nothing is missing, nothing can go
\* missing unseen, and an untouched log is not accused (verifyAuditLog).
ChainSound == ChainIntact /\ RemovalsDetected /\ VerifySound

\* The purge removes a prefix of the log, never the newest entry, and nothing
\* newer than the newest entry that had outlived some retention period.
PurgeJustified == [][\A e \in log \ log' :
  /\ e.seq # LatestSeq
  /\ \A f \in log : f.seq < e.seq => f \notin log'
  /\ \E f \in log, days \in RetentionChoices : f.seq >= e.seq /\ f.createdAt < clock - days]_vars

\* Every entry the cursor has passed since the stream was connected has reached
\* the SIEM, unless the retention purge took it first.
NothingSkipped == stream # None =>
  \A e \in log : stream.start < e.seq /\ e.seq <= stream.cursor => e.seq \in received

Streaming == stream # None /\ stream.enabled /\ entitled

Awaited(s) == s \in LogSeqs /\ stream # None /\ s > stream.start /\ s \notin received

\* Once the stream stays enabled and entitled, delivery catches up: every entry written
\* since it was connected has reached the SIEM, unless it was purged or the stream was
\* replaced first (writing ends, at MaxEntries).
EntriesDelivered == <>[]Streaming => []<>(\A s \in Seqs : ~Awaited(s))
=============================================================================

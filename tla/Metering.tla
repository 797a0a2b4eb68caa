------------------------------ MODULE Metering ------------------------------
(***************************************************************************)
(* The scoring usage of one paying workspace on its way to Stripe's meter  *)
(* (billing/metering.ts).  Passes started by the cron may overlap, each    *)
(* moving the cursor it read itself; the webhook rewrites the cursor it    *)
(* has read with everything else it stores (billing/webhooks.ts), and a    *)
(* scoring run becomes visible some time after the moment it finished at.  *)
(* Time is in milliseconds, the resolution the cursor steps back by.       *)
(***************************************************************************)
EXTENDS Integers, Sequences, FiniteSets

CONSTANTS
  Passes,      \* runs of reportAiUsage
  BatchSize,   \* BATCH_SIZE
  Settle,      \* SETTLE_MS, longer than any run takes to commit
  MaxAge,      \* MAX_AGE_MS
  MaxRuns,     \* bound: scoring runs
  LastFinish,  \* bound: when the last of them finishes
  MaxEvents,   \* bound: Stripe events stored
  MaxFaults,   \* bound: failed reports, lost answers, crashes
  None         \* SQL NULL

VARIABLES
  clock,
  finishedAt,  \* the runs with tokens, in the order they finished
  committed,   \* those that are visible
  cursor,      \* meteredThrough
  start,       \* the first value it had
  reported,    \* the runs Stripe's meter has; it counts an identifier once
  aged,        \* the runs passed over for their age
  pass,        \* the passes
  webhook,     \* applyStripeEvent, from reading the row to writing it
  events,
  faults

vars == <<clock, finishedAt, committed, cursor, start, reported, aged, pass, webhook, events, faults>>
usage == <<finishedAt, committed>>

\* What the constants must be; the module that instantiates this one assumes it.
MeteringAssumption ==
  /\ {BatchSize, Settle, MaxAge} \subseteq Nat \ {0}
  /\ {MaxRuns, LastFinish, MaxEvents, MaxFaults} \subseteq Nat
  /\ None \notin Int

Runs == DOMAIN finishedAt
Time == Int
Pass == [pc: {"idle", "chosen", "sending", "saving"}, now: Time, seen: Time,
         todo: SUBSET (1..MaxRuns), full: BOOLEAN, next: Time]
IdlePass == [pc |-> "idle", now |-> 0, seen |-> 0, todo |-> {}, full |-> FALSE, next |-> 0]
IdleWebhook == [pc |-> "idle", seen |-> None, now |-> 0]

TypeOK ==
  /\ clock \in Nat
  /\ finishedAt \in Seq(Nat)
  /\ committed \subseteq Runs
  /\ cursor \in Time \cup {None}
  /\ start \in Time \cup {None}
  /\ reported \subseteq Runs
  /\ aged \subseteq Runs
  /\ pass \in [Passes -> Pass]
  /\ webhook \in [pc: {"idle", "read"}, seen: Time \cup {None}, now: Time]
  /\ events \in 0..MaxEvents
  /\ faults \in 0..MaxFaults

\* A workspace that has not subscribed yet, or has just done so.
Init ==
  /\ clock = 0
  /\ finishedAt = << >>
  /\ committed = {}
  /\ cursor \in {None, 0}
  /\ start = cursor
  /\ reported = {}
  /\ aged = {}
  /\ pass = [p \in Passes |-> IdlePass]
  /\ webhook = IdleWebhook
  /\ events = 0
  /\ faults = 0

FaultHappens == faults < MaxFaults /\ faults' = faults + 1
-----------------------------------------------------------------------------
(* Scoring runs.  Fewer than a batch finish in the same millisecond.        *)

FinishRun ==
  /\ Len(finishedAt) < MaxRuns
  /\ clock <= LastFinish
  /\ Cardinality({i \in Runs : finishedAt[i] = clock}) < BatchSize - 1
  /\ finishedAt' = Append(finishedAt, clock)
  /\ UNCHANGED <<clock, committed, cursor, start, reported, aged, pass, webhook, events, faults>>

CommitRun(i) ==
  /\ committed' = committed \cup {i}
  /\ UNCHANGED <<clock, finishedAt, cursor, start, reported, aged, pass, webhook, events, faults>>
-----------------------------------------------------------------------------
(* applyStripeEvent, as far as the cursor goes. *)

ReadRow ==
  /\ webhook.pc = "idle"
  /\ events < MaxEvents
  /\ events' = events + 1
  /\ webhook' = [pc |-> "read", seen |-> cursor, now |-> clock]
  /\ UNCHANGED <<clock, usage, cursor, start, reported, aged, pass, faults>>

\* before.meteredThrough ?? now
Kept(seen, now) == IF seen = None THEN now ELSE seen

\* The subscription is paid.  What a pass stored since the reading is overwritten.
WriteRow ==
  /\ webhook.pc = "read"
  /\ cursor' = Kept(webhook.seen, webhook.now)
  /\ start' = IF start = None THEN cursor' ELSE start
  /\ webhook' = IdleWebhook
  /\ UNCHANGED <<clock, usage, reported, aged, pass, events, faults>>
-----------------------------------------------------------------------------
(* reportAiUsage. *)

Settled(now) == now - Settle

\* The accounts whose cursor lies before the settled time.
ChooseAccount(p) ==
  /\ pass[p].pc = "idle"
  /\ cursor # None
  /\ cursor < Settled(clock)
  /\ pass' = [pass EXCEPT ![p] = [IdlePass EXCEPT !.pc = "chosen", !.now = clock, !.seen = cursor]]
  /\ UNCHANGED <<clock, usage, cursor, start, reported, aged, webhook, events, faults>>

\* Runs that finished in (after, until], the first n in the order of finishing.
Batch(after, until, n) ==
  LET due == {i \in committed : after < finishedAt[i] /\ finishedAt[i] <= until}
  IN {i \in due : Cardinality({j \in due : j < i}) < n}

ReadRuns(p) ==
  LET q == pass[p]
      batch == Batch(q.seen, Settled(q.now), BatchSize)
      full == Cardinality(batch) = BatchSize
  IN
  /\ q.pc = "chosen"
  /\ pass' = [pass EXCEPT ![p] = [q EXCEPT !.pc = IF batch = {} THEN "saving" ELSE "sending", !.todo = batch,
                                    !.full = full, !.next = IF full THEN q.seen ELSE Settled(q.now)]]
  /\ UNCHANGED <<clock, usage, cursor, start, reported, aged, webhook, events, faults>>

\* mutant: the cursor of a full batch moves to its last run
Before_Itself(time) == time

\* "Stops just short": others that finished in that millisecond are read again.
Before(time) == time - 1

Sent(p, i) ==
  [pass EXCEPT ![p].todo = @ \ {i},
               ![p].pc = IF pass[p].todo = {i} THEN "saving" ELSE "sending",
               ![p].next = IF pass[p].full THEN Before(finishedAt[i]) ELSE @]

\* The pass stops short of the run that failed.
Failed(p, i) == [pass EXCEPT ![p].todo = {}, ![p].pc = "saving", ![p].next = Before(finishedAt[i])]

\* The next run of the batch: too old, reported, refused, or reported without an answer.
ReportUsage(p) == \E i \in pass[p].todo :
  /\ pass[p].pc = "sending"
  /\ \A j \in pass[p].todo : i <= j
  /\ \/ /\ finishedAt[i] < pass[p].now - MaxAge
        /\ aged' = aged \cup {i}
        /\ pass' = Sent(p, i)
        /\ UNCHANGED <<reported, faults>>
     \/ /\ finishedAt[i] >= pass[p].now - MaxAge
        /\ \/ reported' = reported \cup {i} /\ pass' = Sent(p, i) /\ UNCHANGED faults
           \/ UNCHANGED reported /\ pass' = Failed(p, i) /\ FaultHappens
           \/ reported' = reported \cup {i} /\ pass' = Failed(p, i) /\ FaultHappens
        /\ UNCHANGED aged
  /\ UNCHANGED <<clock, usage, cursor, start, webhook, events>>

\* The update does not ask whether the cursor is still the one the pass read.
SaveCursor(p) ==
  /\ pass[p].pc = "saving"
  /\ cursor' = IF pass[p].next > pass[p].seen THEN pass[p].next ELSE cursor
  /\ pass' = [pass EXCEPT ![p] = IdlePass]
  /\ UNCHANGED <<clock, usage, start, reported, aged, webhook, events, faults>>

Crash(p) ==
  /\ pass[p].pc # "idle"
  /\ FaultHappens
  /\ pass' = [pass EXCEPT ![p] = IdlePass]
  /\ UNCHANGED <<clock, usage, cursor, start, reported, aged, webhook, events>>

\* A run commits before it is settled.
Tick ==
  /\ clock <= LastFinish + Settle
  /\ \A i \in Runs \ committed : clock + 1 < finishedAt[i] + Settle
  /\ clock' = clock + 1
  /\ UNCHANGED <<usage, cursor, start, reported, aged, pass, webhook, events, faults>>
-----------------------------------------------------------------------------
Commit == \E i \in Runs \ committed : CommitRun(i)
Report(p) == ChooseAccount(p) \/ ReadRuns(p) \/ ReportUsage(p) \/ SaveCursor(p)

Next ==
  \/ FinishRun \/ Commit \/ Tick
  \/ ReadRow \/ WriteRow
  \/ \E p \in Passes : Report(p) \/ Crash(p)

Spec == Init /\ [][Next]_vars

(* Fairness.  Transactions end, time passes, and the cron comes back every hour. *)
Fairness == WF_vars(Commit) /\ WF_vars(Tick) /\ WF_vars(WriteRow) /\ \A p \in Passes : WF_vars(Report(p))
FairSpec == Spec /\ Fairness
-----------------------------------------------------------------------------
(* Properties. *)

\* The usage of a paid subscription.
Counts(i) == start # None /\ start < finishedAt[i]

\* Whatever the passes and the webhook write over each other, the cursor never lies
\* past a run that counts and Stripe has not got, but for its age.
NothingSkipped ==
  cursor # None => \A i \in Runs :
    Counts(i) /\ finishedAt[i] <= cursor => i \in reported \cup aged

\* However often a report fails or the cursor is written back, the runs that finished
\* after the meter started all reach Stripe, or have grown too old for it.
AllReported == \A i \in committed : Counts(i) => i \in reported \cup aged
UsageReported == <>[]AllReported
=============================================================================

----------------------------- MODULE MCAuditLog ------------------------------
(***************************************************************************)
(* AuditLog for TLC.  A behaviour is about one of two subjects, chosen at  *)
(* the start: the stream, which two drains deliver while its owner changes *)
(* it, or the chain, which two purges cut while it is verified.            *)
(***************************************************************************)
EXTENDS AuditLog, TLC

CONSTANTS w1, d1, d2, p1, p2, v1,
  StreamEntries    \* bound: entries when the stream is the subject

VARIABLE subject

MCInit == Init /\ subject \in {"stream", "chain"}

About(s) == subject = s /\ UNCHANGED subject

\* The disjuncts of Next, one to a line: TLC counts each.
MCNext ==
  \/ About("stream") /\ \E w \in Writers, op \in Operations \ {"keep"} : Begin(w, op, None)
  \/ About("stream") /\ written < StreamEntries /\ \E w \in Writers : AuditSeal(w)
  \/ About("stream") /\ \E d \in Drains : DrainStart(d)
  \/ About("stream") /\ \E d \in Drains : ClaimNextStream(d)
  \/ About("stream") /\ \E d \in Drains : CheckFeature(d)
  \/ About("stream") /\ \E d \in Drains : ReadBatch(d)
  \/ About("stream") /\ \E d \in Drains : Send(d)
  \/ About("stream") /\ \E d \in Drains : Settle(d)
  \/ About("stream") /\ \E d \in Drains : Crash(d)
  \/ About("chain") /\ \E w \in Writers : Begin(w, "event", None)
  \/ About("chain") /\ \E w \in Writers, days \in RetentionChoices \cup {None} : Begin(w, "keep", days)
  \/ About("chain") /\ \E w \in Writers : AuditSeal(w)
  \/ About("chain") /\ \E p \in Purgers : PurgeStart(p)
  \/ About("chain") /\ \E p \in Purgers : PurgeBoundary(p)
  \/ About("chain") /\ \E p \in Purgers : PurgeCommit(p)
  \/ About("chain") /\ \E v \in Verifiers : VerifyStart(v)
  \/ About("chain") /\ \E v \in Verifiers : VerifyRead(v)
  \/ About("chain") /\ \E v \in Verifiers : VerifyAnchor(v)
  \/ UNCHANGED subject /\ \E w \in Writers : Commit(w)
  \/ UNCHANGED subject /\ \E w \in Writers : Rollback(w)
  \/ UNCHANGED subject /\ Tick

MCVars == <<vars, subject>>

\* AuditLog.FairSpec: the drains are fair when the stream is the subject.
MCSpec ==
  /\ MCInit /\ [][MCNext]_MCVars
  /\ WF_MCVars(UNCHANGED subject /\ Tick)
  /\ \A d \in Drains : WF_MCVars(About("stream") /\ Deliver(d))
=============================================================================

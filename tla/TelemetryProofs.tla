---------------------------- MODULE TelemetryProofs ----------------------------
(***************************************************************************)
(* For any number of tabs, any retention window and any budgets, whatever  *)
(* browsers, importers, finishers, replays and the native inference do to  *)
(* the store at the same time, and whichever of them dies:                 *)
(*   - every step is one transaction of the store or leaves turns and      *)
(*     outcomes alone, so that the theorems of the store hold here;        *)
(*   - what a browser is told is stored is stored (AckedAlwaysKept): the   *)
(*     invariant Sync says what the queue of a tab, the request under way  *)
(*     and the job of the writer together still owe the store;             *)
(*   - what is marked as exported has reached Phoenix (PhoenixAlwaysHasIt) *)
(*     and the training file is right (TrainingRowsAlwaysHold).            *)
(***************************************************************************)
EXTENDS Telemetry, SequenceTheorems, TLAPS

-----------------------------------------------------------------------------
(* The store, whoever calls it: its transactions keep every episode a      *)
(* sequence of turns without a gap or a fork, and a closed episode shut.   *)
(* The look-ups before a transaction are not needed for it, so callers may *)
(* race; nothing is assumed of an event either, so that the lemmas can be  *)
(* cited for any caller.                                                   *)

\* Every turn has all the turns before it, in one chain of states: the step
\* number counts the turns of the episode (record(), trajectory_store.py:46-62).
NoGap ==
    \A e \in turns : \A k \in 1..e.step :
        \E f \in turns : f.episode = e.episode /\ f.step = k

StepsCount == \A e \in turns : e.step \in Nat

WholeInv == StepsCount /\ EpisodeWhole /\ NoGap

OutcomeOK == outcome \in [Episodes -> {"absent", "open"} \cup Closings]

-----------------------------------------------------------------------------
(* The transaction that records a turn *)

\* A recordable turn is the first of its episode or the next one.
LEMMA RecordableStep ==
    ASSUME StepsCount, NEW e, Recordable(e)
    PROVE  /\ e.step \in Nat \ {0}
           /\ e.step # 1 => \E p \in turns : /\ p.episode = e.episode
                                            /\ p.step + 1 = e.step
                                            /\ p.after = e.before
    BY DEF StepsCount, Recordable, Follows

\* No stored turn of an episode comes after one that may be recorded now.
LEMMA Follower ==
    ASSUME StepsCount, NEW e, Recordable(e),
           NEW f \in turns, f.episode = e.episode
    PROVE  f.step < e.step
<1>1. PICK p \in turns : p.episode = e.episode /\ IsLast(p) /\ e.step = p.step + 1
    BY DEF Recordable, Follows
<1>2. f.step <= p.step
    BY <1>1 DEF IsLast
<1>3. QED
    BY <1>1, <1>2 DEF StepsCount

LEMMA RecordKeepsWhole ==
    ASSUME WholeInv, NEW e, RecordTx(e)
    PROVE  EpisodeWhole'
<1>1. turns' = turns \cup {e} /\ Recordable(e) /\ StepsCount
    BY DEF RecordTx, WholeInv
<1>2. \A f \in turns : f.id # e.id
    BY <1>1 DEF Recordable
<1>3. \A f \in turns : f.episode = e.episode => f.step # e.step
    <2> SUFFICES ASSUME NEW f \in turns, f.episode = e.episode
                 PROVE  f.step # e.step
        OBVIOUS
    <2>1. f.step < e.step
        BY <1>1, Follower
    <2>2. f.step \in Nat /\ e.step \in Nat
        BY <1>1, RecordableStep DEF StepsCount
    <2>3. QED
        BY <2>1, <2>2
<1>4. ASSUME NEW f \in turns', NEW g \in turns',
             f.id = g.id \/ (f.episode = g.episode /\ f.step = g.step)
      PROVE  f = g
    BY <1>1, <1>2, <1>3, <1>4 DEF WholeInv, EpisodeWhole
<1>5. ASSUME NEW f \in turns'
      PROVE  \/ f.step = 1
             \/ \E p \in turns' : /\ p.episode = f.episode
                                  /\ p.step + 1 = f.step
                                  /\ p.after = f.before
    <2>1. CASE f \in turns
        BY <1>1, <2>1 DEF WholeInv, EpisodeWhole
    <2>2. CASE f = e
        BY <1>1, <2>2, RecordableStep
    <2>3. QED
        BY <1>1, <2>1, <2>2
<1>6. QED
    BY <1>4, <1>5 DEF EpisodeWhole

LEMMA RecordKeepsNoGap ==
    ASSUME WholeInv, NEW e, RecordTx(e)
    PROVE  NoGap'
<1>1. turns' = turns \cup {e} /\ Recordable(e) /\ StepsCount
    BY DEF RecordTx, WholeInv
<1> SUFFICES ASSUME NEW f \in turns', NEW k \in 1..f.step
             PROVE  \E g \in turns' : g.episode = f.episode /\ g.step = k
    BY DEF NoGap
<1>2. CASE f \in turns
    BY <1>1, <1>2 DEF WholeInv, NoGap
<1>3. CASE f = e /\ k = e.step
    BY <1>1, <1>3
<1>4. CASE f = e /\ k # e.step
    <2>1. e.step \in Nat /\ k \in Nat /\ k >= 1 /\ k < e.step
        BY <1>1, <1>4, RecordableStep
    <2>2. PICK p \in turns : p.episode = e.episode /\ p.step + 1 = e.step
        BY <1>1, <2>1, RecordableStep
    <2>3. k \in 1..p.step
        BY <1>1, <2>1, <2>2 DEF StepsCount
    <2>4. PICK g \in turns : g.episode = p.episode /\ g.step = k
        BY <2>3 DEF WholeInv, NoGap
    <2>5. QED
        BY <1>1, <1>4, <2>2, <2>4
<1>5. QED
    BY <1>1, <1>2, <1>3, <1>4

\* Whatever is recorded, the episodes stay whole.
LEMMA RecordKeepsInv ==
    ASSUME WholeInv, NEW e, RecordTx(e)
    PROVE  WholeInv'
<1>1. StepsCount'
    BY RecordableStep DEF RecordTx, WholeInv, StepsCount
<1>2. QED
    BY <1>1, RecordKeepsWhole, RecordKeepsNoGap DEF WholeInv

LEMMA OthersKeepInv ==
    ASSUME WholeInv, turns' = turns
    PROVE  WholeInv'
    BY DEF WholeInv, StepsCount, EpisodeWhole, NoGap

-----------------------------------------------------------------------------
(* The transaction that closes an episode *)

LEMMA RecordKeepsShut ==
    ASSUME OutcomeOK, NEW e, RecordTx(e)
    PROVE  /\ OutcomeOK'
           /\ turns \subseteq turns'
           /\ \A ep \in Episodes : outcome[ep] \in Closings =>
                 /\ outcome'[ep] \in Closings
                 /\ \A f \in turns' \ turns : f.episode # ep
<1>1. turns' = turns \cup {e}
    BY DEF RecordTx
<1>2. outcome' = [outcome EXCEPT ![e.episode] = "open"] /\ outcome[e.episode] \notin Closings
    BY DEF RecordTx, Recordable
<1>3. OutcomeOK'
    BY <1>2 DEF OutcomeOK
<1>4. ASSUME NEW ep \in Episodes, outcome[ep] \in Closings
      PROVE  ep # e.episode /\ outcome'[ep] = outcome[ep]
    BY <1>2, <1>4 DEF OutcomeOK
<1>5. QED
    BY <1>1, <1>3, <1>4

LEMMA FinishKeepsShut ==
    ASSUME OutcomeOK, NEW a, NEW how \in Closings, FinishTx(a, how)
    PROVE  /\ OutcomeOK'
           /\ turns' = turns
           /\ \A ep \in Episodes : outcome[ep] \in Closings => outcome'[ep] \in Closings
<1>1. outcome' = [outcome EXCEPT ![a] = how] /\ turns' = turns
    BY DEF FinishTx
<1>2. OutcomeOK'
    BY <1>1 DEF OutcomeOK
<1>3. ASSUME NEW ep \in Episodes, outcome[ep] \in Closings
      PROVE  outcome'[ep] \in Closings
    BY <1>1, <1>3 DEF OutcomeOK
<1>4. QED
    BY <1>1, <1>2, <1>3

-----------------------------------------------------------------------------
(* The store by itself *)

StoreInv == WholeInv /\ OutcomeOK

LEMMA StoreInitInv == StoreInit => StoreInv
    BY DEF StoreInit, StoreInv, WholeInv, StepsCount, EpisodeWhole, NoGap, OutcomeOK

LEMMA StoreStep ==
    ASSUME StoreInv, [StoreNext]_storeVars
    PROVE  StoreInv'
<1>1. CASE UNCHANGED storeVars
    BY <1>1, OthersKeepInv DEF storeVars, StoreInv, OutcomeOK
<1>2. ASSUME NEW e \in Event, RecordTx(e)
      PROVE  StoreInv'
    BY <1>2, RecordKeepsInv, RecordKeepsShut DEF StoreInv
<1>3. ASSUME NEW f \in Feedback, FeedbackTx(f)
      PROVE  StoreInv'
    BY <1>3, OthersKeepInv DEF FeedbackTx, StoreInv, OutcomeOK
<1>4. ASSUME NEW a \in Episodes, NEW how \in Closings, FinishTx(a, how)
      PROVE  StoreInv'
    BY <1>4, OthersKeepInv, FinishKeepsShut DEF StoreInv
<1>5. QED
    BY <1>1, <1>2, <1>3, <1>4 DEF StoreNext

\* However events are offered, repeated or raced for, an episode is one chain
\* of states, one turn a step, and no turn is missing below another.
THEOREM StoreStaysWhole == StoreSpec => [](EpisodeWhole /\ NoGap)
<1>1. StoreInv /\ [StoreNext]_storeVars => StoreInv'
    BY StoreStep
<1>2. StoreInv => EpisodeWhole /\ NoGap
    BY DEF StoreInv, WholeInv
<1>3. QED
    BY <1>1, <1>2, StoreInitInv, PTL DEF StoreSpec

-----------------------------------------------------------------------------
(* The callers.  What a writer is about to close an episode with is one of *)
(* Closings: that is all the store needs to know of them.                  *)

\* A job of a writer, with its position in the call.
IsTurnsJob(j) ==
    /\ j = [pc |-> j.pc, kind |-> "turns", todo |-> j.todo, from |-> j.from]
    /\ j.pc \in {"look", "insert", "flags", "candidate"}

IsFinishJob(j) ==
    /\ j = [pc |-> j.pc, kind |-> "finish", ep |-> j.ep, how |-> j.how, said |-> j.said,
            from |-> j.from]
    /\ j.pc \in {"look", "write"} /\ j.how \in Closings

IsJob(j) == j = NoJob \/ IsTurnsJob(j) \/ IsFinishJob(j)

JobOK == /\ job = [w \in Writers |-> job[w]]
         /\ \A w \in Writers : IsJob(job[w])

-----------------------------------------------------------------------------
(* Jobs *)

LEMMA NewJobs ==
    /\ IsJob(NoJob)
    /\ \A todo, from : IsJob(TurnsJob(todo, from))
    /\ \A ep, said, from : \A how \in Closings : IsJob(FinishJob(ep, how, said, from))
<1>1. ASSUME NEW todo, NEW from
      PROVE  IsTurnsJob(TurnsJob(todo, from))
    BY DEF TurnsJob, IsTurnsJob
<1>2. ASSUME NEW ep, NEW said, NEW from, NEW how \in Closings
      PROVE  IsFinishJob(FinishJob(ep, how, said, from))
    BY DEF FinishJob, IsFinishJob
<1>3. QED
    BY <1>1, <1>2 DEF IsJob

\* A job that goes on is still a job.
LEMMA TurnsJobGoesOn ==
    ASSUME NEW j, IsTurnsJob(j), NEW pc \in {"look", "insert", "flags", "candidate"},
           NEW rest
    PROVE  IsJob([j EXCEPT !.pc = pc]) /\ IsJob([j EXCEPT !.pc = pc, !.todo = rest])
<1>1. IsTurnsJob([j EXCEPT !.pc = pc])
    BY DEF IsTurnsJob
<1>2. ASSUME NEW k, IsTurnsJob(k)
      PROVE  IsTurnsJob([k EXCEPT !.todo = rest])
    BY <1>2 DEF IsTurnsJob
<1>3. [j EXCEPT !.pc = pc, !.todo = rest] = [[j EXCEPT !.pc = pc] EXCEPT !.todo = rest]
    OBVIOUS
<1>4. IsTurnsJob([[j EXCEPT !.pc = pc] EXCEPT !.todo = rest])
    BY <1>1, <1>2, Zenon
<1>5. QED
    BY <1>1, <1>3, <1>4, Zenon DEF IsJob

LEMMA FinishJobGoesOn ==
    ASSUME NEW j, IsFinishJob(j)
    PROVE  j.how \in Closings /\ IsJob([j EXCEPT !.pc = "write"])
<1>1. IsFinishJob([j EXCEPT !.pc = "write"])
    BY DEF IsFinishJob
<1>2. QED
    BY <1>1 DEF IsJob, IsFinishJob

\* A job whose caller is gone is still a job.
LEMMA JobForgotten ==
    ASSUME NEW j, j # NoJob, IsJob(j)
    PROVE  IsJob([j EXCEPT !.from = NoTab])
<1>1. CASE IsTurnsJob(j)
    <2>1. IsTurnsJob([j EXCEPT !.from = NoTab])
        BY <1>1 DEF IsTurnsJob
    <2>2. QED
        BY <2>1 DEF IsJob
<1>2. CASE IsFinishJob(j)
    <2>1. IsFinishJob([j EXCEPT !.from = NoTab])
        BY <1>2 DEF IsFinishJob
    <2>2. QED
        BY <2>1 DEF IsJob
<1>3. QED
    BY <1>1, <1>2 DEF IsJob

\* Which kind of job is at which place.
LEMMA JobAt ==
    ASSUME NEW j, IsJob(j)
    PROVE  /\ (j.pc = "look" /\ j.kind = "turns") \/ j.pc \in {"insert", "flags", "candidate"} =>
             IsTurnsJob(j)
           /\ (j.pc = "look" /\ j.kind = "finish") \/ j.pc = "write" => IsFinishJob(j)
<1>1. ASSUME IsTurnsJob(j)
      PROVE  j.kind = "turns" /\ j.pc # "write"
    BY <1>1 DEF IsTurnsJob
<1>2. ASSUME IsFinishJob(j)
      PROVE  j.kind = "finish" /\ j.pc \notin {"insert", "flags", "candidate"}
    BY <1>2 DEF IsFinishJob
<1>3. NoJob.pc = "none"
    BY DEF NoJob
<1>4. QED
    BY <1>1, <1>2, <1>3 DEF IsJob

LEMMA OneJobChanges ==
    ASSUME JobOK, NEW w \in Writers, NEW j, IsJob(j), job' = [job EXCEPT ![w] = j]
    PROVE  JobOK'
<1>1. \A v \in Writers : job'[v] = IF v = w THEN j ELSE job[v]
    BY DEF JobOK
<1>2. job' = [v \in Writers |-> job'[v]]
    BY DEF JobOK
<1>3. QED
    BY <1>1, <1>2 DEF JobOK

LEMMA JobKept ==
    ASSUME JobOK, job' = job
    PROVE  JobOK'
    BY DEF JobOK

-----------------------------------------------------------------------------
(* Every step *)

LEMMA WriteKeepsJob ==
    ASSUME JobOK, NEW w \in Writers, Write(w)
    PROVE  JobOK'
<1> DEFINE j == job[w]
<1>0. IsJob(j)
    BY DEF JobOK
<1>1. ASSUME NEW ok, End(w, ok)
      PROVE  JobOK'
    BY <1>1, OneJobChanges, NewJobs DEF End
<1>2. CASE Look(w)
    <2>1. IsTurnsJob(j)
        BY <1>0, <1>2, JobAt DEF Look
    <2>2. ASSUME NEW pc \in {"flags", "insert"}, job' = [job EXCEPT ![w].pc = pc]
          PROVE  JobOK'
        <3>1. job' = [job EXCEPT ![w] = [j EXCEPT !.pc = pc]]
            BY <2>2
        <3>2. IsJob([j EXCEPT !.pc = pc])
            BY <2>1, TurnsJobGoesOn
        <3>3. QED
            BY <3>1, <3>2, OneJobChanges
    <2>3. QED
        BY <1>1, <1>2, <2>2 DEF Look
<1>3. CASE Insert(w)
    <2>1. IsTurnsJob(j)
        BY <1>0, <1>3, JobAt DEF Insert
    <2>2. CASE job' = [job EXCEPT ![w].pc = "flags"]
        <3>1. job' = [job EXCEPT ![w] = [j EXCEPT !.pc = "flags"]]
            BY <2>2
        <3>2. IsJob([j EXCEPT !.pc = "flags"])
            BY <2>1, TurnsJobGoesOn
        <3>3. QED
            BY <3>1, <3>2, OneJobChanges
    <2>3. QED
        BY <1>1, <1>3, <2>2 DEF Insert
<1>4. CASE Flags(w) \/ Candidate(w)
    <2>1. IsTurnsJob(j)
        BY <1>0, <1>4, JobAt DEF Flags, Candidate, Feed
    <2>2. CASE job' = [job EXCEPT ![w].pc = "look", ![w].todo = Tail(@)]
        <3>1. job' = [job EXCEPT ![w] = [j EXCEPT !.pc = "look", !.todo = Tail(j.todo)]]
            BY <2>1, <2>2 DEF IsTurnsJob, JobOK
        <3>2. IsJob([j EXCEPT !.pc = "look", !.todo = Tail(j.todo)])
            BY <2>1, TurnsJobGoesOn
        <3>3. QED
            BY <3>1, <3>2, OneJobChanges
    <2>3. CASE job' = [job EXCEPT ![w].pc = "candidate"]
        <3>1. job' = [job EXCEPT ![w] = [j EXCEPT !.pc = "candidate"]]
            BY <2>3
        <3>2. IsJob([j EXCEPT !.pc = "candidate"])
            BY <2>1, TurnsJobGoesOn
        <3>3. QED
            BY <3>1, <3>2, OneJobChanges
    <2>4. QED
        BY <1>1, <1>4, <2>2, <2>3 DEF Flags, Candidate, Feed
<1>5. CASE Check(w)
    <2>1. IsFinishJob(j)
        BY <1>0, <1>5, JobAt DEF Check
    <2>2. CASE job' = [job EXCEPT ![w].pc = "write"]
        <3>1. job' = [job EXCEPT ![w] = [j EXCEPT !.pc = "write"]]
            BY <2>2
        <3>2. QED
            BY <2>1, <3>1, FinishJobGoesOn, OneJobChanges
    <2>3. QED
        BY <1>1, <1>5, <2>2 DEF Check
<1>6. CASE Close(w)
    BY <1>1, <1>6 DEF Close
<1>7. QED
    BY <1>2, <1>3, <1>4, <1>5, <1>6 DEF Write

LEMMA StepKeepsJob ==
    ASSUME JobOK, [Next]_vars
    PROVE  JobOK'
<1>1. CASE UNCHANGED vars
    BY <1>1, JobKept DEF vars, server
<1>2. ASSUME NEW t, Reload(t)
      PROVE  JobOK'
    <2>1. job' = [w \in Writers |-> IF job[w] # NoJob /\ job[w].from = t
                                    THEN [job[w] EXCEPT !.from = NoTab] ELSE job[w]]
        BY <1>2 DEF Reload
    <2>2. \A w \in Writers : IsJob(job'[w])
        BY <2>1, JobForgotten DEF JobOK
    <2>3. QED
        BY <2>1, <2>2 DEF JobOK
<1>3. ASSUME NEW t, Speak(t) \/ MarkWrong(t) \/ Reset(t) \/ Send(t)
      PROVE  JobOK'
    BY <1>3, JobKept DEF Speak, MarkWrong, Reset, Send, server
<1>4. ASSUME NEW t, Import(t)
      PROVE  JobOK'
    BY <1>4, NewJobs, OneJobChanges DEF Import, Writers
<1>5. CASE Accept
    <2> DEFINE r == Head(inbox).request
               from == Head(inbox).from
    <2>1. "browser_reset" \in Closings
        BY DEF Closings
    <2>2. \/ job' = job
          \/ job' = [job EXCEPT !["server"] = FinishJob(r.ep, "browser_reset", r.said, from)]
          \/ job' = [job EXCEPT !["server"] = TurnsJob(r.events, from)]
        BY <1>5 DEF Accept
    <2>3. QED
        BY <2>1, <2>2, JobKept, NewJobs, OneJobChanges DEF Writers
<1>6. ASSUME NEW ep, Terminate(ep)
      PROVE  JobOK'
    <2>1. "terminated" \in Closings
        BY DEF Closings
    <2>2. QED
        BY <1>6, <2>1, NewJobs, OneJobChanges DEF Terminate, Writers
<1>7. ASSUME NEW w \in Writers, Write(w)
      PROVE  JobOK'
    BY <1>7, WriteKeepsJob
<1>8. ASSUME NEW e, Review(e)
      PROVE  JobOK'
    BY <1>8, JobKept DEF Review, server
<1>9. CASE NativeTurn \/ ExportRead \/ ExportWrite \/ CollectorStarts
    BY <1>9, JobKept DEF NativeTurn, ExportRead, ExportWrite, CollectorStarts, server
<1>10. ASSUME NEW how, NativeEnd(how)
       PROVE  JobOK'
    BY <1>10, JobKept DEF NativeEnd, server
<1>11. ASSUME NEW x, Replay(x)
       PROVE  JobOK'
    BY <1>11, JobKept
       DEF Replay, Begin, SendTurn, MarkTurn, SelectFeedback, SendFeedback, MarkFeedback, server
<1>12. CASE CollectorDies \/ CliDies
    BY <1>12, JobKept, NewJobs, OneJobChanges DEF CollectorDies, CliDies, Writers
<1>13. QED
    BY <1>1, <1>2, <1>3, <1>4, <1>5, <1>6, <1>7, <1>8, <1>9, <1>10, <1>11, <1>12 DEF Next

\* Every step records an event, closes an episode, or does neither.
UsesStore ==
    \/ \E e : RecordTx(e)
    \/ \E ep : \E how \in Closings : FinishTx(ep, how)
    \/ UNCHANGED <<turns, outcome>>

LEMMA StepUsesStore ==
    ASSUME JobOK, [Next]_vars
    PROVE  UsesStore
<1>1. CASE UNCHANGED vars
    BY <1>1 DEF vars, storeVars, UsesStore
<1>2. ASSUME NEW t, Speak(t) \/ MarkWrong(t) \/ Reset(t) \/ Reload(t) \/ Send(t) \/ Import(t)
      PROVE  UsesStore
    BY <1>2 DEF Speak, MarkWrong, Reset, Reload, Send, Import, storeVars, UsesStore
<1>3. CASE Accept \/ ExportRead \/ ExportWrite \/ CollectorDies \/ CollectorStarts \/ CliDies
    BY <1>3 DEF Accept, ExportRead, ExportWrite, CollectorDies, CollectorStarts, CliDies,
                storeVars, UsesStore
<1>4. ASSUME NEW ep, Terminate(ep)
      PROVE  UsesStore
    BY <1>4 DEF Terminate, storeVars, UsesStore
<1>5. ASSUME NEW w \in Writers, Write(w)
      PROVE  UsesStore
    <2>1. CASE Look(w) \/ Check(w) \/ Flags(w) \/ Candidate(w)
        BY <2>1 DEF Look, Check, Flags, Candidate, Feed, storeVars, UsesStore
    <2>2. CASE Insert(w)
        BY <2>2 DEF Insert, storeVars, UsesStore
    <2>3. CASE Close(w)
        <3>1. IsFinishJob(job[w])
            BY <2>3, JobAt DEF Close, JobOK
        <3>2. job[w].how \in Closings
            BY <3>1, FinishJobGoesOn
        <3>3. QED
            BY <2>3, <3>2 DEF Close, UsesStore
    <2>4. QED
        BY <1>5, <2>1, <2>2, <2>3 DEF Write
<1>6. ASSUME NEW e, Review(e)
      PROVE  UsesStore
    BY <1>6 DEF Review, FeedbackTx, UsesStore
<1>7. CASE NativeTurn
    BY <1>7 DEF NativeTurn, storeVars, UsesStore
<1>8. ASSUME NEW how \in {"input_exhausted", "runtime_error"}, NativeEnd(how)
      PROVE  UsesStore
    BY <1>8 DEF NativeEnd, storeVars, UsesStore, Closings
<1>9. ASSUME NEW x, Replay(x)
      PROVE  UsesStore
    BY <1>9 DEF Replay, Begin, SendTurn, MarkTurn, SelectFeedback, SendFeedback, MarkFeedback,
                storeVars, UsesStore
<1>10. QED
    BY <1>1, <1>2, <1>3, <1>4, <1>5, <1>6, <1>7, <1>8, <1>9 DEF Next

-----------------------------------------------------------------------------
(* Episodes stay sound *)

IInv == JobOK /\ WholeInv /\ OutcomeOK

LEMMA InitIInv == Init => IInv
<1> SUFFICES ASSUME Init
             PROVE  IInv
    OBVIOUS
<1>1. JobOK
    BY DEF Init, JobOK, IsJob
<1>2. WholeInv /\ OutcomeOK
    BY StoreInitInv DEF Init, StoreInv
<1>3. QED
    BY <1>1, <1>2 DEF IInv

LEMMA StepIInv ==
    ASSUME IInv, [Next]_vars
    PROVE  IInv'
<1>1. JobOK'
    BY StepKeepsJob DEF IInv
<1>2. WholeInv' /\ OutcomeOK'
    <2>1. CASE \E e : RecordTx(e)
        BY <2>1, RecordKeepsInv, RecordKeepsShut DEF IInv
    <2>2. ASSUME NEW ep, NEW how \in Closings, FinishTx(ep, how)
          PROVE  WholeInv' /\ OutcomeOK'
        BY <2>2, FinishKeepsShut, OthersKeepInv DEF IInv
    <2>3. CASE UNCHANGED <<turns, outcome>>
        BY <2>3, OthersKeepInv DEF IInv, OutcomeOK
    <2>4. QED
        BY <2>1, <2>2, <2>3, StepUsesStore DEF IInv, UsesStore
<1>3. QED
    BY <1>1, <1>2 DEF IInv

LEMMA StepKeepsShut ==
    ASSUME IInv, [Next]_vars
    PROVE  StaysShut
<1>1. CASE \E e : RecordTx(e)
    BY <1>1, RecordKeepsShut DEF IInv, StaysShut
<1>2. ASSUME NEW a, NEW how \in Closings, FinishTx(a, how)
      PROVE  /\ turns' = turns
             /\ \A ep \in Episodes : outcome[ep] \in Closings => outcome'[ep] \in Closings
    BY <1>2, FinishKeepsShut DEF IInv
<1>3. CASE UNCHANGED <<turns, outcome>>
    BY <1>3 DEF StaysShut
<1>4. QED
    BY <1>1, <1>2, <1>3, StepUsesStore DEF IInv, UsesStore, StaysShut

\* Whoever records, imports, closes, retries or dies: the stored episodes stay
\* chains of turns without a gap, and closed ones stay shut.
THEOREM EpisodesStaySound == Spec => EpisodesAreSound
<1>1. IInv /\ [Next]_vars => IInv'
    BY StepIInv
<1>2. IInv' => EpisodeWhole'
    BY DEF IInv, WholeInv
<1>3. IInv /\ [Next]_vars => [EpisodeWhole' /\ StaysShut]_storeVars
    BY <1>1, <1>2, StepKeepsShut
<1>4. QED
    BY <1>1, <1>3, InitIInv, PTL DEF Spec, EpisodesAreSound

-----------------------------------------------------------------------------
(* What browsers and writers hold of one another *)

\* What a tab retains, and what it asks the collector for.
Marks == {"incorrect", "correction_candidate"}
Entry == [ev : Event, fb : SUBSET Marks]
Request == [kind : {"turns"}, events : Seq(Entry)]
           \cup [kind : {"finish"}, ep : Episodes \cup {0}, said : SUBSET Event]

Items(log) == {log[i] : i \in DOMAIN log}
EventsOf(log) == {h.ev : h \in Items(log)}

\* An event is stored with its marks; T and F stand for turns and feedback.
Stored(h, T, F) == h.ev \in T /\ \A k \in h.fb : [turn |-> h.ev.id, kind |-> k] \in F

IsSession(s) == /\ s.log \in Seq(Entry)
                /\ Len(s.log) <= Window
                /\ s.ep \in Episodes \cup {0}

IsTab(s, alive) ==
    /\ s = [log |-> s.log, ep |-> s.ep, step |-> s.step, state |-> s.state,
            queue |-> s.queue, waiting |-> s.waiting, synced |-> s.synced]
    /\ IsSession(s)
    /\ s.queue \in Seq(Request)
    /\ s.waiting \in BOOLEAN /\ s.synced \in BOOLEAN
    /\ s.waiting => alive /\ s.queue # <<>>

\* A finish comes right behind the upload of all it closes; when it is at the
\* head of the queue, and that upload was confirmed, its turns are stored.
EndsFollow(q, synced, T) ==
    \A i \in 1..Len(q) : q[i].kind = "finish" =>
        IF i = 1 THEN synced => q[1].said \subseteq T
        ELSE q[i - 1].kind = "turns" /\ q[i].said \subseteq EventsOf(q[i - 1].events)

\* The last upload in the queue holds all the tab retains; without a queue, all
\* of it is stored if the last upload was confirmed.
Covered(log, q, synced, T, F) ==
    IF q = <<>> THEN synced => \A h \in Items(log) : Stored(h, T, F)
    ELSE IF q[Len(q)].kind = "turns" THEN Items(log) \subseteq Items(q[Len(q)].events)
    ELSE log = <<>>

TabFits(s, T, F, alive) == /\ IsTab(s, alive)
                           /\ EndsFollow(s.queue, s.synced, T)
                           /\ Covered(s.log, s.queue, s.synced, T, F)

TabsFit == /\ tab = [t \in Tabs |-> tab[t]]
           /\ \A t \in Tabs : TabFits(tab[t], turns, feedback, up)

SavedFits == /\ saved = [log |-> saved.log, ep |-> saved.ep, step |-> saved.step,
                         state |-> saved.state]
             /\ IsSession(saved)

\* A tab waits for the one request of its own that is under way, which is the
\* head of its queue; tabs stands for tab, mails for inbox.
Awaits(tabs, m) ==
    m.from \in Tabs => tabs[m.from].waiting /\ tabs[m.from].queue[1] = m.request

Apart(mails) ==
    \A i, j \in 1..Len(mails) : mails[i].from = mails[j].from => i = j \/ mails[i].from = NoTab

Mail == [from : Tabs \cup {NoTab}, request : Request]

InboxFits ==
    /\ inbox \in Seq(Mail)
    /\ Apart(inbox)
    /\ \A i \in 1..Len(inbox) : /\ Awaits(tab, inbox[i])
                                /\ inbox[i].request.kind = "finish" =>
                                     inbox[i].request.said \subseteq turns

\* A mark of an event is stored with it.
MarkIn(h, kind, F) == kind \in h.fb => [turn |-> h.ev.id, kind |-> kind] \in F

\* What a writer has left to do, and what it has done for the tab that waits.
Progress(j, T, F) ==
    /\ j.kind = "turns" => /\ j.todo \in Seq(Entry)
                           /\ j.pc # "look" => j.todo # <<>>
                           /\ j.pc \in {"flags", "candidate"} => j.todo[1].ev \in T
                           /\ j.pc = "candidate" => MarkIn(j.todo[1], "incorrect", F)
    /\ j.kind = "finish" => j.said \subseteq T

Done(events, todo, T, F) == \A h \in Items(events) : h \in Items(todo) \/ Stored(h, T, F)

Serves(j, tabs, mails, T, F) ==
    j.from \in Tabs =>
        /\ tabs[j.from].waiting
        /\ tabs[j.from].queue[1].kind = j.kind
        /\ j.kind = "turns" => Done(tabs[j.from].queue[1].events, j.todo, T, F)
        /\ \A i \in 1..Len(mails) : mails[i].from # j.from

JobFits(w, j, tabs, mails, T, F) ==
    j # NoJob => /\ j.from \in Tabs \cup {NoTab}
                 /\ w = "cli" => j.from = NoTab
                 /\ Progress(j, T, F)
                 /\ Serves(j, tabs, mails, T, F)

JobsFit == \A w \in Writers : JobFits(w, job[w], tab, inbox, turns, feedback)

BudgetOK == /\ "tabs" \in DOMAIN left /\ left.tabs \subseteq Tabs
            /\ up \in BOOLEAN

Sync == StoreTypeOK /\ BudgetOK /\ TabsFit /\ SavedFits /\ InboxFits /\ JobsFit

-----------------------------------------------------------------------------
(* Logs and queues *)

\* What the operators on sequences do, told with their elements.
LEMMA AppendShape ==
    ASSUME NEW S, NEW s \in Seq(S), NEW x \in S
    PROVE  /\ Append(s, x) \in Seq(S)
           /\ Len(s) \in Nat
           /\ Len(Append(s, x)) = Len(s) + 1
           /\ \A i \in 1..Len(s) : Append(s, x)[i] = s[i]
           /\ Append(s, x)[Len(s) + 1] = x
           /\ Append(s, x) # <<>>
    OBVIOUS

LEMMA TailShape ==
    ASSUME NEW S, NEW s \in Seq(S), s # <<>>
    PROVE  /\ Len(s) \in Nat \ {0} /\ s[1] \in S /\ Head(s) = s[1]
           /\ Tail(s) \in Seq(S)
           /\ Len(Tail(s)) = Len(s) - 1
           /\ \A i \in 1..(Len(s) - 1) : Tail(s)[i] = s[i + 1]
           /\ Tail(s) = <<>> <=> Len(s) = 1
<1>1. Len(s) \in Nat \ {0} /\ s[1] \in S /\ Head(s) = s[1]
    OBVIOUS
<1>2. /\ Tail(s) \in Seq(S) /\ Len(Tail(s)) = Len(s) - 1
      /\ \A i \in 1..Len(Tail(s)) : Tail(s)[i] = s[i + 1]
    BY HeadTailProperties
<1>3. ASSUME NEW t \in Seq(S)
      PROVE  t = <<>> <=> Len(t) = 0
    OBVIOUS
<1>4. Tail(s) = <<>> <=> Len(Tail(s)) = 0
    BY <1>2, <1>3
<1>5. Len(Tail(s)) = 0 <=> Len(s) = 1
    BY <1>1, <1>2
<1>6. QED
    BY <1>1, <1>2, <1>4, <1>5

LEMMA ItemsAre ==
    ASSUME NEW S, NEW s \in Seq(S)
    PROVE  /\ DOMAIN s = 1..Len(s) /\ Len(s) \in Nat
           /\ Items(s) \subseteq S
           /\ \A i \in 1..Len(s) : s[i] \in S /\ s[i] \in Items(s)
           /\ \A h \in Items(s) : \E i \in 1..Len(s) : s[i] = h
    BY DEF Items

LEMMA EventsAre ==
    ASSUME NEW log \in Seq(Entry)
    PROVE  {log[i].ev : i \in DOMAIN log} = EventsOf(log) /\ EventsOf(log) \subseteq Event
<1>1. \A i \in DOMAIN log : log[i] \in Entry
    OBVIOUS
<1>2. \A h \in Entry : h.ev \in Event
    BY DEF Entry
<1>3. QED
    BY <1>1, <1>2, Zenon DEF EventsOf, Items

LEMMA ItemsOfTail ==
    ASSUME NEW S, NEW s \in Seq(S), s # <<>>
    PROVE  \A h \in Items(s) : h = s[1] \/ h \in Items(Tail(s))
<1> SUFFICES ASSUME NEW h \in Items(s), h # s[1]
             PROVE  h \in Items(Tail(s))
    OBVIOUS
<1>1. PICK i \in 1..Len(s) : s[i] = h
    BY ItemsAre
<1>2. i # 1 /\ Len(s) \in Nat
    BY <1>1
<1>3. i - 1 \in 1..(Len(s) - 1) /\ (i - 1) + 1 = i
    BY <1>2
<1>4. Tail(s) \in Seq(S) /\ Len(Tail(s)) = Len(s) - 1 /\ Tail(s)[i - 1] = s[i]
    BY <1>3, TailShape
<1>5. QED
    BY <1>1, <1>3, <1>4, ItemsAre

\* The window a tab keeps of its log.
LEMMA LastOfShape ==
    ASSUME NEW log \in Seq(Entry)
    PROVE  /\ LastOf(log) \in Seq(Entry)
           /\ Len(LastOf(log)) <= Window
           /\ Items(LastOf(log)) \subseteq Items(log)
<1> DEFINE n == Len(log)
           m == IF n > Window THEN n - Window + 1 ELSE 1
           kept == SubSeq(log, m, n)
<1>1. n \in Nat /\ Window \in Nat
    BY TelemetryAssumption
<1>2. m \in Int /\ n \in Int /\ m >= 1 /\ n - m + 1 <= Window /\ m <= n + 1
    BY <1>1
<1>3. \A i \in m..n : i \in 1..n /\ log[i] \in Entry
    BY <1>1, <1>2
<1>4. LastOf(log) = kept
    BY DEF LastOf
<1> HIDE DEF m
<1>5. /\ kept \in Seq(Entry)
      /\ Len(kept) = IF m <= n THEN n - m + 1 ELSE 0
      /\ \A i \in 1..(n - m + 1) : kept[i] = log[m + i - 1]
    <2> HIDE DEF n
    <2>1. QED
        BY <1>2, <1>3, SubSeqProperties
<1> HIDE DEF n, kept
<1>6. Len(kept) <= Window
    BY <1>1, <1>2, <1>5
<1>7. ASSUME NEW h \in Items(kept)
      PROVE  h \in Items(log)
    <2>1. PICK i \in 1..Len(kept) : kept[i] = h
        BY <1>5, <1>7, ItemsAre
    <2>2. i \in 1..(n - m + 1) /\ m + i - 1 \in 1..n
        BY <1>1, <1>2, <1>5, <2>1
    <2>3. kept[i] = log[m + i - 1]
        BY <1>5, <2>2
    <2>4. QED
        BY <2>1, <2>2, <2>3, ItemsAre DEF n
<1>8. QED
    BY <1>4, <1>5, <1>6, <1>7

\* An entry that is marked is an entry.
LEMMA MarkedShape ==
    ASSUME NEW log \in Seq(Entry), NEW i, NEW fb
    PROVE  /\ fb \subseteq Marks => [log EXCEPT ![i].fb = fb] \in Seq(Entry)
           /\ fb \subseteq Marks => [log EXCEPT ![i].fb = @ \cup fb] \in Seq(Entry)
           /\ Len([log EXCEPT ![i].fb = fb]) = Len(log)
<1>1. ASSUME NEW x, i \in DOMAIN log => x \in Entry
      PROVE  [log EXCEPT ![i] = x] \in Seq(Entry)
    <2>1. CASE i \in DOMAIN log
        <3>1. i \in 1..Len(log) /\ x \in Entry
            BY <1>1, <2>1
        <3>2. QED
            BY <3>1, ExceptSeq
    <2>2. CASE i \notin DOMAIN log
        <3>1. [log EXCEPT ![i] = x] = log
            BY <2>2
        <3>2. QED
            BY <3>1
    <2>3. QED
        BY <2>1, <2>2
<1>2. ASSUME NEW x
      PROVE  Len([log EXCEPT ![i] = x]) = Len(log)
    <2>1. DOMAIN [log EXCEPT ![i] = x] = 1..Len(log) /\ Len(log) \in Nat
        OBVIOUS
    <2>2. QED
        BY <2>1, LenProperties
<1>3. PICK x : x = [log[i] EXCEPT !.fb = fb]
    OBVIOUS
<1>4. PICK y : y = [log[i] EXCEPT !.fb = @ \cup fb]
    OBVIOUS
<1>5. ASSUME NEW e \in Entry, fb \subseteq Marks
      PROVE  [e EXCEPT !.fb = fb] \in Entry /\ [e EXCEPT !.fb = @ \cup fb] \in Entry
    BY <1>5 DEF Entry
<1>6. i \in DOMAIN log => log[i] \in Entry
    OBVIOUS
<1>7. fb \subseteq Marks => (i \in DOMAIN log => x \in Entry /\ y \in Entry)
    BY <1>3, <1>4, <1>5, <1>6, Zenon
<1>8. /\ [log EXCEPT ![i].fb = fb] = [log EXCEPT ![i] = x]
      /\ [log EXCEPT ![i].fb = @ \cup fb] = [log EXCEPT ![i] = y]
    BY <1>3, <1>4, Zenon
<1>9. QED
    BY <1>1, <1>2, <1>7, <1>8, Zenon

\* The candidate of a correction only adds a mark to an entry.
LEMMA CorrectedShape ==
    ASSUME NEW log \in Seq(Entry)
    PROVE  Corrected(log) \in Seq(Entry)
<1>1. PICK i : i = CHOOSE k \in Pending(log) : \A j \in Pending(log) : j <= k
    OBVIOUS
<1>2. [log EXCEPT ![i].fb = @ \cup {"correction_candidate"}] \in Seq(Entry)
    <2>1. {"correction_candidate"} \subseteq Marks
        BY DEF Marks
    <2>2. QED
        BY <2>1, MarkedShape, Zenon
<1>3. QED
    BY <1>1, <1>2 DEF Corrected

LEMMA EndsAppend ==
    ASSUME NEW q \in Seq(Request), NEW y, NEW T, EndsFollow(q, y, T), NEW r \in Request,
           \/ r.kind = "turns"
           \/ /\ q # <<>> /\ q[Len(q)].kind = "turns"
              /\ r.said \subseteq EventsOf(q[Len(q)].events)
    PROVE  EndsFollow(Append(q, r), y, T)
<1> DEFINE n == Len(q)
           new == Append(q, r)
<1>1. /\ n \in Nat /\ Len(new) = n + 1
      /\ \A i \in 1..n : new[i] = q[i]
      /\ new[n + 1] = r
    BY AppendShape
<1>2. q # <<>> => n # 0
    OBVIOUS
<1> HIDE DEF new
<1> SUFFICES ASSUME NEW i \in 1..(n + 1), new[i].kind = "finish"
             PROVE  IF i = 1 THEN y => new[1].said \subseteq T
                    ELSE /\ new[i - 1].kind = "turns"
                         /\ new[i].said \subseteq EventsOf(new[i - 1].events)
    BY <1>1 DEF EndsFollow, new
<1>3. CASE i \in 1..n
    <2>1. new[i] = q[i] /\ new[1] = q[1] /\ (i # 1 => new[i - 1] = q[i - 1])
        <3>1. 1 \in 1..n /\ (i # 1 => i - 1 \in 1..n)
            BY <1>1, <1>3
        <3>2. QED
            BY <1>1, <1>3, <3>1
    <2>2. QED
        BY <1>3, <2>1 DEF EndsFollow
<1>4. CASE i = n + 1
    <2>1. r.kind = "finish"
        BY <1>1, <1>4
    <2>2. n \in 1..n /\ i # 1 /\ i - 1 = n
        BY <1>1, <1>2, <1>4, <2>1
    <2>3. new[i - 1] = q[n] /\ new[i] = r
        BY <1>1, <1>4, <2>2
    <2>4. QED
        BY <2>1, <2>2, <2>3
<1>5. QED
    BY <1>1, <1>3, <1>4

LEMMA EndsTail ==
    ASSUME NEW q \in Seq(Request), q # <<>>, NEW y, NEW T, EndsFollow(q, y, T), NEW ok,
           ok /\ q[1].kind = "turns" => EventsOf(q[1].events) \subseteq T
    PROVE  EndsFollow(Tail(q), ok, T)
<1> DEFINE n == Len(q)
           new == Tail(q)
<1>1. n \in Nat \ {0} /\ Len(new) = n - 1 /\ \A i \in 1..(n - 1) : new[i] = q[i + 1]
    BY TailShape
<1> HIDE DEF new
<1> SUFFICES ASSUME NEW i \in 1..(n - 1), new[i].kind = "finish"
             PROVE  IF i = 1 THEN ok => new[1].said \subseteq T
                    ELSE /\ new[i - 1].kind = "turns"
                         /\ new[i].said \subseteq EventsOf(new[i - 1].events)
    BY <1>1 DEF EndsFollow, new
<1> HIDE DEF n
<1>2. i + 1 \in 1..n /\ i + 1 # 1 /\ (i + 1) - 1 = i /\ new[i] = q[i + 1]
    BY <1>1
<1>3. q[i].kind = "turns" /\ new[i].said \subseteq EventsOf(q[i].events)
    <2>1. q[(i + 1) - 1].kind = "turns" /\ q[i + 1].said \subseteq EventsOf(q[(i + 1) - 1].events)
        BY <1>2 DEF EndsFollow, n
    <2>2. QED
        BY <1>2, <2>1
<1>4. i # 1 => new[i - 1] = q[i]
    <2>1. i # 1 => i - 1 \in 1..(n - 1) /\ (i - 1) + 1 = i
        BY <1>1
    <2>2. QED
        BY <1>1, <2>1
<1>5. QED
    BY <1>3, <1>4
-----------------------------------------------------------------------------
(* One tab *)

LEMMA StoredGrows ==
    ASSUME NEW T, NEW F, NEW T2, NEW F2, T \subseteq T2, F \subseteq F2, NEW h, Stored(h, T, F)
    PROVE  Stored(h, T2, F2)
    BY DEF Stored

\* A tab fits a store that has grown, if the collector it waits for is alive.
LEMMA TabGrows ==
    ASSUME NEW s, NEW T, NEW F, NEW a, TabFits(s, T, F, a),
           NEW T2, NEW F2, NEW b, T \subseteq T2, F \subseteq F2, s.waiting => b
    PROVE  TabFits(s, T2, F2, b)
<1>1. IsTab(s, b)
    BY DEF TabFits, IsTab
<1>2. EndsFollow(s.queue, s.synced, T2)
    BY DEF TabFits, EndsFollow
<1>3. Covered(s.log, s.queue, s.synced, T2, F2)
    BY StoredGrows DEF TabFits, Covered
<1>4. QED
    BY <1>1, <1>2, <1>3 DEF TabFits

\* The shape of a tab, and what a change of one field makes of it.
Shaped(s) == s = [log |-> s.log, ep |-> s.ep, step |-> s.step, state |-> s.state,
                  queue |-> s.queue, waiting |-> s.waiting, synced |-> s.synced]

LEMMA SettledShape ==
    ASSUME NEW s, Shaped(s), NEW ok
    PROVE  /\ Shaped(Settled(s, ok))
           /\ Settled(s, ok).log = s.log /\ Settled(s, ok).ep = s.ep
           /\ Settled(s, ok).queue = Tail(s.queue)
           /\ Settled(s, ok).waiting = FALSE /\ Settled(s, ok).synced = ok
<1>1. PICK s1 : s1 = [s EXCEPT !.queue = Tail(s.queue)]
    OBVIOUS
<1>2. Shaped(s1) /\ s1.log = s.log /\ s1.ep = s.ep /\ s1.queue = Tail(s.queue)
    BY <1>1 DEF Shaped
<1>3. PICK s2 : s2 = [s1 EXCEPT !.waiting = FALSE]
    OBVIOUS
<1>4. /\ Shaped(s2) /\ s2.log = s.log /\ s2.ep = s.ep /\ s2.queue = Tail(s.queue)
      /\ s2.waiting = FALSE
    BY <1>2, <1>3 DEF Shaped
<1>5. PICK s3 : s3 = [s2 EXCEPT !.synced = ok]
    OBVIOUS
<1>6. /\ Shaped(s3) /\ s3.log = s.log /\ s3.ep = s.ep /\ s3.queue = Tail(s.queue)
      /\ s3.waiting = FALSE /\ s3.synced = ok
    BY <1>4, <1>5 DEF Shaped
<1>7. Settled(s, ok) = s3
    BY <1>1, <1>3, <1>5, Zenon DEF Settled
<1>8. QED
    BY <1>6, <1>7

LEMMA SettledFits ==
    ASSUME NEW s, NEW T, NEW F, NEW a, TabFits(s, T, F, a), s.queue # <<>>, NEW ok \in BOOLEAN,
           ok /\ s.queue[1].kind = "turns" => \A h \in Items(s.queue[1].events) : Stored(h, T, F),
           NEW b
    PROVE  TabFits(Settled(s, ok), T, F, b)
<1> DEFINE q == s.queue
<1>1. IsTab(s, a) /\ EndsFollow(q, s.synced, T) /\ Covered(s.log, q, s.synced, T, F)
    BY DEF TabFits
<1>2. /\ q \in Seq(Request) /\ q # <<>>
      /\ s = [log |-> s.log, ep |-> s.ep, step |-> s.step, state |-> s.state,
              queue |-> s.queue, waiting |-> s.waiting, synced |-> s.synced]
      /\ IsSession(s)
    BY <1>1 DEF IsTab
<1>3. /\ Shaped(Settled(s, ok))
      /\ Settled(s, ok).log = s.log /\ Settled(s, ok).ep = s.ep
      /\ Settled(s, ok).queue = Tail(q)
      /\ Settled(s, ok).waiting = FALSE /\ Settled(s, ok).synced = ok
    BY <1>2, SettledShape DEF Shaped
<1> HIDE DEF q
<1>4. /\ Len(q) \in Nat \ {0} /\ Tail(q) \in Seq(Request) /\ Len(Tail(q)) = Len(q) - 1
      /\ \A i \in 1..(Len(q) - 1) : Tail(q)[i] = q[i + 1]
      /\ Tail(q) = <<>> <=> Len(q) = 1
    BY <1>2, TailShape
<1>5. EndsFollow(Tail(q), ok, T)
    <2>1. ok /\ q[1].kind = "turns" => EventsOf(q[1].events) \subseteq T
        BY DEF EventsOf, Stored, q
    <2>2. QED
        BY <1>1, <1>2, <2>1, EndsTail
<1>6. Covered(s.log, Tail(q), ok, T, F)
    <2>1. IF q[Len(q)].kind = "turns" THEN Items(s.log) \subseteq Items(q[Len(q)].events)
          ELSE s.log = <<>>
        BY <1>1, <1>2 DEF Covered
    <2>2. CASE Len(q) = 1
        <3>1. Items(<<>>) = {}
            BY DEF Items
        <3>2. ok => \A h \in Items(s.log) : Stored(h, T, F)
            BY <2>1, <2>2, <3>1 DEF q
        <3>3. QED
            BY <1>4, <2>2, <3>2 DEF Covered
    <2>3. CASE Len(q) # 1
        <3>1. Len(Tail(q)) \in 1..(Len(q) - 1) /\ Len(Tail(q)) + 1 = Len(q)
            BY <1>4, <2>3
        <3>2. Tail(q)[Len(Tail(q))] = q[Len(q)]
            BY <1>4, <3>1
        <3>3. QED
            BY <1>4, <2>1, <2>3, <3>2 DEF Covered
    <2>4. QED
        BY <2>2, <2>3
<1>7. IsTab(Settled(s, ok), b)
    BY <1>2, <1>3, <1>4 DEF IsTab, IsSession, Shaped
<1>8. QED
    BY <1>3, <1>5, <1>6, <1>7 DEF TabFits

\* A tab goes on: it has a new log, and an upload of at least that in its queue.
LEMMA UploadFits ==
    ASSUME NEW s, NEW T, NEW F, NEW a, TabFits(s, T, F, a),
           NEW s2, s2 = [log |-> s2.log, ep |-> s2.ep, step |-> s2.step, state |-> s2.state,
                         queue |-> s2.queue, waiting |-> s2.waiting, synced |-> s2.synced],
           IsSession(s2), s2.waiting = s.waiting, s2.synced = s.synced,
           NEW q \in Seq(Request), EndsFollow(q, s.synced, T),
           NEW log \in Seq(Entry), Items(s2.log) \subseteq Items(log),
           s2.queue = Append(q, Upload(log))
    PROVE  TabFits(s2, T, F, a)
<1> DEFINE r == Upload(log)
<1>1. r \in Request /\ r.kind = "turns" /\ r.events = log
    BY DEF Upload, Request
<1> HIDE DEF r
<1>2. /\ s2.queue \in Seq(Request) /\ s2.queue # <<>>
      /\ Len(q) \in Nat /\ Len(s2.queue) = Len(q) + 1 /\ s2.queue[Len(q) + 1] = r
    BY <1>1, AppendShape DEF r
<1>3. EndsFollow(s2.queue, s2.synced, T)
    BY <1>1, EndsAppend DEF r
<1>4. Covered(s2.log, s2.queue, s2.synced, T, F)
    BY <1>1, <1>2 DEF Covered
<1>5. IsTab(s2, a)
    BY <1>2 DEF TabFits, IsTab
<1>6. QED
    BY <1>3, <1>4, <1>5 DEF TabFits

-----------------------------------------------------------------------------
(* What the actions have in common *)

Grows == turns \subseteq turns' /\ feedback \subseteq feedback'

\* The requests under way are those the tabs still wait for.
HeadsKept == \A t \in Tabs : tab[t].waiting => /\ tab'[t].waiting
                                              /\ tab'[t].queue[1] = tab[t].queue[1]

LEMMA InboxKept ==
    ASSUME InboxFits, inbox' = inbox, Grows,
           \A i \in 1..Len(inbox) : inbox[i].from \in Tabs =>
             /\ tab'[inbox[i].from].waiting
             /\ tab'[inbox[i].from].queue[1] = tab[inbox[i].from].queue[1]
    PROVE  InboxFits'
<1>1. inbox' \in Seq(Mail) /\ Apart(inbox')
    BY DEF InboxFits
<1>2. ASSUME NEW i \in 1..Len(inbox)
      PROVE  /\ Awaits(tab', inbox[i])
             /\ inbox[i].request.kind = "finish" => inbox[i].request.said \subseteq turns'
    BY DEF InboxFits, Awaits, Grows
<1>3. QED
    BY <1>1, <1>2 DEF InboxFits

LEMMA JobStillFits ==
    ASSUME NEW w, NEW j, NEW tabs, NEW mails, NEW T, NEW F, JobFits(w, j, tabs, mails, T, F),
           NEW tabs2, NEW mails2, NEW T2, NEW F2, T \subseteq T2, F \subseteq F2,
           j # NoJob /\ j.from \in Tabs =>
             /\ tabs2[j.from].waiting
             /\ tabs2[j.from].queue[1] = tabs[j.from].queue[1]
             /\ \A i \in 1..Len(mails2) : mails2[i].from # j.from
    PROVE  JobFits(w, j, tabs2, mails2, T2, F2)
<1> SUFFICES ASSUME j # NoJob
             PROVE  /\ j.from \in Tabs \cup {NoTab}
                    /\ w = "cli" => j.from = NoTab
                    /\ Progress(j, T2, F2)
                    /\ Serves(j, tabs2, mails2, T2, F2)
    BY DEF JobFits
<1>1. /\ j.from \in Tabs \cup {NoTab} /\ (w = "cli" => j.from = NoTab)
      /\ Progress(j, T, F) /\ Serves(j, tabs, mails, T, F)
    BY DEF JobFits
<1>2. Progress(j, T2, F2)
    BY <1>1 DEF Progress, MarkIn
<1>3. ASSUME NEW events, NEW todo, Done(events, todo, T, F)
      PROVE  Done(events, todo, T2, F2)
    BY <1>3, StoredGrows DEF Done
<1>4. Serves(j, tabs2, mails2, T2, F2)
    <2> SUFFICES ASSUME j.from \in Tabs
                 PROVE  /\ tabs2[j.from].waiting
                        /\ tabs2[j.from].queue[1].kind = j.kind
                        /\ j.kind = "turns" => Done(tabs2[j.from].queue[1].events, j.todo, T2, F2)
                        /\ \A i \in 1..Len(mails2) : mails2[i].from # j.from
        BY DEF Serves
    <2>1. /\ tabs[j.from].queue[1].kind = j.kind
          /\ j.kind = "turns" => Done(tabs[j.from].queue[1].events, j.todo, T, F)
        BY <1>1 DEF Serves
    <2>2. QED
        BY <1>3, <2>1
<1>5. QED
    BY <1>1, <1>2, <1>4

\* A tab waits for a request in the inbox, or for the one the server works on.
LEMMA MailAwaited ==
    ASSUME InboxFits, NEW i \in 1..Len(inbox), inbox[i].from \in Tabs
    PROVE  /\ tab[inbox[i].from].waiting
           /\ tab[inbox[i].from].queue[1] = inbox[i].request
    BY DEF InboxFits, Awaits

LEMMA JobAwaited ==
    ASSUME JobsFit, NEW w \in Writers, job[w] # NoJob, job[w].from \in Tabs
    PROVE  /\ tab[job[w].from].waiting
           /\ \A i \in 1..Len(inbox) : inbox[i].from # job[w].from
           /\ w = "server"
<1>1. "nobody" \notin Tabs /\ NoTab = "nobody"
    BY TelemetryAssumption DEF NoTab
<1>2. QED
    BY <1>1 DEF JobsFit, JobFits, Serves, Writers

\* Requests and jobs stay as they are while tabs go on waiting.
LEMMA FlightKept ==
    ASSUME InboxFits, JobsFit, inbox' = inbox, job' = job, Grows, HeadsKept
    PROVE  InboxFits' /\ JobsFit'
<1>1. InboxFits'
    BY InboxKept, MailAwaited DEF HeadsKept
<1>2. ASSUME NEW w \in Writers
      PROVE  JobFits(w, job[w], tab', inbox, turns', feedback')
    <2>1. JobFits(w, job[w], tab, inbox, turns, feedback)
        BY DEF JobsFit
    <2>2. turns \subseteq turns' /\ feedback \subseteq feedback'
        BY DEF Grows
    <2>3. job[w] # NoJob /\ job[w].from \in Tabs =>
            /\ tab'[job[w].from].waiting
            /\ tab'[job[w].from].queue[1] = tab[job[w].from].queue[1]
            /\ \A i \in 1..Len(inbox) : inbox[i].from # job[w].from
        BY JobAwaited DEF HeadsKept
    <2>4. QED
        BY <2>1, <2>2, <2>3, JobStillFits
<1>3. QED
    BY <1>1, <1>2 DEF JobsFit

Browsers == TabsFit /\ SavedFits /\ InboxFits /\ JobsFit

\* Steps of others than browsers and writers.
LEMMA Elsewhere ==
    ASSUME Browsers, tab' = tab, saved' = saved, inbox' = inbox, job' = job, Grows,
           up => up'
    PROVE  Browsers'
<1>1. ASSUME NEW t \in Tabs
      PROVE  TabFits(tab[t], turns', feedback', up')
    <2>1. TabFits(tab[t], turns, feedback, up) /\ (tab[t].waiting => up)
        BY DEF Browsers, TabsFit, TabFits, IsTab
    <2>2. QED
        BY <2>1, TabGrows DEF Grows
<1>2. TabsFit'
    BY <1>1 DEF Browsers, TabsFit
<1>3. SavedFits'
    BY DEF Browsers, SavedFits
<1>4. InboxFits' /\ JobsFit'
    BY FlightKept DEF Browsers, HeadsKept
<1>5. QED
    BY <1>2, <1>3, <1>4 DEF Browsers

\* One tab changes, and goes on waiting for what it waits for.
LEMMA OneTab ==
    ASSUME TabsFit, NEW t \in Tabs, NEW s, tab' = [tab EXCEPT ![t] = s],
           TabFits(s, turns, feedback, up), UNCHANGED <<turns, feedback, up>>
    PROVE  /\ TabsFit'
           /\ \A v \in Tabs : tab'[v] = IF v = t THEN s ELSE tab[v]
<1>1. \A v \in Tabs : tab'[v] = IF v = t THEN s ELSE tab[v]
    BY DEF TabsFit
<1>2. tab' = [v \in Tabs |-> tab'[v]]
    BY DEF TabsFit
<1>3. \A v \in Tabs : TabFits(tab'[v], turns', feedback', up')
    BY <1>1 DEF TabsFit
<1>4. QED
    BY <1>1, <1>2, <1>3 DEF TabsFit

LEMMA TabGoesOn ==
    ASSUME Browsers, NEW t \in Tabs, NEW s, tab' = [tab EXCEPT ![t] = s],
           TabFits(s, turns, feedback, up), UNCHANGED <<turns, feedback, up, inbox, job>>,
           tab[t].waiting => s.waiting /\ s.queue[1] = tab[t].queue[1]
    PROVE  TabsFit' /\ InboxFits' /\ JobsFit'
<1>1. TabsFit' /\ \A v \in Tabs : tab'[v] = IF v = t THEN s ELSE tab[v]
    BY OneTab DEF Browsers
<1>2. Grows /\ HeadsKept
    BY <1>1 DEF Grows, HeadsKept
<1>3. QED
    BY <1>1, <1>2, FlightKept DEF Browsers

\* A writer goes on.
LEMMA WriterGoesOn ==
    ASSUME Browsers, NEW w \in Writers, NEW j, JobOK, job' = [job EXCEPT ![w] = j],
           JobFits(w, j, tab, inbox, turns', feedback'),
           UNCHANGED <<tab, saved, inbox, up>>, Grows
    PROVE  Browsers'
<1>1. ASSUME NEW t \in Tabs
      PROVE  TabFits(tab[t], turns', feedback', up)
    <2>1. TabFits(tab[t], turns, feedback, up) /\ (tab[t].waiting => up)
        BY DEF Browsers, TabsFit, TabFits, IsTab
    <2>2. QED
        BY <2>1, TabGrows DEF Grows
<1>2. TabsFit'
    BY <1>1 DEF Browsers, TabsFit
<1>3. SavedFits'
    BY DEF Browsers, SavedFits
<1>4. InboxFits'
    BY InboxKept, MailAwaited DEF Browsers
<1>5. \A v \in Writers : job'[v] = IF v = w THEN j ELSE job[v]
    BY DEF JobOK
<1>6. ASSUME NEW v \in Writers
      PROVE  JobFits(v, job'[v], tab, inbox, turns', feedback')
    <2>1. CASE v = w
        BY <1>5, <2>1
    <2>2. CASE v # w
        <3>1. JobFits(v, job[v], tab, inbox, turns, feedback)
            BY DEF Browsers, JobsFit
        <3>2. job[v] # NoJob /\ job[v].from \in Tabs =>
                /\ tab[job[v].from].waiting
                /\ \A i \in 1..Len(inbox) : inbox[i].from # job[v].from
            BY JobAwaited DEF Browsers
        <3>3. JobFits(v, job[v], tab, inbox, turns', feedback')
            BY <3>1, <3>2, JobStillFits DEF Grows
        <3>4. QED
            BY <1>5, <2>2, <3>3
    <2>3. QED
        BY <2>1, <2>2
<1>7. QED
    BY <1>2, <1>3, <1>4, <1>6 DEF Browsers, JobsFit

\* The collector answers a tab: its request is under way no more.
LEMMA Answered ==
    ASSUME Browsers, NEW from \in Tabs \cup {NoTab}, NEW ok \in BOOLEAN, Answer(from, ok),
           UNCHANGED <<turns, feedback, up>>,
           from \in Tabs =>
             /\ tab[from].queue # <<>>
             /\ ok /\ tab[from].queue[1].kind = "turns" =>
                  \A h \in Items(tab[from].queue[1].events) : Stored(h, turns, feedback)
    PROVE  /\ TabsFit'
           /\ \A t \in Tabs : t # from => tab'[t] = tab[t]
<1>1. tab' = [t \in Tabs |-> IF t = from THEN Settled(tab[t], ok) ELSE tab[t]]
    BY DEF Answer
<1>2. \A t \in Tabs : TabFits(tab[t], turns, feedback, up)
    BY DEF Browsers, TabsFit
<1>3. ASSUME NEW t \in Tabs
      PROVE  TabFits(tab'[t], turns, feedback, up)
    <2>1. CASE t = from
        <3>1. TabFits(Settled(tab[t], ok), turns, feedback, up)
            BY <1>2, <2>1, SettledFits
        <3>2. QED
            BY <1>1, <2>1, <3>1
    <2>2. CASE t # from
        BY <1>1, <1>2, <2>2
    <2>3. QED
        BY <2>1, <2>2
<1>4. QED
    BY <1>1, <1>3 DEF TabsFit

\* A writer ends, and tells the tab that waits for it.
LEMMA WriterEnds ==
    ASSUME Browsers, JobOK, NEW w \in Writers, job[w] # NoJob, NEW ok \in BOOLEAN, End(w, ok),
           ok /\ job[w].kind = "turns" => job[w].todo = <<>>,
           UNCHANGED <<turns, feedback, up, saved, inbox>>
    PROVE  Browsers'
<1> DEFINE from == job[w].from
<1>1. /\ job' = [job EXCEPT ![w] = NoJob] /\ Answer(from, ok)
      /\ from \in Tabs \cup {NoTab}
      /\ Serves(job[w], tab, inbox, turns, feedback)
    BY DEF End, Browsers, JobsFit, JobFits
<1>2. from \in Tabs =>
        /\ tab[from].queue # <<>>
        /\ ok /\ tab[from].queue[1].kind = "turns" =>
             \A h \in Items(tab[from].queue[1].events) : Stored(h, turns, feedback)
    <2> SUFFICES ASSUME from \in Tabs
                 PROVE  /\ tab[from].queue # <<>>
                        /\ ok /\ tab[from].queue[1].kind = "turns" =>
                             \A h \in Items(tab[from].queue[1].events) : Stored(h, turns, feedback)
        OBVIOUS
    <2>1. /\ tab[from].waiting /\ tab[from].queue[1].kind = job[w].kind
          /\ job[w].kind = "turns" => Done(tab[from].queue[1].events, job[w].todo, turns, feedback)
        BY <1>1 DEF Serves
    <2>2. tab[from].queue # <<>>
        BY <2>1 DEF Browsers, TabsFit, TabFits, IsTab
    <2>3. Items(<<>>) = {}
        BY DEF Items
    <2>4. QED
        BY <2>1, <2>2, <2>3 DEF Done
<1>3. TabsFit' /\ \A t \in Tabs : t # from => tab'[t] = tab[t]
    BY <1>1, <1>2, Answered
<1>4. SavedFits'
    BY DEF Browsers, SavedFits
<1>5. InboxFits'
    <2>1. \A i \in 1..Len(inbox) : inbox[i].from \in Tabs =>
            /\ tab'[inbox[i].from].waiting
            /\ tab'[inbox[i].from].queue[1] = tab[inbox[i].from].queue[1]
        <3>1. \A i \in 1..Len(inbox) : inbox[i].from \in Tabs => inbox[i].from # from
            BY <1>1 DEF Serves
        <3>2. QED
            BY <1>3, <3>1, MailAwaited DEF Browsers
    <2>2. QED
        BY <2>1, InboxKept DEF Browsers, Grows
<1>6. \A v \in Writers : job'[v] = IF v = w THEN NoJob ELSE job[v]
    BY <1>1 DEF JobOK
<1>7. ASSUME NEW v \in Writers
      PROVE  JobFits(v, job'[v], tab', inbox, turns, feedback)
    <2>1. CASE v = w
        BY <1>6, <2>1 DEF JobFits
    <2>2. CASE v # w
        <3>1. JobFits(v, job[v], tab, inbox, turns, feedback)
            BY DEF Browsers, JobsFit
        <3>2. job[v] # NoJob /\ job[v].from \in Tabs =>
                /\ tab'[job[v].from].waiting
                /\ tab'[job[v].from].queue[1] = tab[job[v].from].queue[1]
                /\ \A i \in 1..Len(inbox) : inbox[i].from # job[v].from
            <4> SUFFICES ASSUME job[v] # NoJob, job[v].from \in Tabs
                         PROVE  /\ tab'[job[v].from].waiting
                                /\ tab'[job[v].from].queue[1] = tab[job[v].from].queue[1]
                                /\ \A i \in 1..Len(inbox) : inbox[i].from # job[v].from
                OBVIOUS
            <4>1. v = "server" /\ tab[job[v].from].waiting
                  /\ \A i \in 1..Len(inbox) : inbox[i].from # job[v].from
                BY JobAwaited DEF Browsers
            <4>2. w = "cli" /\ from = NoTab
                BY <2>2, <4>1 DEF Writers, Browsers, JobsFit, JobFits
            <4>3. job[v].from # from
                BY <4>2, TelemetryAssumption DEF NoTab
            <4>4. QED
                BY <1>3, <4>1, <4>3
        <3>3. JobFits(v, job[v], tab', inbox, turns, feedback)
            BY <3>1, <3>2, JobStillFits
        <3>4. QED
            BY <1>6, <2>2, <3>3
    <2>3. QED
        BY <2>1, <2>2
<1>8. QED
    BY <1>3, <1>4, <1>5, <1>7 DEF Browsers, JobsFit

-----------------------------------------------------------------------------
(* The tabs *)

LEMMA TabFacts ==
    ASSUME TabsFit, NEW t \in Tabs
    PROVE  /\ TabFits(tab[t], turns, feedback, up) /\ IsTab(tab[t], up) /\ Shaped(tab[t])
           /\ tab[t].log \in Seq(Entry) /\ Len(tab[t].log) <= Window
           /\ tab[t].ep \in Episodes \cup {0}
           /\ tab[t].queue \in Seq(Request)
           /\ EndsFollow(tab[t].queue, tab[t].synced, turns)
           /\ tab[t].waiting => tab[t].queue # <<>>
    BY DEF TabsFit, TabFits, IsTab, IsSession, Shaped

LEMMA UploadAppends ==
    ASSUME NEW q \in Seq(Request), NEW log \in Seq(Entry), NEW y, NEW T, EndsFollow(q, y, T)
    PROVE  /\ Append(q, Upload(log)) \in Seq(Request)
           /\ EndsFollow(Append(q, Upload(log)), y, T)
           /\ Append(q, Upload(log)) # <<>>
           /\ q # <<>> => Append(q, Upload(log))[1] = q[1]
           /\ Append(q, Upload(log))[Len(Append(q, Upload(log)))] = Upload(log)
<1>1. Upload(log) \in Request /\ Upload(log).kind = "turns"
    BY DEF Upload, Request
<1>2. PICK r \in Request : r = Upload(log)
    BY <1>1
<1>3. /\ Append(q, r) \in Seq(Request) /\ Append(q, r) # <<>>
      /\ q # <<>> => Append(q, r)[1] = q[1]
      /\ Append(q, r)[Len(Append(q, r))] = r
    OBVIOUS
<1>4. EndsFollow(Append(q, r), y, T)
    BY <1>1, <1>2, EndsAppend
<1>5. QED
    BY <1>2, <1>3, <1>4

\* What several changes of a tab at once make of it.
Spoken(s, log, ep, step, state, queue) ==
    [s EXCEPT !.log = log, !.ep = ep, !.step = step, !.state = state, !.queue = queue]

LEMMA SpokenShape ==
    ASSUME NEW s, Shaped(s), NEW log, NEW ep, NEW step, NEW state, NEW queue, NEW s2,
           s2 = Spoken(s, log, ep, step, state, queue)
    PROVE  /\ Shaped(s2)
           /\ s2.log = log /\ s2.ep = ep /\ s2.queue = queue
           /\ s2.waiting = s.waiting /\ s2.synced = s.synced
<1>1. PICK a : a = [s EXCEPT !.log = log]
    OBVIOUS
<1>2. PICK b : b = [a EXCEPT !.ep = ep]
    OBVIOUS
<1>3. PICK c : c = [b EXCEPT !.step = step]
    OBVIOUS
<1>4. PICK d : d = [c EXCEPT !.state = state]
    OBVIOUS
<1>5. PICK e : e = [d EXCEPT !.queue = queue]
    OBVIOUS
<1>6. s2 = e
    BY <1>1, <1>2, <1>3, <1>4, <1>5, Zenon DEF Spoken
<1>7. Shaped(a) /\ a.log = log /\ a.waiting = s.waiting /\ a.synced = s.synced
    BY <1>1 DEF Shaped
<1>8. Shaped(b) /\ b.log = log /\ b.ep = ep /\ b.waiting = s.waiting /\ b.synced = s.synced
    BY <1>2, <1>7 DEF Shaped
<1>9. Shaped(c) /\ c.log = log /\ c.ep = ep /\ c.waiting = s.waiting /\ c.synced = s.synced
    BY <1>3, <1>8 DEF Shaped
<1>10. Shaped(d) /\ d.log = log /\ d.ep = ep /\ d.waiting = s.waiting /\ d.synced = s.synced
    BY <1>4, <1>9 DEF Shaped
<1>11. /\ Shaped(e) /\ e.log = log /\ e.ep = ep /\ e.queue = queue
       /\ e.waiting = s.waiting /\ e.synced = s.synced
    BY <1>5, <1>10 DEF Shaped
<1>12. QED
    BY <1>6, <1>11

LEMMA SpeakStep ==
    ASSUME Browsers, NEW t \in Tabs, Speak(t)
    PROVE  Browsers'
<1> DEFINE s == tab[t]
           p == IF s.ep = 0 THEN count.eps + 1 ELSE s.ep
           e == NextEvent(s, p, FALSE)
           linked == Corrected(s.log)
           said == Append(linked, [ev |-> e, fb |-> {}])
           asked == IF linked = s.log THEN s.queue ELSE Append(s.queue, Upload(linked))
           after == [s EXCEPT !.log = LastOf(said), !.ep = p, !.step = e.step, !.state = e.after,
                              !.queue = Append(asked, Upload(said))]
<1>1. /\ e \in Event /\ tab' = [tab EXCEPT ![t] = after] /\ saved' = Session(after)
      /\ UNCHANGED <<storeVars, server>>
    BY Zenon DEF Speak
<1>2. PICK s2 : s2 = after
    OBVIOUS
<1>3. /\ TabFits(s, turns, feedback, up) /\ Shaped(s)
      /\ s.log \in Seq(Entry) /\ s.queue \in Seq(Request)
      /\ EndsFollow(s.queue, s.synced, turns)
      /\ s.waiting => s.queue # <<>>
    BY TabFacts DEF Browsers
<1>4. /\ Shaped(s2) /\ s2.log = LastOf(said) /\ s2.ep = p
      /\ s2.queue = Append(asked, Upload(said))
      /\ s2.waiting = s.waiting /\ s2.synced = s.synced
    <2>1. s2 = Spoken(s, LastOf(said), p, e.step, e.after, Append(asked, Upload(said)))
        BY <1>2, Zenon DEF Spoken
    <2>2. PICK a, b, c, d, f : /\ a = LastOf(said) /\ b = p /\ c = e.step /\ d = e.after
                               /\ f = Append(asked, Upload(said))
        OBVIOUS
    <2>3. PICK z : z = s
        OBVIOUS
    <2> HIDE DEF after, said, p, e, asked, s
    <2>4. s2 = Spoken(z, a, b, c, d, f) /\ Shaped(z)
        BY <1>3, <2>1, <2>2, <2>3
    <2>5. /\ Shaped(s2) /\ s2.log = a /\ s2.ep = b /\ s2.queue = f
          /\ s2.waiting = z.waiting /\ s2.synced = z.synced
        BY <2>4, SpokenShape
    <2>6. QED
        BY <2>2, <2>3, <2>5
<1>5. p \in Episodes
    BY <1>1 DEF NextEvent, Event
<1> HIDE DEF e, p
<1>6. linked \in Seq(Entry)
    BY <1>3, CorrectedShape
<1>7. said \in Seq(Entry)
    <2>1. [ev |-> e, fb |-> {}] \in Entry
        BY <1>1 DEF Entry
    <2>2. QED
        BY <1>6, <2>1, AppendShape
<1>8. /\ asked \in Seq(Request) /\ EndsFollow(asked, s.synced, turns)
      /\ s.queue # <<>> => asked # <<>> /\ asked[1] = s.queue[1]
    BY <1>3, <1>6, UploadAppends
<1> HIDE DEF linked, said, asked
<1>9. IsSession(s2) /\ Items(s2.log) \subseteq Items(said)
    BY <1>4, <1>5, <1>7, LastOfShape DEF IsSession
<1>10. TabFits(s2, turns, feedback, up)
    BY <1>3, <1>4, <1>7, <1>8, <1>9, UploadFits DEF Shaped
<1>11. s.waiting => s2.waiting /\ s2.queue[1] = s.queue[1]
    BY <1>3, <1>4, <1>7, <1>8, UploadAppends
<1> HIDE DEF after
<1>12. TabsFit' /\ InboxFits' /\ JobsFit'
    <2>1. tab' = [tab EXCEPT ![t] = s2] /\ UNCHANGED <<turns, feedback, up, inbox, job>>
        BY <1>1, <1>2 DEF storeVars, server
    <2>2. QED
        BY <1>10, <1>11, <2>1, TabGoesOn
<1>13. SavedFits'
    BY <1>1, <1>2, <1>9 DEF SavedFits, Session, IsSession
<1>14. QED
    BY <1>12, <1>13 DEF Browsers

LEMMA MarkWrongStep ==
    ASSUME Browsers, NEW t \in Tabs, MarkWrong(t)
    PROVE  Browsers'
<1> DEFINE s == tab[t]
           marked == [s.log EXCEPT ![Len(s.log)].fb = {"incorrect"}]
           new == [s EXCEPT !.log[Len(s.log)].fb = {"incorrect"}]
           after == [new EXCEPT !.queue = Append(@, Upload(new.log))]
<1>1. /\ tab' = [tab EXCEPT ![t] = after] /\ saved' = Session(after)
      /\ UNCHANGED <<storeVars, server>>
    BY Zenon DEF MarkWrong
<1>2. /\ TabFits(s, turns, feedback, up) /\ Shaped(s)
      /\ s.log \in Seq(Entry) /\ s.queue \in Seq(Request)
      /\ Len(s.log) <= Window /\ s.ep \in Episodes \cup {0}
      /\ EndsFollow(s.queue, s.synced, turns)
      /\ s.waiting => s.queue # <<>>
    BY TabFacts DEF Browsers
<1>3. PICK log : log = marked
    OBVIOUS
<1>4. log \in Seq(Entry) /\ Len(log) = Len(s.log)
    BY <1>2, <1>3, MarkedShape DEF Marks
<1>5. PICK s1 : s1 = [s EXCEPT !.log = log]
    OBVIOUS
<1>6. new = s1
    BY <1>3, <1>5, Zenon
<1>7. /\ Shaped(s1) /\ s1.log = log /\ s1.ep = s.ep /\ s1.queue = s.queue
      /\ s1.waiting = s.waiting /\ s1.synced = s.synced
    BY <1>2, <1>5 DEF Shaped
<1>8. PICK s2 : s2 = [s1 EXCEPT !.queue = Append(s1.queue, Upload(s1.log))]
    OBVIOUS
<1>9. after = s2
    BY <1>6, <1>8, Zenon
<1>10. /\ Shaped(s2) /\ s2.log = log /\ s2.ep = s.ep
       /\ s2.queue = Append(s.queue, Upload(log))
       /\ s2.waiting = s.waiting /\ s2.synced = s.synced
    BY <1>7, <1>8 DEF Shaped
<1> HIDE DEF marked, new, after
<1>11. IsSession(s2)
    BY <1>2, <1>4, <1>10 DEF IsSession
<1>12. TabFits(s2, turns, feedback, up)
    BY <1>2, <1>4, <1>10, <1>11, UploadFits DEF Shaped
<1>13. s.waiting => s2.waiting /\ s2.queue[1] = s.queue[1]
    BY <1>2, <1>4, <1>10, UploadAppends
<1>14. TabsFit' /\ InboxFits' /\ JobsFit'
    <2>1. tab' = [tab EXCEPT ![t] = s2] /\ UNCHANGED <<turns, feedback, up, inbox, job>>
        BY <1>1, <1>9 DEF storeVars, server
    <2>2. QED
        BY <1>12, <1>13, <2>1, TabGoesOn
<1>15. SavedFits'
    BY <1>1, <1>9, <1>11 DEF SavedFits, Session, IsSession
<1>16. QED
    BY <1>14, <1>15 DEF Browsers

\* An empty session fits.
LEMMA FreshFits == IsSession(Fresh) /\ Fresh = [log |-> <<>>, ep |-> 0, step |-> 0, state |-> <<>>]
<1>1. Len(<<>>) <= Window /\ <<>> \in Seq(Entry)
    BY TelemetryAssumption
<1>2. QED
    BY <1>1 DEF IsSession, Fresh

\* A page that was just opened fits.
LEMMA NewTabFits ==
    ASSUME NEW s, IsSession(s), NEW T, NEW F, NEW a
    PROVE  TabFits(NewTab(s), T, F, a) /\ NewTab(s).waiting = FALSE
<1>1. IsTab(NewTab(s), a)
    BY DEF IsTab, NewTab, IsSession
<1>2. NewTab(s).queue = <<>> /\ NewTab(s).synced = FALSE /\ NewTab(s).waiting = FALSE
    BY DEF NewTab
<1>3. EndsFollow(<<>>, FALSE, T) /\ Covered(NewTab(s).log, <<>>, FALSE, T, F)
    BY DEF EndsFollow, Covered
<1>4. QED
    BY <1>1, <1>2, <1>3 DEF TabFits

LEMMA ResetStep ==
    ASSUME Browsers, NEW t \in Tabs, Reset(t)
    PROVE  Browsers'
<1> DEFINE s == tab[t]
           said == {s.log[i].ev : i \in DOMAIN s.log}
           end == [kind |-> "finish", ep |-> s.ep, said |-> said]
           q1 == Append(s.queue, Upload(s.log))
           q2 == Append(q1, end)
           after(q) == [NewTab(Fresh) EXCEPT !.waiting = s.waiting, !.synced = s.synced, !.queue = q]
<1>1. /\ tab' = [tab EXCEPT ![t] = after(q2)] \/ tab' = [tab EXCEPT ![t] = after(s.queue)]
      /\ saved' = Fresh /\ UNCHANGED <<storeVars, server>>
    BY Zenon DEF Reset
<1>2. /\ TabFits(s, turns, feedback, up) /\ IsTab(s, up)
      /\ s.log \in Seq(Entry) /\ s.queue \in Seq(Request)
      /\ s.ep \in Episodes \cup {0}
      /\ EndsFollow(s.queue, s.synced, turns)
      /\ s.waiting => s.queue # <<>>
    BY TabFacts DEF Browsers
<1>3. said = EventsOf(s.log) /\ said \subseteq Event
    BY <1>2, EventsAre
<1>4. end \in Request /\ end.kind = "finish" /\ end.said = said
    BY <1>2, <1>3 DEF Request
<1>5. /\ q1 \in Seq(Request) /\ EndsFollow(q1, s.synced, turns) /\ q1 # <<>>
      /\ s.queue # <<>> => q1[1] = s.queue[1]
      /\ q1[Len(q1)] = Upload(s.log)
    BY <1>2, UploadAppends
<1> HIDE DEF q1, end, said
<1>6. q1[Len(q1)].kind = "turns" /\ end.said \subseteq EventsOf(q1[Len(q1)].events)
    BY <1>3, <1>4, <1>5 DEF Upload
<1>7. /\ q2 \in Seq(Request) /\ q2 # <<>> /\ q2[1] = q1[1]
    BY <1>4, <1>5
<1>8. EndsFollow(q2, s.synced, turns)
    BY <1>4, <1>5, <1>6, EndsAppend
<1> HIDE DEF q2
<1>9. ASSUME NEW q \in Seq(Request), EndsFollow(q, s.synced, turns),
             s.queue # <<>> => q # <<>> /\ q[1] = s.queue[1],
             tab' = [tab EXCEPT ![t] = after(q)]
      PROVE  Browsers'
    <2>1. PICK s2 : s2 = after(q)
        OBVIOUS
    <2>2. s2 = [log |-> <<>>, ep |-> 0, step |-> 0, state |-> <<>>, queue |-> q,
                waiting |-> s.waiting, synced |-> s.synced]
        BY <2>1 DEF NewTab, Fresh
    <2>3. tab' = [tab EXCEPT ![t] = s2] /\ UNCHANGED <<turns, feedback, up, inbox, job>>
        BY <1>1, <1>9, <2>1 DEF storeVars, server
    <2> HIDE DEF after
    <2>4. Covered(<<>>, q, s.synced, turns, feedback)
        BY DEF Covered, Items
    <2>5. IsTab(s2, up)
        BY <1>2, <1>9, <2>2, FreshFits DEF IsTab, IsSession, Fresh
    <2>6. TabFits(s2, turns, feedback, up)
        BY <1>9, <2>2, <2>4, <2>5 DEF TabFits
    <2>7. s.waiting => s2.waiting /\ s2.queue[1] = s.queue[1]
        BY <1>2, <1>9, <2>2
    <2>8. TabsFit' /\ InboxFits' /\ JobsFit'
        BY <2>3, <2>6, <2>7, TabGoesOn
    <2>9. SavedFits'
        BY <1>1, FreshFits DEF SavedFits, Fresh
    <2>10. QED
        BY <2>8, <2>9 DEF Browsers
<1>10. CASE tab' = [tab EXCEPT ![t] = after(q2)]
    BY <1>5, <1>7, <1>8, <1>9, <1>10
<1>11. CASE tab' = [tab EXCEPT ![t] = after(s.queue)]
    BY <1>2, <1>9, <1>11
<1>12. QED
    BY <1>1, <1>10, <1>11

-----------------------------------------------------------------------------
(* Requests on their way *)

LEMMA ReloadStep ==
    ASSUME Browsers, JobOK, NEW t \in Tabs, Reload(t)
    PROVE  Browsers'
<1> DEFINE s == NewTab(Restored(saved))
<1>1. /\ tab' = [tab EXCEPT ![t] = s]
      /\ inbox' = [i \in DOMAIN inbox |-> IF inbox[i].from = t
                                          THEN [inbox[i] EXCEPT !.from = NoTab] ELSE inbox[i]]
      /\ job' = [w \in Writers |-> IF job[w] # NoJob /\ job[w].from = t
                                   THEN [job[w] EXCEPT !.from = NoTab] ELSE job[w]]
      /\ UNCHANGED <<turns, feedback, saved, up>>
    BY DEF Reload, storeVars
<1>2. IsSession(Restored(saved))
    BY FreshFits DEF Restored, Browsers, SavedFits, IsSession
<1>3. TabFits(s, turns, feedback, up)
    BY <1>2, NewTabFits
<1> HIDE DEF s
<1>4. TabsFit' /\ \A v \in Tabs : tab'[v] = IF v = t THEN s ELSE tab[v]
    BY <1>1, <1>3, OneTab DEF Browsers
<1>5. NoTab \notin Tabs
    BY TelemetryAssumption DEF NoTab
<1>6. /\ inbox \in Seq(Mail) /\ DOMAIN inbox = 1..Len(inbox) /\ Len(inbox) \in Nat
      /\ \A i \in 1..Len(inbox) : inbox[i] \in Mail
    BY DEF Browsers, InboxFits
<1>7. ASSUME NEW m \in Mail
      PROVE  /\ [m EXCEPT !.from = NoTab] \in Mail
             /\ [m EXCEPT !.from = NoTab].from = NoTab
             /\ [m EXCEPT !.from = NoTab].request = m.request
    BY DEF Mail
<1>8. ASSUME NEW i \in 1..Len(inbox)
      PROVE  /\ inbox'[i] \in Mail /\ inbox'[i].request = inbox[i].request
             /\ inbox'[i].from = IF inbox[i].from = t THEN NoTab ELSE inbox[i].from
    <2>1. inbox'[i] = IF inbox[i].from = t THEN [inbox[i] EXCEPT !.from = NoTab] ELSE inbox[i]
        BY <1>1, <1>6
    <2>2. CASE inbox[i].from # t
        BY <1>6, <2>1, <2>2
    <2>3. CASE inbox[i].from = t
        <3>1. PICK m \in Mail : m = inbox[i]
            BY <1>6
        <3>2. inbox'[i] = [m EXCEPT !.from = NoTab]
            BY <2>1, <2>3, <3>1
        <3>3. QED
            BY <1>7, <2>3, <3>1, <3>2
    <2>4. QED
        BY <2>2, <2>3
<1>9. inbox' \in Seq(Mail) /\ Len(inbox') = Len(inbox)
    <2>1. inbox' = [i \in 1..Len(inbox) |-> inbox'[i]]
        BY <1>1, <1>6
    <2>2. QED
        BY <1>6, <1>8, <2>1
<1>10. InboxFits'
    <2>1. Apart(inbox')
        BY <1>8, <1>9 DEF Browsers, InboxFits, Apart
    <2>2. ASSUME NEW i \in 1..Len(inbox)
          PROVE  /\ Awaits(tab', inbox'[i])
                 /\ inbox'[i].request.kind = "finish" => inbox'[i].request.said \subseteq turns
        <3>1. inbox'[i].from \in Tabs => /\ inbox'[i].from = inbox[i].from
                                         /\ tab'[inbox[i].from] = tab[inbox[i].from]
            BY <1>4, <1>5, <1>8
        <3>2. QED
            BY <1>8, <3>1 DEF Browsers, InboxFits, Awaits
    <2>3. QED
        BY <1>1, <1>9, <2>1, <2>2 DEF InboxFits
<1>11. ASSUME NEW w \in Writers
       PROVE  JobFits(w, job'[w], tab', inbox', turns, feedback)
    <2> DEFINE j == job[w]
    <2>1. job'[w] = IF j # NoJob /\ j.from = t THEN [j EXCEPT !.from = NoTab] ELSE j
        BY <1>1
    <2>2. JobFits(w, j, tab, inbox, turns, feedback) /\ IsJob(j)
        BY DEF Browsers, JobsFit, JobOK
    <2>3. CASE j # NoJob /\ j.from = t
        <3>1. PICK k : k = [j EXCEPT !.from = NoTab]
            OBVIOUS
        <3>2. /\ k.from = NoTab /\ k.kind = j.kind /\ k.pc = j.pc
              /\ k.kind = "turns" => k.todo = j.todo
              /\ k.kind = "finish" => k.said = j.said
            <4>1. CASE IsTurnsJob(j)
                BY <3>1, <4>1 DEF IsTurnsJob
            <4>2. CASE IsFinishJob(j)
                BY <3>1, <4>2 DEF IsFinishJob
            <4>3. QED
                BY <2>2, <2>3, <4>1, <4>2 DEF IsJob
        <3>3. Progress(k, turns, feedback)
            BY <2>2, <2>3, <3>2 DEF JobFits, Progress
        <3>4. QED
            BY <1>5, <2>1, <2>3, <3>1, <3>2, <3>3 DEF JobFits, Serves
    <2>4. CASE ~(j # NoJob /\ j.from = t)
        <3>1. j # NoJob /\ j.from \in Tabs =>
                /\ tab[j.from].waiting
                /\ tab'[j.from] = tab[j.from]
                /\ \A i \in 1..Len(inbox) : inbox[i].from # j.from
            BY <1>4, <2>4, JobAwaited DEF Browsers
        <3>2. j # NoJob /\ j.from \in Tabs => \A i \in 1..Len(inbox') : inbox'[i].from # j.from
            BY <1>5, <1>8, <1>9, <3>1
        <3>3. JobFits(w, j, tab', inbox', turns, feedback)
            BY <2>2, <3>1, <3>2, JobStillFits
        <3>4. QED
            BY <2>1, <2>4, <3>3
    <2>5. QED
        BY <2>3, <2>4
<1>12. SavedFits'
    BY <1>1 DEF Browsers, SavedFits
<1>13. QED
    BY <1>1, <1>4, <1>10, <1>11, <1>12 DEF Browsers, JobsFit

LEMMA SendStep ==
    ASSUME Browsers, NEW t \in Tabs, Send(t)
    PROVE  Browsers'
<1> DEFINE s == tab[t]
           r == Head(s.queue)
           m == [from |-> t, request |-> r]
<1>1. s.queue # <<>> /\ ~s.waiting /\ UNCHANGED <<turns, feedback, saved, job, up>>
    BY DEF Send, storeVars
<1>2. /\ TabFits(s, turns, feedback, up) /\ IsTab(s, up) /\ Shaped(s)
      /\ s.queue \in Seq(Request)
      /\ EndsFollow(s.queue, s.synced, turns)
    BY TabFacts DEF Browsers
<1>3. r = s.queue[1] /\ r \in Request /\ 1 \in 1..Len(s.queue)
    BY <1>1, <1>2, TailShape
<1>4. NoTab \notin Tabs
    BY TelemetryAssumption DEF NoTab
<1>5. /\ \A i \in 1..Len(inbox) : inbox[i].from # t
      /\ \A w \in Writers : job[w] # NoJob => job[w].from # t
    BY <1>1, MailAwaited, JobAwaited DEF Browsers
<1>6. SavedFits'
    BY <1>1 DEF Browsers, SavedFits
<1>7. CASE Answer(t, FALSE) /\ UNCHANGED inbox
    <2> HIDE DEF r
    <2>0. /\ t \in Tabs \cup {NoTab} /\ FALSE \in BOOLEAN
          /\ FALSE /\ tab[t].queue[1].kind = "turns" =>
               \A h \in Items(tab[t].queue[1].events) : Stored(h, turns, feedback)
        OBVIOUS
    <2>1. TabsFit' /\ \A v \in Tabs : v # t => tab'[v] = tab[v]
        BY <1>1, <1>7, <2>0, Answered
    <2>2. InboxFits'
        BY <1>1, <1>5, <1>7, <2>1, InboxKept, MailAwaited DEF Browsers, Grows
    <2>3. ASSUME NEW w \in Writers
          PROVE  JobFits(w, job[w], tab', inbox, turns, feedback)
        <3>1. JobFits(w, job[w], tab, inbox, turns, feedback)
            BY DEF Browsers, JobsFit
        <3>2. job[w] # NoJob /\ job[w].from \in Tabs =>
                /\ tab'[job[w].from].waiting
                /\ tab'[job[w].from].queue[1] = tab[job[w].from].queue[1]
                /\ \A i \in 1..Len(inbox) : inbox[i].from # job[w].from
            BY <1>5, <2>1, JobAwaited DEF Browsers
        <3>3. QED
            BY <3>1, <3>2, JobStillFits
    <2>4. QED
        BY <1>1, <1>6, <1>7, <2>1, <2>2, <2>3 DEF Browsers, JobsFit
<1>8. CASE /\ up /\ (r.kind = "finish" => s.synced)
           /\ inbox' = Append(inbox, m)
           /\ tab' = [tab EXCEPT ![t].waiting = TRUE]
    <2>1. PICK s2 : s2 = [s EXCEPT !.waiting = TRUE]
        OBVIOUS
    <2>2. /\ Shaped(s2) /\ s2.log = s.log /\ s2.ep = s.ep /\ s2.queue = s.queue
          /\ s2.waiting = TRUE /\ s2.synced = s.synced
        BY <1>2, <2>1 DEF Shaped
    <2>3. TabFits(s2, turns, feedback, up)
        BY <1>1, <1>2, <1>8, <2>2 DEF TabFits, IsTab, IsSession, Shaped
    <2>4. tab' = [tab EXCEPT ![t] = s2]
        BY <1>8, <2>1
    <2>5. TabsFit' /\ \A v \in Tabs : tab'[v] = IF v = t THEN s2 ELSE tab[v]
        BY <1>1, <2>3, <2>4, OneTab DEF Browsers
    <2>6. m \in Mail /\ m.from = t /\ m.request = r
        BY <1>3 DEF Mail
    <2>7. inbox \in Seq(Mail) /\ Apart(inbox)
        BY DEF Browsers, InboxFits
    <2> HIDE DEF m, s, r
    <2>8. /\ inbox' \in Seq(Mail) /\ Len(inbox) \in Nat /\ Len(inbox') = Len(inbox) + 1
          /\ \A i \in 1..Len(inbox) : inbox'[i] = inbox[i]
          /\ inbox'[Len(inbox) + 1] = m
        BY <1>8, <2>6, <2>7, AppendShape
    <2>9. \A i \in 1..Len(inbox') : i \in 1..Len(inbox) \/ i = Len(inbox) + 1
        BY <2>8
    <2>10. Apart(inbox')
        BY <1>5, <2>6, <2>7, <2>8, <2>9 DEF Apart
    <2>11. r.kind = "finish" => r.said \subseteq turns
        BY <1>2, <1>3, <1>8 DEF EndsFollow
    <2>12. ASSUME NEW i \in 1..Len(inbox')
           PROVE  /\ Awaits(tab', inbox'[i])
                  /\ inbox'[i].request.kind = "finish" => inbox'[i].request.said \subseteq turns
        <3>1. CASE i \in 1..Len(inbox)
            <4>1. inbox[i].from \in Tabs => tab'[inbox[i].from] = tab[inbox[i].from]
                BY <1>5, <2>5, <3>1
            <4>2. QED
                BY <2>8, <3>1, <4>1 DEF Browsers, InboxFits, Awaits
        <3>2. CASE i = Len(inbox) + 1
            BY <1>3, <2>2, <2>5, <2>6, <2>8, <2>11, <3>2 DEF Awaits
        <3>3. QED
            BY <2>9, <3>1, <3>2
    <2>13. InboxFits'
        BY <1>1, <2>8, <2>10, <2>12 DEF InboxFits
    <2>14. ASSUME NEW w \in Writers
           PROVE  JobFits(w, job[w], tab', inbox', turns, feedback)
        <3>1. JobFits(w, job[w], tab, inbox, turns, feedback)
            BY DEF Browsers, JobsFit
        <3>2. job[w] # NoJob /\ job[w].from \in Tabs =>
                /\ tab'[job[w].from].waiting
                /\ tab'[job[w].from].queue[1] = tab[job[w].from].queue[1]
                /\ \A i \in 1..Len(inbox') : inbox'[i].from # job[w].from
            BY <1>5, <2>5, <2>6, <2>8, <2>9, JobAwaited DEF Browsers
        <3>3. QED
            BY <3>1, <3>2, JobStillFits
    <2>15. QED
        BY <1>1, <1>6, <2>5, <2>13, <2>14 DEF Browsers, JobsFit
<1>9. QED
    BY <1>7, <1>8 DEF Send

\* The collector takes the first request out of its inbox.
LEMMA Taken ==
    ASSUME Browsers, inbox # <<>>, inbox' = Tail(inbox)
    PROVE  /\ Head(inbox) = inbox[1] /\ inbox[1] \in Mail /\ 1 \in 1..Len(inbox)
           /\ inbox' \in Seq(Mail) /\ Apart(inbox')
           /\ \A i \in 1..Len(inbox') : /\ i + 1 \in 1..Len(inbox) /\ inbox'[i] = inbox[i + 1]
                                        /\ inbox[1].from \in Tabs => inbox'[i].from # inbox[1].from
<1>1. inbox \in Seq(Mail) /\ Apart(inbox) /\ NoTab \notin Tabs
    BY TelemetryAssumption DEF Browsers, InboxFits, NoTab
<1>2. /\ Len(inbox) \in Nat \ {0} /\ inbox[1] \in Mail /\ Head(inbox) = inbox[1]
      /\ inbox' \in Seq(Mail) /\ Len(inbox') = Len(inbox) - 1
      /\ \A i \in 1..(Len(inbox) - 1) : inbox'[i] = inbox[i + 1]
    BY <1>1, TailShape
<1>3. \A i \in 1..Len(inbox') : i \in 1..(Len(inbox) - 1) /\ i + 1 \in 1..Len(inbox) /\ i + 1 # 1
    BY <1>2
<1>4. 1 \in 1..Len(inbox)
    BY <1>2
<1>5. \A i, k \in 1..Len(inbox') : i + 1 = k + 1 => i = k
    BY <1>2
<1>6. Apart(inbox')
    BY <1>1, <1>2, <1>3, <1>5 DEF Apart
<1>7. QED
    BY <1>1, <1>2, <1>3, <1>4, <1>6 DEF Apart

LEMMA AcceptStep ==
    ASSUME Browsers, JobOK, Accept
    PROVE  Browsers'
<1> DEFINE m == inbox[1]
           from == m.from
           r == m.request
<1>1. /\ inbox # <<>> /\ job["server"] = NoJob /\ inbox' = Tail(inbox)
      /\ UNCHANGED <<turns, feedback, saved, up>>
    BY DEF Accept, storeVars
<1>2. /\ Head(inbox) = m /\ m \in Mail /\ 1 \in 1..Len(inbox)
      /\ inbox' \in Seq(Mail) /\ Apart(inbox')
      /\ \A i \in 1..Len(inbox') : /\ i + 1 \in 1..Len(inbox) /\ inbox'[i] = inbox[i + 1]
                                   /\ from \in Tabs => inbox'[i].from # from
    BY <1>1, Taken
<1>3. from \in Tabs \cup {NoTab} /\ r \in Request
    BY <1>2 DEF Mail
<1>4. \/ /\ r.kind = "finish"
         /\ job' = [job EXCEPT !["server"] = FinishJob(r.ep, "browser_reset", r.said, from)]
         /\ tab' = tab
      \/ Answer(from, FALSE) /\ job' = job
      \/ /\ r.kind # "finish"
         /\ job' = [job EXCEPT !["server"] = TurnsJob(r.events, from)]
         /\ tab' = tab
    BY <1>2 DEF Accept
<1>5. /\ from \in Tabs => tab[from].waiting /\ tab[from].queue[1] = r
      /\ r.kind = "finish" => r.said \subseteq turns
    BY <1>2 DEF Browsers, InboxFits, Awaits
<1>6. SavedFits'
    BY <1>1 DEF Browsers, SavedFits
<1>7. ASSUME \A t \in Tabs : t # from => tab'[t] = tab[t]
      PROVE  /\ InboxFits'
             /\ JobFits("cli", job["cli"], tab', inbox', turns, feedback)
    <2>1. ASSUME NEW i \in 1..Len(inbox')
          PROVE  /\ Awaits(tab', inbox'[i])
                 /\ inbox'[i].request.kind = "finish" => inbox'[i].request.said \subseteq turns
        <3>1. /\ Awaits(tab, inbox'[i])
              /\ inbox'[i].request.kind = "finish" => inbox'[i].request.said \subseteq turns
            BY <1>2 DEF Browsers, InboxFits
        <3>2. inbox'[i].from \in Tabs => tab'[inbox'[i].from] = tab[inbox'[i].from]
            BY <1>2, <1>7
        <3>3. QED
            BY <3>1, <3>2 DEF Awaits
    <2>2. JobFits("cli", job["cli"], tab, inbox, turns, feedback)
        BY DEF Browsers, JobsFit, Writers
    <2>3. job["cli"] # NoJob => job["cli"].from = NoTab /\ NoTab \notin Tabs
        BY <2>2, TelemetryAssumption DEF JobFits, NoTab
    <2>4. JobFits("cli", job["cli"], tab', inbox', turns, feedback)
        BY <2>2, <2>3, JobStillFits
    <2>5. QED
        BY <1>1, <1>2, <2>1, <2>4 DEF InboxFits
<1>8. ASSUME NEW j, job' = [job EXCEPT !["server"] = j], tab' = tab,
             JobFits("server", j, tab, inbox', turns, feedback)
      PROVE  Browsers'
    <2>1. job'["server"] = j /\ job'["cli"] = job["cli"]
        BY <1>8 DEF JobOK, Writers
    <2>2. TabsFit'
        BY <1>1, <1>8 DEF Browsers, TabsFit
    <2>3. QED
        BY <1>1, <1>6, <1>7, <1>8, <2>1, <2>2 DEF Browsers, JobsFit, Writers
<1> HIDE DEF from, r
<1>9. CASE /\ r.kind = "finish"
           /\ job' = [job EXCEPT !["server"] = FinishJob(r.ep, "browser_reset", r.said, from)]
           /\ tab' = tab
    <2>1. PICK j : j = FinishJob(r.ep, "browser_reset", r.said, from)
        OBVIOUS
    <2>2. j.kind = "finish" /\ j.from = from /\ j.said = r.said
        BY <2>1 DEF FinishJob
    <2>3. JobFits("server", j, tab, inbox', turns, feedback)
        BY <1>2, <1>3, <1>5, <1>9, <2>2 DEF JobFits, Progress, Serves, from
    <2>4. QED
        BY <1>8, <1>9, <2>1, <2>3
<1>10. CASE /\ r.kind # "finish"
            /\ job' = [job EXCEPT !["server"] = TurnsJob(r.events, from)]
            /\ tab' = tab
    <2>1. PICK j : j = TurnsJob(r.events, from)
        OBVIOUS
    <2>2. j.kind = "turns" /\ j.pc = "look" /\ j.from = from /\ j.todo = r.events
        BY <2>1 DEF TurnsJob
    <2>3. r.kind = "turns" /\ r.events \in Seq(Entry)
        BY <1>3, <1>10 DEF Request
    <2>4. Done(r.events, r.events, turns, feedback)
        BY DEF Done
    <2>5. JobFits("server", j, tab, inbox', turns, feedback)
        BY <1>2, <1>3, <1>5, <2>2, <2>3, <2>4 DEF JobFits, Progress, Serves, from
    <2>6. QED
        BY <1>8, <1>10, <2>1, <2>5
<1>11. CASE Answer(from, FALSE) /\ job' = job
    <2>1. from \in Tabs => tab[from].queue # <<>>
        BY <1>5 DEF Browsers, TabsFit, TabFits, IsTab
    <2>2. TabsFit' /\ \A t \in Tabs : t # from => tab'[t] = tab[t]
        BY <1>1, <1>3, <1>11, <2>1, Answered
    <2>3. JobFits("server", NoJob, tab', inbox', turns, feedback)
        BY DEF JobFits
    <2>4. QED
        BY <1>1, <1>6, <1>7, <1>11, <2>2, <2>3 DEF Browsers, JobsFit, Writers
<1>12. QED
    BY <1>4, <1>9, <1>10, <1>11

-----------------------------------------------------------------------------
(* The writers *)

\* A call of a writer that goes on keeps what it is for.
LEMMA GoesOnShape ==
    ASSUME NEW j, IsTurnsJob(j), NEW pc, NEW k, k = [j EXCEPT !.pc = pc]
    PROVE  /\ k # NoJob /\ k.pc = pc /\ k.kind = "turns" /\ k.todo = j.todo /\ k.from = j.from
           /\ k = [pc |-> k.pc, kind |-> "turns", todo |-> k.todo, from |-> k.from]
<1>1. /\ k.pc = pc /\ k.kind = "turns" /\ k.todo = j.todo /\ k.from = j.from
      /\ k = [pc |-> k.pc, kind |-> "turns", todo |-> k.todo, from |-> k.from]
    BY DEF IsTurnsJob
<1>2. QED
    BY <1>1 DEF NoJob

GoneOn(j, pc, rest) == [j EXCEPT !.pc = pc, !.todo = rest]

LEMMA GoesOnShapeTo ==
    ASSUME NEW j, IsTurnsJob(j), NEW pc, NEW rest, NEW k, k = GoneOn(j, pc, rest)
    PROVE  k # NoJob /\ k.pc = pc /\ k.kind = "turns" /\ k.todo = rest /\ k.from = j.from
<1>1. PICK a : a = [j EXCEPT !.pc = pc]
    OBVIOUS
<1>2. PICK b : b = [a EXCEPT !.todo = rest]
    OBVIOUS
<1>3. /\ a.pc = pc /\ a.from = j.from
      /\ a = [pc |-> a.pc, kind |-> "turns", todo |-> a.todo, from |-> a.from]
    BY <1>1, GoesOnShape
<1>4. /\ b.pc = pc /\ b.kind = "turns" /\ b.todo = rest /\ b.from = j.from
      /\ b = [pc |-> b.pc, kind |-> "turns", todo |-> b.todo, from |-> b.from]
    BY <1>2, <1>3
<1>5. k = b
    BY <1>1, <1>2, Zenon DEF GoneOn
<1>6. b # NoJob
    BY <1>4 DEF NoJob
<1>7. QED
    BY <1>4, <1>5, <1>6

LEMMA TurnsJobFacts ==
    ASSUME Browsers, JobOK, NEW w \in Writers, IsTurnsJob(job[w])
    PROVE  /\ job[w] # NoJob /\ job[w].kind = "turns"
           /\ job[w].from \in Tabs \cup {NoTab} /\ (w = "cli" => job[w].from = NoTab)
           /\ job[w].todo \in Seq(Entry) /\ (job[w].pc # "look" => job[w].todo # <<>>)
           /\ job[w].pc \in {"flags", "candidate"} => job[w].todo[1].ev \in turns
           /\ job[w].pc = "candidate" => MarkIn(job[w].todo[1], "incorrect", feedback)
           /\ Serves(job[w], tab, inbox, turns, feedback)
<1>1. job[w] # NoJob /\ job[w].kind = "turns"
    BY DEF IsTurnsJob, NoJob
<1>2. QED
    BY <1>1 DEF Browsers, JobsFit, JobFits, Progress

\* It still fits when it goes on, if what it leaves behind is stored.
LEMMA TurnsJobFits ==
    ASSUME Browsers, JobOK, NEW w \in Writers, IsTurnsJob(job[w]), Grows,
           NEW j, j # NoJob, j.kind = "turns", j.from = job[w].from, j.todo \in Seq(Entry),
           j.pc # "look" => j.todo # <<>>,
           j.pc \in {"flags", "candidate"} => j.todo[1].ev \in turns',
           j.pc = "candidate" => MarkIn(j.todo[1], "incorrect", feedback'),
           \A h \in Items(job[w].todo) : h \in Items(j.todo) \/ Stored(h, turns', feedback')
    PROVE  JobFits(w, j, tab, inbox, turns', feedback')
<1> DEFINE from == j.from
<1>1. /\ from \in Tabs \cup {NoTab} /\ (w = "cli" => from = NoTab)
      /\ job[w].kind = "turns"
      /\ Serves(job[w], tab, inbox, turns, feedback)
    BY TurnsJobFacts
<1>2. Progress(j, turns', feedback')
    BY DEF Progress
<1>3. ASSUME NEW events, Done(events, job[w].todo, turns, feedback)
      PROVE  Done(events, j.todo, turns', feedback')
    BY <1>3, StoredGrows DEF Done, Grows
<1>4. Serves(j, tab, inbox, turns', feedback')
    BY <1>1, <1>3 DEF Serves
<1>5. QED
    BY <1>1, <1>2, <1>4 DEF JobFits

LEMMA LookStep ==
    ASSUME Browsers, JobOK, NEW w \in Writers, Look(w)
    PROVE  Browsers'
<1> DEFINE j == job[w]
<1>1. IsTurnsJob(j)
    BY JobAt DEF Look, JobOK
<1>2. /\ j # NoJob /\ j.kind = "turns" /\ j.todo \in Seq(Entry)
    BY <1>1, TurnsJobFacts
<1>3. UNCHANGED <<turns, feedback, saved, inbox, up>>
    BY DEF Look, storeVars
<1>4. CASE j.todo = <<>> /\ End(w, TRUE)
    <2>1. TRUE \in BOOLEAN
        OBVIOUS
    <2>2. QED
        BY <1>2, <1>3, <1>4, <2>1, WriterEnds
<1>5. CASE End(w, FALSE)
    <2>1. FALSE \in BOOLEAN
        OBVIOUS
    <2>2. QED
        BY <1>2, <1>3, <1>5, <2>1, WriterEnds
<1>6. ASSUME NEW pc \in {"flags", "insert"}, j.todo # <<>>,
             pc = "flags" => Head(j.todo).ev \in turns,
             job' = [job EXCEPT ![w].pc = pc], UNCHANGED tab
      PROVE  Browsers'
    <2> PICK z : z = j
        OBVIOUS
    <2>1. PICK k : k = [z EXCEPT !.pc = pc]
        OBVIOUS
    <2>2. k # NoJob /\ k.pc = pc /\ k.kind = "turns" /\ k.todo = j.todo /\ k.from = j.from
        <3>1. IsTurnsJob(z)
            BY <1>1
        <3> HIDE DEF j
        <3>2. QED
            BY <2>1, <3>1, GoesOnShape
    <2>3. job' = [job EXCEPT ![w] = k]
        BY <1>6, <2>1
    <2>4. Head(j.todo) = j.todo[1]
        BY <1>2, <1>6, TailShape
    <2>5. JobFits(w, k, tab, inbox, turns', feedback')
        <3>1. Grows
            BY <1>3 DEF Grows
        <3>2. \A h \in Items(j.todo) : h \in Items(k.todo) \/ Stored(h, turns', feedback')
            BY <2>2
        <3>3. k.pc = "flags" => k.todo[1].ev \in turns'
            BY <1>3, <1>6, <2>2, <2>4
        <3> HIDE DEF j
        <3>4. QED
            BY <1>1, <1>2, <1>6, <2>2, <3>1, <3>2, <3>3, TurnsJobFits DEF j
    <2>6. QED
        BY <1>3, <1>6, <2>3, <2>5, WriterGoesOn DEF Grows
<1>7. Lookup(Head(j.todo).ev) = "same" => Head(j.todo).ev \in turns
    BY DEF Lookup
<1>8. CASE j.todo # <<>> /\ ~End(w, FALSE)
    <2>1. job' = [job EXCEPT ![w].pc = IF Lookup(Head(j.todo).ev) = "same" THEN "flags"
                                       ELSE "insert"] /\ UNCHANGED tab
        BY <1>8 DEF Look
    <2>2. CASE Lookup(Head(j.todo).ev) = "same"
        BY <1>6, <1>7, <1>8, <2>1, <2>2
    <2>3. CASE Lookup(Head(j.todo).ev) # "same"
        BY <1>6, <1>8, <2>1, <2>3
    <2>4. QED
        BY <2>2, <2>3
<1>9. QED
    BY <1>4, <1>5, <1>8 DEF Look

LEMMA InsertStep ==
    ASSUME Browsers, JobOK, NEW w \in Writers, Insert(w)
    PROVE  Browsers'
<1> DEFINE j == job[w]
<1>1. IsTurnsJob(j) /\ j.pc = "insert"
    BY JobAt DEF Insert, JobOK
<1>2. j # NoJob /\ j.kind = "turns" /\ j.todo \in Seq(Entry) /\ j.todo # <<>>
    BY <1>1, TurnsJobFacts
<1>3. UNCHANGED <<saved, inbox, up>>
    BY DEF Insert
<1>4. Head(j.todo) = j.todo[1]
    BY <1>2, TailShape
<1>5. CASE End(w, FALSE) /\ UNCHANGED storeVars
    <2>1. FALSE \in BOOLEAN /\ UNCHANGED <<turns, feedback>>
        BY <1>5 DEF storeVars
    <2>2. QED
        BY <1>2, <1>3, <1>5, <2>1, WriterEnds
<1>6. CASE /\ RecordTx(Head(j.todo).ev)
           /\ job' = [job EXCEPT ![w].pc = "flags"] /\ UNCHANGED tab
    <2>1. turns' = turns \cup {j.todo[1].ev} /\ feedback' = feedback
        BY <1>4, <1>6 DEF RecordTx
    <2> PICK z : z = j
        OBVIOUS
    <2>2. PICK k : k = [z EXCEPT !.pc = "flags"]
        OBVIOUS
    <2>3. k # NoJob /\ k.pc = "flags" /\ k.kind = "turns" /\ k.todo = j.todo /\ k.from = j.from
        <3>1. IsTurnsJob(z)
            BY <1>1
        <3> HIDE DEF j
        <3>2. QED
            BY <2>2, <3>1, GoesOnShape
    <2>4. job' = [job EXCEPT ![w] = k]
        BY <1>6, <2>2
    <2>5. Grows
        BY <2>1 DEF Grows
    <2>6. JobFits(w, k, tab, inbox, turns', feedback')
        <3>1. \A h \in Items(j.todo) : h \in Items(k.todo) \/ Stored(h, turns', feedback')
            BY <2>3
        <3>2. k.pc = "flags" => k.todo[1].ev \in turns'
            BY <2>1, <2>3
        <3> HIDE DEF j
        <3>3. QED
            BY <1>1, <1>2, <2>3, <2>5, <3>1, <3>2, TurnsJobFits DEF j
    <2>7. QED
        BY <1>3, <1>6, <2>4, <2>5, <2>6, WriterGoesOn
<1>7. QED
    BY <1>5, <1>6 DEF Insert

\* One feedback row is stored, or ends the batch.
LEMMA FlagsStep ==
    ASSUME Browsers, JobOK, NEW w \in Writers, Flags(w)
    PROVE  Browsers'
<1> DEFINE j == job[w]
           h == Head(j.todo)
           f == [turn |-> h.ev.id, kind |-> "incorrect"]
<1>1. IsTurnsJob(j) /\ j.pc = "flags"
    BY JobAt DEF Flags, Feed, JobOK
<1>2. /\ j # NoJob /\ j.kind = "turns" /\ j.todo \in Seq(Entry) /\ j.todo # <<>>
      /\ j.todo[1].ev \in turns
    BY <1>1, TurnsJobFacts
<1>3. UNCHANGED <<turns, saved, inbox, up>>
    BY DEF Flags, Feed
<1>4. h = j.todo[1]
    BY <1>2, TailShape
<1>5. CASE End(w, FALSE) /\ UNCHANGED feedback
    <2>1. FALSE \in BOOLEAN
        OBVIOUS
    <2>2. QED
        BY <1>2, <1>3, <1>5, <2>1, WriterEnds
<1>6. CASE /\ feedback' = IF "incorrect" \in h.fb THEN feedback \cup {f} ELSE feedback
           /\ job' = [job EXCEPT ![w].pc = "candidate"] /\ UNCHANGED tab
    <2> PICK z : z = j
        OBVIOUS
    <2>1. PICK k : k = [z EXCEPT !.pc = "candidate"]
        OBVIOUS
    <2>2. /\ k # NoJob /\ k.pc = "candidate" /\ k.kind = "turns" /\ k.todo = j.todo
          /\ k.from = j.from
        <3>1. IsTurnsJob(z)
            BY <1>1
        <3> HIDE DEF j
        <3>2. QED
            BY <2>1, <3>1, GoesOnShape
    <2>3. job' = [job EXCEPT ![w] = k]
        BY <1>6, <2>1
    <2>4. Grows
        BY <1>3, <1>6 DEF Grows
    <2>5. JobFits(w, k, tab, inbox, turns', feedback')
        <3>1. \A g \in Items(j.todo) : g \in Items(k.todo) \/ Stored(g, turns', feedback')
            BY <2>2
        <3>2. k.pc \in {"flags", "candidate"} => k.todo[1].ev \in turns'
            BY <1>2, <1>3, <2>2
        <3>3. MarkIn(k.todo[1], "incorrect", feedback')
            BY <1>4, <1>6, <2>2 DEF MarkIn
        <3> HIDE DEF j, h, f
        <3>4. QED
            BY <1>1, <1>2, <2>2, <2>4, <3>1, <3>2, <3>3, TurnsJobFits DEF j
    <2>6. QED
        BY <1>3, <1>6, <2>3, <2>4, <2>5, WriterGoesOn
<1>7. QED
    BY <1>5, <1>6 DEF Flags, Feed

LEMMA CandidateStep ==
    ASSUME Browsers, JobOK, NEW w \in Writers, Candidate(w)
    PROVE  Browsers'
<1> DEFINE j == job[w]
           h == Head(j.todo)
           f == [turn |-> h.ev.id, kind |-> "correction_candidate"]
<1>1. IsTurnsJob(j) /\ j.pc = "candidate"
    BY JobAt DEF Candidate, Feed, JobOK
<1>2. /\ j # NoJob /\ j.kind = "turns" /\ j.todo \in Seq(Entry) /\ j.todo # <<>>
      /\ j.todo[1].ev \in turns /\ MarkIn(j.todo[1], "incorrect", feedback)
    BY <1>1, TurnsJobFacts
<1>3. UNCHANGED <<turns, saved, inbox, up>>
    BY DEF Candidate, Feed
<1>4. h = j.todo[1] /\ Tail(j.todo) \in Seq(Entry) /\ h \in Entry
    BY <1>2, TailShape
<1>5. CASE End(w, FALSE) /\ UNCHANGED feedback
    <2>1. FALSE \in BOOLEAN
        OBVIOUS
    <2>2. QED
        BY <1>2, <1>3, <1>5, <2>1, WriterEnds
<1>6. CASE /\ feedback' = IF "correction_candidate" \in h.fb THEN feedback \cup {f} ELSE feedback
           /\ job' = [job EXCEPT ![w].pc = "look", ![w].todo = Tail(@)] /\ UNCHANGED tab
    <2> PICK z : z = j
        OBVIOUS
    <2>0. PICK rest : rest = Tail(j.todo)
        OBVIOUS
    <2>1. PICK k : k = GoneOn(z, "look", rest)
        OBVIOUS
    <2>2. /\ k # NoJob /\ k.pc = "look" /\ k.kind = "turns" /\ k.todo = Tail(j.todo)
          /\ k.from = j.from
        <3>1. IsTurnsJob(z)
            BY <1>1
        <3>2. k # NoJob /\ k.pc = "look" /\ k.kind = "turns" /\ k.todo = rest /\ k.from = z.from
            BY <2>1, <3>1, GoesOnShapeTo
        <3>3. QED
            BY <2>0, <3>2
    <2>3. job' = [job EXCEPT ![w] = k]
        BY <1>1, <1>6, <2>0, <2>1 DEF IsTurnsJob, JobOK, GoneOn
    <2>4. Grows
        BY <1>3, <1>6 DEF Grows
    <2>5. Stored(h, turns', feedback')
        <3>1. h.ev \in turns' /\ h.fb \subseteq Marks
            BY <1>2, <1>3, <1>4 DEF Entry
        <3>2. MarkIn(h, "incorrect", feedback') /\ MarkIn(h, "correction_candidate", feedback')
            BY <1>2, <1>4, <1>6 DEF MarkIn
        <3> HIDE DEF h
        <3>3. QED
            BY <3>1, <3>2 DEF Stored, MarkIn, Marks
    <2>6. JobFits(w, k, tab, inbox, turns', feedback')
        <3>1. \A g \in Items(j.todo) : g \in Items(k.todo) \/ Stored(g, turns', feedback')
            BY <1>2, <1>4, <2>2, <2>5, ItemsOfTail
        <3> HIDE DEF j, h, f
        <3>2. QED
            BY <1>1, <1>4, <2>2, <2>4, <3>1, TurnsJobFits DEF j
    <2>7. QED
        BY <1>3, <1>6, <2>3, <2>4, <2>6, WriterGoesOn
<1>7. QED
    BY <1>5, <1>6 DEF Candidate, Feed

LEMMA FinishJobFacts ==
    ASSUME Browsers, JobOK, NEW w \in Writers, IsFinishJob(job[w])
    PROVE  /\ job[w] # NoJob /\ job[w].kind = "finish"
           /\ JobFits(w, job[w], tab, inbox, turns, feedback)
<1>1. job[w] # NoJob /\ job[w].kind = "finish"
    BY DEF IsFinishJob, NoJob
<1>2. QED
    BY <1>1 DEF Browsers, JobsFit

LEMMA FinishSteps ==
    ASSUME Browsers, JobOK, NEW w \in Writers, Check(w) \/ Close(w)
    PROVE  Browsers'
<1> DEFINE j == job[w]
<1>1. IsFinishJob(j)
    BY JobAt DEF Check, Close, JobOK
<1>2. j # NoJob /\ j.kind = "finish" /\ JobFits(w, j, tab, inbox, turns, feedback)
    BY <1>1, FinishJobFacts
<1>3. UNCHANGED <<turns, feedback, saved, inbox, up>>
    BY DEF Check, Close, FinishTx, storeVars
<1>4. ASSUME NEW ok \in BOOLEAN, End(w, ok)
      PROVE  Browsers'
    BY <1>2, <1>3, <1>4, WriterEnds
<1>5. CASE job' = [job EXCEPT ![w].pc = "write"] /\ UNCHANGED tab
    <2>1. PICK k : k = [j EXCEPT !.pc = "write"]
        OBVIOUS
    <2>2. k # NoJob /\ k.kind = "finish" /\ k.said = j.said /\ k.from = j.from
        BY <1>1, <2>1 DEF IsFinishJob, NoJob
    <2>3. job' = [job EXCEPT ![w] = k]
        BY <1>5, <2>1
    <2>4. JobFits(w, k, tab, inbox, turns', feedback')
        BY <1>2, <1>3, <2>2 DEF JobFits, Progress, Serves
    <2>5. QED
        BY <1>3, <1>5, <2>3, <2>4, WriterGoesOn DEF Grows
<1>6. QED
    BY <1>4, <1>5 DEF Check, Close

\* The command line starts: nobody waits for it.
LEMMA CliStarts ==
    ASSUME Browsers, JobOK, NEW j, job' = [job EXCEPT !["cli"] = j],
           j # NoJob => j.from = NoTab /\ Progress(j, turns, feedback),
           UNCHANGED <<turns, feedback, tab, saved, inbox, up>>
    PROVE  Browsers'
<1>1. NoTab \notin Tabs
    BY TelemetryAssumption DEF NoTab
<1>2. JobFits("cli", j, tab, inbox, turns', feedback')
    BY <1>1 DEF JobFits, Serves
<1>3. "cli" \in Writers /\ Grows
    BY DEF Writers, Grows
<1>4. QED
    BY <1>2, <1>3, WriterGoesOn

LEMMA ImportStep ==
    ASSUME Browsers, JobOK, NEW t \in Tabs, Import(t)
    PROVE  Browsers'
<1>1. tab[t].log \in Seq(Entry)
    BY TabFacts DEF Browsers
<1>2. PICK j : j = TurnsJob(tab[t].log, NoTab)
    OBVIOUS
<1>3. j.from = NoTab /\ Progress(j, turns, feedback)
    BY <1>1, <1>2 DEF TurnsJob, Progress
<1>4. job' = [job EXCEPT !["cli"] = j] /\ UNCHANGED <<turns, feedback, tab, saved, inbox, up>>
    BY <1>2 DEF Import, storeVars, browser
<1>5. QED
    BY <1>3, <1>4, CliStarts

LEMMA TerminateStep ==
    ASSUME Browsers, JobOK, NEW ep, Terminate(ep)
    PROVE  Browsers'
<1>1. PICK j : j = FinishJob(ep, "terminated", {}, NoTab)
    OBVIOUS
<1>2. j.from = NoTab /\ Progress(j, turns, feedback)
    BY <1>1 DEF FinishJob, Progress
<1>3. job' = [job EXCEPT !["cli"] = j] /\ UNCHANGED <<turns, feedback, tab, saved, inbox, up>>
    BY <1>1 DEF Terminate, storeVars, browser
<1>4. QED
    BY <1>2, <1>3, CliStarts

LEMMA CliDiesStep ==
    ASSUME Browsers, JobOK, CliDies
    PROVE  Browsers'
<1>1. UNCHANGED <<turns, feedback, tab, saved, inbox, up>>
    BY DEF CliDies, storeVars, browser
<1>2. CASE job' = job
    BY <1>1, <1>2, Elsewhere DEF Grows
<1>3. CASE job' = [job EXCEPT !["cli"] = NoJob]
    BY <1>1, <1>3, CliStarts
<1>4. QED
    BY <1>2, <1>3 DEF CliDies

LEMMA CollectorDiesStep ==
    ASSUME Browsers, JobOK, CollectorDies
    PROVE  Browsers'
<1>1. /\ up' = FALSE /\ inbox' = <<>> /\ job' = [job EXCEPT !["server"] = NoJob]
      /\ tab' = [t \in Tabs |-> IF tab[t].waiting THEN Settled(tab[t], FALSE) ELSE tab[t]]
      /\ UNCHANGED <<turns, feedback, saved>>
    BY DEF CollectorDies, storeVars
<1>2. ASSUME NEW t \in Tabs
      PROVE  TabFits(tab'[t], turns, feedback, FALSE)
    <2>1. TabFits(tab[t], turns, feedback, up) /\ (tab[t].waiting => tab[t].queue # <<>>)
        BY TabFacts DEF Browsers
    <2>2. CASE tab[t].waiting
        <3>1. FALSE \in BOOLEAN
              /\ (FALSE /\ tab[t].queue[1].kind = "turns" =>
                    \A h \in Items(tab[t].queue[1].events) : Stored(h, turns, feedback))
            OBVIOUS
        <3>2. TabFits(Settled(tab[t], FALSE), turns, feedback, FALSE)
            BY <2>1, <2>2, <3>1, SettledFits
        <3>3. QED
            BY <1>1, <2>2, <3>2
    <2>3. CASE ~tab[t].waiting
        <3>1. TabFits(tab[t], turns, feedback, FALSE)
            BY <2>1, <2>3, TabGrows
        <3>2. QED
            BY <1>1, <2>3, <3>1
    <2>4. QED
        BY <2>2, <2>3
<1>3. TabsFit'
    BY <1>1, <1>2 DEF TabsFit
<1>4. SavedFits'
    BY <1>1 DEF Browsers, SavedFits
<1>5. InboxFits'
    BY <1>1 DEF InboxFits, Apart
<1>6. job'["server"] = NoJob /\ job'["cli"] = job["cli"]
    BY <1>1 DEF JobOK, Writers
<1>7. JobFits("server", NoJob, tab', inbox', turns', feedback')
    BY DEF JobFits
<1>8. JobFits("cli", job["cli"], tab', inbox', turns', feedback')
    <2>1. JobFits("cli", job["cli"], tab, inbox, turns, feedback)
        BY DEF Browsers, JobsFit, Writers
    <2>2. job["cli"] # NoJob => job["cli"].from = NoTab /\ NoTab \notin Tabs
        BY <2>1, TelemetryAssumption DEF JobFits, NoTab
    <2>3. QED
        BY <1>1, <2>1, <2>2, JobStillFits
<1>9. QED
    BY <1>3, <1>4, <1>5, <1>6, <1>7, <1>8 DEF Browsers, JobsFit, Writers

-----------------------------------------------------------------------------
(* Every step keeps what browsers, collector and writers hold together *)

LEMMA BudgetStep ==
    ASSUME BudgetOK, [Next]_vars
    PROVE  BudgetOK'
<1>1. \/ left' = left
      \/ \E what \in {"spoken", "marks", "resets", "reloads", "imports", "closings", "reviews",
                     "native", "exports", "replays", "faults"} : Spend(what)
    BY DEF Next, vars, counts, Speak, MarkWrong, Reset, Reload, Send, Import, Accept, Terminate,
           Write, Look, Insert, Flags, Candidate, Feed, Check, Close, Review, NativeTurn, NativeEnd,
           ExportRead, ExportWrite, Replay, Begin, SendTurn, MarkTurn, SelectFeedback,
           SendFeedback, MarkFeedback, CollectorDies, CollectorStarts, CliDies
<1>2. up' = up \/ up' \in BOOLEAN
    BY DEF Next, vars, server, Speak, MarkWrong, Reset, Reload, Send, Import, Accept, Terminate,
           Write, Look, Insert, Flags, Candidate, Feed, Check, Close, Review, NativeTurn, NativeEnd,
           ExportRead, ExportWrite, Replay, Begin, SendTurn, MarkTurn, SelectFeedback,
           SendFeedback, MarkFeedback, CollectorDies, CollectorStarts, CliDies
<1>3. QED
    BY <1>1, <1>2 DEF BudgetOK, Spend

LEMMA BrowsersStep ==
    ASSUME Browsers, JobOK, BudgetOK, [Next]_vars
    PROVE  Browsers'
<1>1. CASE UNCHANGED vars
    BY <1>1, Elsewhere DEF vars, storeVars, browser, server, Grows
<1>2. ASSUME NEW t \in Tabs,
             Speak(t) \/ MarkWrong(t) \/ Reset(t) \/ Reload(t) \/ Send(t) \/ Import(t)
      PROVE  Browsers'
    BY <1>2, SpeakStep, MarkWrongStep, ResetStep, ReloadStep, SendStep, ImportStep
<1>3. CASE Accept
    BY <1>3, AcceptStep
<1>4. ASSUME NEW ep, Terminate(ep)
      PROVE  Browsers'
    BY <1>4, TerminateStep
<1>5. ASSUME NEW w \in Writers, Write(w)
      PROVE  Browsers'
    BY <1>5, LookStep, InsertStep, FlagsStep, CandidateStep, FinishSteps DEF Write
<1>6. ASSUME NEW e, Review(e)
      PROVE  Browsers'
    BY <1>6, Elsewhere DEF Review, FeedbackTx, browser, server, Grows
<1>7. CASE NativeTurn
    <2>1. Grows
        BY <1>7 DEF NativeTurn, RecordTx, storeVars, Grows
    <2>2. QED
        BY <1>7, <2>1, Elsewhere DEF NativeTurn, browser, server
<1>8. ASSUME NEW how, NativeEnd(how)
      PROVE  Browsers'
    <2>1. Grows
        BY <1>8 DEF NativeEnd, FinishTx, storeVars, Grows
    <2>2. QED
        BY <1>8, <2>1, Elsewhere DEF NativeEnd, browser, server
<1>9. CASE ExportRead \/ ExportWrite \/ CollectorStarts
    BY <1>9, Elsewhere
       DEF ExportRead, ExportWrite, CollectorStarts, storeVars, browser, server, Grows
<1>10. ASSUME NEW x, Replay(x)
       PROVE  Browsers'
    <2>1. UNCHANGED <<turns, feedback, tab, saved, inbox, job, up>>
        BY <1>10 DEF Replay, Begin, SendTurn, MarkTurn, SelectFeedback, SendFeedback, MarkFeedback,
                     storeVars, browser, server
    <2>2. QED
        BY <2>1, Elsewhere DEF Grows
<1>11. CASE CollectorDies \/ CliDies
    BY <1>11, CollectorDiesStep, CliDiesStep
<1>12. left.tabs \subseteq Tabs
    BY DEF BudgetOK
<1>13. QED
    BY <1>1, <1>2, <1>3, <1>4, <1>5, <1>6, <1>7, <1>8, <1>9, <1>10, <1>11, <1>12 DEF Next

\* What writers record are events, and what they flag them with is feedback.
LEMMA WritersAreTyped ==
    ASSUME Browsers, JobOK, StoreTypeOK, NEW w \in Writers, Insert(w) \/ Flags(w) \/ Candidate(w)
    PROVE  turns' \subseteq Event /\ feedback' \subseteq Feedback
<1>1. IsTurnsJob(job[w]) /\ job[w].pc \in {"insert", "flags", "candidate"}
    BY JobAt DEF Insert, Flags, Candidate, Feed, JobOK
<1>2. job[w].todo \in Seq(Entry) /\ job[w].todo # <<>>
    BY <1>1, TurnsJobFacts
<1>3. PICK h : h = Head(job[w].todo)
    OBVIOUS
<1>4. h \in Entry
    BY <1>2, <1>3, TailShape
<1>5. h.ev \in Event /\ h.fb \in SUBSET Marks
    BY <1>4 DEF Entry
<1>6. ASSUME NEW k \in h.fb
      PROVE  [turn |-> h.ev.id, kind |-> k] \in Feedback
    BY <1>5 DEF Event, Feedback, Marks
<1>7. turns' \subseteq turns \cup {h.ev}
    BY <1>3 DEF Insert, Flags, Candidate, Feed, RecordTx, storeVars
<1>8. feedback' \subseteq feedback \cup {[turn |-> h.ev.id, kind |-> k] : k \in h.fb}
    BY <1>3 DEF Insert, Flags, Candidate, Feed, RecordTx, storeVars
<1>9. QED
    BY <1>5, <1>6, <1>7, <1>8 DEF StoreTypeOK

LEMMA StoreTypeStep ==
    ASSUME Browsers, IInv, StoreTypeOK, [Next]_vars
    PROVE  StoreTypeOK'
<1>1. outcome' \in [Episodes -> {"absent", "open"} \cup Closings]
    BY StepIInv DEF IInv, OutcomeOK
<1>2. CASE UNCHANGED <<turns, feedback>>
    BY <1>1, <1>2 DEF StoreTypeOK
<1>3. ASSUME NEW w \in Writers, Insert(w) \/ Flags(w) \/ Candidate(w)
      PROVE  StoreTypeOK'
    BY <1>1, <1>3, WritersAreTyped DEF IInv, StoreTypeOK
<1>4. ASSUME NEW w \in Writers, Write(w)
      PROVE  StoreTypeOK'
    <2>1. CASE Look(w) \/ Check(w) \/ Close(w)
        BY <1>2, <2>1 DEF Look, Check, Close, FinishTx, storeVars
    <2>2. QED
        BY <1>3, <1>4, <2>1 DEF Write
<1>5. ASSUME NEW e \in turns, Review(e)
      PROVE  StoreTypeOK'
    <2>1. turns' = turns /\ feedback' = feedback \cup {[turn |-> e.id, kind |-> "rating"]}
        BY <1>5 DEF Review, FeedbackTx
    <2>2. [turn |-> e.id, kind |-> "rating"] \in Feedback
        BY DEF StoreTypeOK, Event, Feedback
    <2>3. QED
        BY <1>1, <2>1, <2>2 DEF StoreTypeOK
<1>6. CASE NativeTurn
    <2>1. feedback' = feedback /\ \E e \in Event : turns' \subseteq turns \cup {e}
        BY <1>6 DEF NativeTurn, RecordTx, storeVars
    <2>2. QED
        BY <1>1, <2>1 DEF StoreTypeOK
<1>7. ASSUME NEW how, NativeEnd(how)
      PROVE  StoreTypeOK'
    BY <1>2, <1>7 DEF NativeEnd, FinishTx, storeVars
<1>8. ASSUME NEW t, Speak(t) \/ MarkWrong(t) \/ Reset(t) \/ Reload(t) \/ Send(t) \/ Import(t)
      PROVE  StoreTypeOK'
    BY <1>2, <1>8 DEF Speak, MarkWrong, Reset, Reload, Send, Import, storeVars
<1>9. ASSUME NEW x, Replay(x)
      PROVE  StoreTypeOK'
    BY <1>2, <1>9 DEF Replay, Begin, SendTurn, MarkTurn, SelectFeedback, SendFeedback,
                      MarkFeedback, storeVars
<1>10. ASSUME NEW ep, Terminate(ep)
       PROVE  StoreTypeOK'
    BY <1>2, <1>10 DEF Terminate, storeVars
<1>11. CASE UNCHANGED vars \/ Accept \/ ExportRead \/ ExportWrite
            \/ CollectorDies \/ CollectorStarts \/ CliDies
    BY <1>2, <1>11 DEF vars, Accept, ExportRead, ExportWrite, CollectorDies, CollectorStarts,
                       CliDies, storeVars
<1>12. QED
    BY <1>4, <1>5, <1>6, <1>7, <1>8, <1>9, <1>10, <1>11 DEF Next

SyncInv == IInv /\ Sync

LEMMA InitSync == Init => SyncInv
<1> SUFFICES ASSUME Init
             PROVE  SyncInv
    OBVIOUS
<1>1. IInv
    BY InitIInv
<1>2. StoreTypeOK
    BY DEF Init, StoreInit, StoreTypeOK
<1>3. BudgetOK
    BY TelemetryAssumption DEF Init, BudgetOK
<1>4. TabsFit
    BY FreshFits, NewTabFits DEF Init, TabsFit
<1>5. SavedFits
    BY FreshFits DEF Init, SavedFits, Fresh
<1>6. InboxFits
    BY DEF Init, InboxFits, Apart
<1>7. JobsFit
    BY DEF Init, JobsFit, JobFits
<1>8. QED
    BY <1>1, <1>2, <1>3, <1>4, <1>5, <1>6, <1>7 DEF Sync, SyncInv

LEMMA StepSync ==
    ASSUME SyncInv, [Next]_vars
    PROVE  SyncInv'
<1>1. IInv /\ JobOK /\ StoreTypeOK /\ BudgetOK /\ Browsers
    BY DEF SyncInv, Sync, Browsers, IInv
<1>2. IInv'
    BY <1>1, StepIInv
<1>3. StoreTypeOK' /\ BudgetOK' /\ Browsers'
    BY <1>1, StoreTypeStep, BudgetStep, BrowsersStep
<1>4. QED
    BY <1>2, <1>3 DEF SyncInv, Sync, Browsers

-----------------------------------------------------------------------------
(* The replay to Phoenix *)

\* What a replay knows to have arrived: C, F and n stand for collector,
\* feedback and count.sends.
Arrived(j, C, F, n) ==
    /\ j.pc = "mark" => Span("turn", Head(j.todo).id, j.sent) \in C /\ j.sent \in 1..n
    /\ j.pc \in {"feedback", "markfb"} =>
         \A g \in j.fbs : g.fb \in F /\ Span("turn", g.fb.turn, g.under) \in C
    /\ j.pc = "markfb" => j.sent \in j.fbs /\ Span("feedback", j.sent.fb, j.sent.under) \in C

IsReplay(j) ==
    /\ j = [pc |-> j.pc, todo |-> j.todo, fbs |-> j.fbs, sent |-> j.sent]
    /\ j.pc \in {"turns", "mark", "feedback", "markfb"}

Exporters == {"drain", "cli"}
Replays == /\ exp = [x \in Exporters |-> exp[x]]
           /\ \A x \in Exporters : exp[x] = Idle \/ IsReplay(exp[x])
           /\ \A x \in Exporters : Arrived(exp[x], collector, feedback, count.sends)

CountOK == /\ count = [ids |-> count.ids, eps |-> count.eps, sends |-> count.sends]
           /\ count.sends \in Nat

MarksOK == /\ trace \in [Ids -> 0..count.sends]
           /\ fbDone \subseteq feedback

Exported == Replays /\ CountOK /\ MarksOK /\ PhoenixHasIt

LEMMA IdleArrived == \A C, F, n : Arrived(Idle, C, F, n)
    BY DEF Idle, Arrived

LEMMA ArrivedGrows ==
    ASSUME NEW j, NEW C, NEW F, NEW n \in Nat, Arrived(j, C, F, n),
           NEW C2, NEW F2, NEW n2 \in Nat, C \subseteq C2, F \subseteq F2, n <= n2
    PROVE  Arrived(j, C2, F2, n2)
    BY DEF Arrived

\* A replay that goes on with something sent, something left to send.
Sending(j, pc, what) == [j EXCEPT !.pc = pc, !.sent = what]
Leaving(j, pc, rest) == [j EXCEPT !.pc = pc, !.todo = rest]
Having(j, pc, fbs) == [j EXCEPT !.pc = pc, !.fbs = fbs]

LEMMA SendingShape ==
    ASSUME NEW j, IsReplay(j), NEW pc \in {"turns", "mark", "feedback", "markfb"}, NEW what,
           NEW k, k = Sending(j, pc, what)
    PROVE  /\ IsReplay(k) /\ k.pc = pc /\ k.todo = j.todo /\ k.fbs = j.fbs /\ k.sent = what
<1>1. PICK a : a = [j EXCEPT !.pc = pc]
    OBVIOUS
<1>2. PICK b : b = [a EXCEPT !.sent = what]
    OBVIOUS
<1>3. /\ a.todo = j.todo /\ a.fbs = j.fbs /\ a.pc = pc
      /\ a = [pc |-> a.pc, todo |-> a.todo, fbs |-> a.fbs, sent |-> a.sent]
    BY <1>1 DEF IsReplay
<1>4. /\ b.todo = j.todo /\ b.fbs = j.fbs /\ b.pc = pc /\ b.sent = what
      /\ b = [pc |-> b.pc, todo |-> b.todo, fbs |-> b.fbs, sent |-> b.sent]
    BY <1>2, <1>3
<1>5. k = b
    BY <1>1, <1>2, Zenon DEF Sending
<1>6. QED
    BY <1>4, <1>5 DEF IsReplay

LEMMA LeavingShape ==
    ASSUME NEW j, IsReplay(j), NEW pc \in {"turns", "mark", "feedback", "markfb"}, NEW rest,
           NEW k, k = Leaving(j, pc, rest)
    PROVE  /\ IsReplay(k) /\ k.pc = pc /\ k.todo = rest /\ k.fbs = j.fbs /\ k.sent = j.sent
<1>1. PICK a : a = [j EXCEPT !.pc = pc]
    OBVIOUS
<1>2. PICK b : b = [a EXCEPT !.todo = rest]
    OBVIOUS
<1>3. /\ a.sent = j.sent /\ a.fbs = j.fbs /\ a.pc = pc
      /\ a = [pc |-> a.pc, todo |-> a.todo, fbs |-> a.fbs, sent |-> a.sent]
    BY <1>1 DEF IsReplay
<1>4. /\ b.todo = rest /\ b.fbs = j.fbs /\ b.pc = pc /\ b.sent = j.sent
      /\ b = [pc |-> b.pc, todo |-> b.todo, fbs |-> b.fbs, sent |-> b.sent]
    BY <1>2, <1>3
<1>5. k = b
    BY <1>1, <1>2, Zenon DEF Leaving
<1>6. QED
    BY <1>4, <1>5 DEF IsReplay

LEMMA HavingShape ==
    ASSUME NEW j, IsReplay(j), NEW pc \in {"turns", "mark", "feedback", "markfb"}, NEW fbs,
           NEW k, k = Having(j, pc, fbs)
    PROVE  /\ IsReplay(k) /\ k.pc = pc /\ k.todo = j.todo /\ k.fbs = fbs /\ k.sent = j.sent
<1>1. PICK a : a = [j EXCEPT !.pc = pc]
    OBVIOUS
<1>2. PICK b : b = [a EXCEPT !.fbs = fbs]
    OBVIOUS
<1>3. /\ a.sent = j.sent /\ a.todo = j.todo /\ a.pc = pc
      /\ a = [pc |-> a.pc, todo |-> a.todo, fbs |-> a.fbs, sent |-> a.sent]
    BY <1>1 DEF IsReplay
<1>4. /\ b.todo = j.todo /\ b.fbs = fbs /\ b.pc = pc /\ b.sent = j.sent
      /\ b = [pc |-> b.pc, todo |-> b.todo, fbs |-> b.fbs, sent |-> b.sent]
    BY <1>2, <1>3
<1>5. k = b
    BY <1>1, <1>2, Zenon DEF Having
<1>6. QED
    BY <1>4, <1>5 DEF IsReplay

\* One replay changes, and what it relies on has arrived.
LEMMA OneReplay ==
    ASSUME Exported, NEW x \in Exporters, NEW j, exp' = [exp EXCEPT ![x] = j],
           j = Idle \/ IsReplay(j), Arrived(j, collector', feedback', count'.sends),
           collector \subseteq collector', feedback \subseteq feedback',
           CountOK', count.sends <= count'.sends
    PROVE  Replays'
<1>1. \A v \in Exporters : exp'[v] = IF v = x THEN j ELSE exp[v]
    BY DEF Exported, Replays
<1>2. exp' = [v \in Exporters |-> exp'[v]]
    BY DEF Exported, Replays
<1>3. ASSUME NEW v \in Exporters
      PROVE  Arrived(exp[v], collector', feedback', count'.sends)
    <2>1. Arrived(exp[v], collector, feedback, count.sends)
        BY DEF Exported, Replays
    <2>2. count.sends \in Nat /\ count'.sends \in Nat
        BY DEF Exported, CountOK
    <2>3. QED
        BY <2>1, <2>2, ArrivedGrows
<1>4. QED
    BY <1>1, <1>2, <1>3 DEF Exported, Replays

LEMMA BeginStep ==
    ASSUME Exported, NEW x \in Exporters, Begin(x)
    PROVE  Exported'
<1>1. PICK j : j = [pc |-> "turns", todo |-> ToExport, fbs |-> {}, sent |-> 0]
    OBVIOUS
<1>2. exp' = [exp EXCEPT ![x] = j] /\ UNCHANGED <<feedback, trace, fbDone, collector, count>>
    BY <1>1 DEF Begin, storeVars
<1>3. IsReplay(j) /\ j.pc = "turns"
    BY <1>1 DEF IsReplay
<1>4. Arrived(j, collector', feedback', count'.sends)
    BY <1>3 DEF Arrived
<1>5. CountOK' /\ count.sends <= count'.sends
    BY <1>2 DEF Exported, CountOK
<1>6. Replays'
    BY <1>2, <1>3, <1>4, <1>5, OneReplay
<1>7. QED
    BY <1>2, <1>5, <1>6 DEF Exported, MarksOK, PhoenixHasIt

LEMMA SendTurnStep ==
    ASSUME Exported, NEW x \in Exporters, SendTurn(x)
    PROVE  Exported'
<1> DEFINE tr == count.sends + 1
           span == Span("turn", Head(exp[x].todo).id, tr)
<1>1. UNCHANGED <<feedback, trace, fbDone>> /\ count' = [count EXCEPT !.sends = @ + 1]
    BY DEF SendTurn, storeVars
<1>2. CountOK' /\ count'.sends = tr /\ count.sends <= count'.sends /\ count.sends \in Nat
    BY <1>1 DEF Exported, CountOK
<1>3. collector' = collector \/ collector' = collector \cup {span}
    BY DEF SendTurn, Post
<1>4. collector \subseteq collector'
    BY <1>3
<1>5. CASE exp' = [exp EXCEPT ![x] = Idle]
    <2>1. Replays'
        BY <1>1, <1>2, <1>4, <1>5, OneReplay, IdleArrived
    <2>2. QED
        BY <1>1, <1>2, <1>3, <2>1 DEF Exported, MarksOK, PhoenixHasIt, Span
<1>6. CASE Post(x, span, TRUE) /\ exp' = [exp EXCEPT ![x].pc = "mark", ![x].sent = tr]
    <2>1. span \in collector'
        BY <1>6 DEF Post
    <2>2. IsReplay(exp[x])
        BY DEF SendTurn, Exported, Replays, Idle
    <2>3. PICK z : z = exp[x]
        OBVIOUS
    <2>4. PICK n : n = tr
        OBVIOUS
    <2>5. PICK k : k = Sending(z, "mark", n)
        OBVIOUS
    <2>6. exp' = [exp EXCEPT ![x] = k]
        BY <1>6, <2>2, <2>3, <2>4, <2>5 DEF Sending, IsReplay, Exported, Replays
    <2>7. IsReplay(k) /\ k.pc = "mark" /\ k.todo = z.todo /\ k.sent = n
        BY <2>2, <2>3, <2>5, SendingShape
    <2>8. Arrived(k, collector', feedback', count'.sends)
        BY <1>2, <2>1, <2>3, <2>4, <2>7 DEF Arrived
    <2>9. Replays'
        BY <1>1, <1>2, <1>4, <2>6, <2>7, <2>8, OneReplay
    <2>10. QED
        BY <1>1, <1>2, <1>3, <2>9 DEF Exported, MarksOK, PhoenixHasIt, Span
<1>7. QED
    BY <1>5, <1>6 DEF SendTurn

LEMMA MarkTurnStep ==
    ASSUME Exported, NEW x \in Exporters, MarkTurn(x)
    PROVE  Exported'
<1> DEFINE id == Head(exp[x].todo).id
<1>1. /\ UNCHANGED <<feedback, fbDone, collector, count>>
      /\ exp[x].pc = "mark"
      /\ trace' = [trace EXCEPT ![id] = exp[x].sent]
      /\ exp' = [exp EXCEPT ![x].pc = "turns", ![x].todo = Tail(@)]
    BY DEF MarkTurn, storeVars, counts
<1>2. /\ Span("turn", id, exp[x].sent) \in collector /\ exp[x].sent \in 1..count.sends
      /\ IsReplay(exp[x])
    BY <1>1 DEF Exported, Replays, Arrived, Idle
<1>3. CountOK' /\ count.sends <= count'.sends /\ count.sends \in Nat
    BY <1>1 DEF Exported, CountOK
<1>4. Replays'
    <2>1. PICK z : z = exp[x]
        OBVIOUS
    <2>2. PICK rest : rest = Tail(exp[x].todo)
        OBVIOUS
    <2>3. PICK k : k = Leaving(z, "turns", rest)
        OBVIOUS
    <2>4. exp' = [exp EXCEPT ![x] = k]
        BY <1>1, <1>2, <2>1, <2>2, <2>3 DEF Leaving, IsReplay, Exported, Replays
    <2>5. IsReplay(k) /\ k.pc = "turns"
        BY <1>2, <2>1, <2>3, LeavingShape
    <2>6. Arrived(k, collector', feedback', count'.sends)
        BY <2>5 DEF Arrived
    <2>7. QED
        BY <1>1, <1>3, <2>4, <2>5, <2>6, OneReplay
<1>5. MarksOK'
    <2>1. exp[x].sent \in 0..count.sends /\ count'.sends = count.sends
        BY <1>1, <1>2, <1>3
    <2>2. trace' \in [Ids -> 0..count.sends]
        BY <1>1, <2>1 DEF Exported, MarksOK
    <2>3. QED
        BY <1>1, <2>1, <2>2 DEF Exported, MarksOK
<1>6. ASSUME NEW i \in Ids, trace'[i] # 0
      PROVE  Span("turn", i, trace'[i]) \in collector
    BY <1>1, <1>2, <1>6 DEF Exported, MarksOK, PhoenixHasIt
<1>7. PhoenixHasIt'
    BY <1>1, <1>6 DEF Exported, PhoenixHasIt
<1>8. QED
    BY <1>3, <1>4, <1>5, <1>7 DEF Exported

\* The feedback that is selected hangs under a span that has arrived.
LEMMA Selected ==
    ASSUME Exported, StoreTypeOK, NEW g \in FeedbackToExport
    PROVE  g.fb \in feedback /\ Span("turn", g.fb.turn, g.under) \in collector
<1>1. PICK f \in feedback : trace[f.turn] # 0 /\ g = [fb |-> f, under |-> trace[f.turn]]
    BY DEF FeedbackToExport
<1>2. f.turn \in Ids
    BY DEF StoreTypeOK, Feedback
<1>3. QED
    BY <1>1, <1>2 DEF Exported, PhoenixHasIt

LEMMA SelectFeedbackStep ==
    ASSUME Exported, StoreTypeOK, NEW x \in Exporters, SelectFeedback(x)
    PROVE  Exported'
<1>1. /\ UNCHANGED <<feedback, trace, fbDone, collector, count>> /\ exp[x].pc = "turns"
      /\ \/ exp' = [exp EXCEPT ![x] = Idle]
         \/ exp' = [exp EXCEPT ![x] = [@ EXCEPT !.pc = "feedback", !.fbs = FeedbackToExport]]
    BY DEF SelectFeedback, storeVars, counts
<1>2. CountOK' /\ count.sends <= count'.sends
    BY <1>1 DEF Exported, CountOK
<1>3. CASE exp' = [exp EXCEPT ![x] = Idle]
    BY <1>1, <1>2, <1>3, OneReplay, IdleArrived
       DEF Exported, MarksOK, PhoenixHasIt
<1>4. CASE exp' = [exp EXCEPT ![x] = [@ EXCEPT !.pc = "feedback", !.fbs = FeedbackToExport]]
    <2>1. IsReplay(exp[x])
        BY <1>1 DEF Exported, Replays, Idle
    <2>2. PICK z : z = exp[x]
        OBVIOUS
    <2>3. PICK fbs : fbs = FeedbackToExport
        OBVIOUS
    <2>4. PICK k : k = Having(z, "feedback", fbs)
        OBVIOUS
    <2>5. exp' = [exp EXCEPT ![x] = k]
        BY <1>4, <2>2, <2>3, <2>4 DEF Having, Exported, Replays
    <2>6. IsReplay(k) /\ k.pc = "feedback" /\ k.fbs = fbs
        BY <2>1, <2>2, <2>4, HavingShape
    <2>7. Arrived(k, collector', feedback', count'.sends)
        BY <1>1, <2>3, <2>6, Selected DEF Arrived
    <2>8. Replays'
        BY <1>1, <1>2, <2>5, <2>6, <2>7, OneReplay
    <2>9. QED
        BY <1>1, <1>2, <2>8 DEF Exported, MarksOK, PhoenixHasIt
<1>5. QED
    BY <1>1, <1>3, <1>4

LEMMA SendFeedbackStep ==
    ASSUME Exported, NEW x \in Exporters, SendFeedback(x)
    PROVE  Exported'
<1>1. /\ UNCHANGED <<feedback, trace, fbDone, count>> /\ exp[x].pc = "feedback"
    BY DEF SendFeedback, storeVars
<1>2. CountOK' /\ count.sends <= count'.sends
    BY <1>1 DEF Exported, CountOK
<1>3. PICK g \in exp[x].fbs :
         \/ /\ Post(x, Span("feedback", g.fb, g.under), TRUE)
            /\ exp' = [exp EXCEPT ![x].pc = "markfb", ![x].sent = g]
         \/ /\ Post(x, Span("feedback", g.fb, g.under), FALSE)
            /\ exp' = [exp EXCEPT ![x] = Idle]
    BY DEF SendFeedback
<1>4. IsReplay(exp[x]) /\ Arrived(exp[x], collector, feedback, count.sends)
    BY <1>1 DEF Exported, Replays, Idle
<1>5. Span("turn", g.fb.turn, g.under) \in collector /\ g.fb \in feedback
    BY <1>1, <1>4 DEF Arrived
<1>6. collector' = collector \/ collector' = collector \cup {Span("feedback", g.fb, g.under)}
    BY <1>3 DEF Post
<1>7. collector \subseteq collector'
    BY <1>6
<1>8. PhoenixHasIt'
    BY <1>1, <1>5, <1>6, <1>7 DEF Exported, PhoenixHasIt, Span
<1>9. MarksOK'
    BY <1>1 DEF Exported, MarksOK
<1>10. CASE exp' = [exp EXCEPT ![x] = Idle]
    BY <1>1, <1>2, <1>7, <1>8, <1>9, <1>10, OneReplay, IdleArrived DEF Exported
<1>11. CASE /\ Post(x, Span("feedback", g.fb, g.under), TRUE)
            /\ exp' = [exp EXCEPT ![x].pc = "markfb", ![x].sent = g]
    <2>1. Span("feedback", g.fb, g.under) \in collector'
        BY <1>11 DEF Post
    <2>2. PICK z : z = exp[x]
        OBVIOUS
    <2>3. PICK k : k = Sending(z, "markfb", g)
        OBVIOUS
    <2>4. exp' = [exp EXCEPT ![x] = k]
        BY <1>4, <1>11, <2>2, <2>3 DEF Sending, IsReplay, Exported, Replays
    <2>5. IsReplay(k) /\ k.pc = "markfb" /\ k.fbs = z.fbs /\ k.sent = g
        BY <1>4, <2>2, <2>3, SendingShape
    <2>6. Arrived(k, collector', feedback', count'.sends)
        BY <1>1, <1>4, <1>7, <2>1, <2>2, <2>5 DEF Arrived
    <2>7. Replays'
        BY <1>1, <1>2, <1>7, <2>4, <2>5, <2>6, OneReplay
    <2>8. QED
        BY <1>2, <1>8, <1>9, <2>7 DEF Exported
<1>12. QED
    BY <1>3, <1>10, <1>11

LEMMA MarkFeedbackStep ==
    ASSUME Exported, NEW x \in Exporters, MarkFeedback(x)
    PROVE  Exported'
<1> DEFINE rest == exp[x].fbs \ {exp[x].sent}
<1>1. /\ UNCHANGED <<feedback, trace, collector, count>> /\ exp[x].pc = "markfb"
      /\ fbDone' = fbDone \cup {exp[x].sent.fb}
      /\ \/ exp' = [exp EXCEPT ![x] = Idle]
         \/ exp' = [exp EXCEPT ![x] = [@ EXCEPT !.pc = "feedback", !.fbs = rest]]
    BY DEF MarkFeedback, storeVars, counts
<1>2. CountOK' /\ count.sends <= count'.sends
    BY <1>1 DEF Exported, CountOK
<1>3. IsReplay(exp[x]) /\ Arrived(exp[x], collector, feedback, count.sends)
    BY <1>1 DEF Exported, Replays, Idle
<1>4. /\ exp[x].sent.fb \in feedback
      /\ Span("feedback", exp[x].sent.fb, exp[x].sent.under) \in collector
    BY <1>1, <1>3 DEF Arrived
<1>5. MarksOK'
    BY <1>1, <1>4 DEF Exported, MarksOK
<1>6. PhoenixHasIt'
    <2>1. \E s \in collector : s.kind = "feedback" /\ s.of = exp[x].sent.fb
        BY <1>4 DEF Span
    <2>2. QED
        BY <1>1, <2>1 DEF Exported, PhoenixHasIt
<1>7. CASE exp' = [exp EXCEPT ![x] = Idle]
    BY <1>1, <1>2, <1>5, <1>6, <1>7, OneReplay, IdleArrived DEF Exported
<1>8. CASE exp' = [exp EXCEPT ![x] = [@ EXCEPT !.pc = "feedback", !.fbs = rest]]
    <2>1. PICK z : z = exp[x]
        OBVIOUS
    <2>2. PICK fbs : fbs = rest
        OBVIOUS
    <2>3. PICK k : k = Having(z, "feedback", fbs)
        OBVIOUS
    <2>4. exp' = [exp EXCEPT ![x] = k]
        BY <1>8, <2>1, <2>2, <2>3 DEF Having, Exported, Replays
    <2>5. IsReplay(k) /\ k.pc = "feedback" /\ k.fbs = fbs
        BY <1>3, <2>1, <2>3, HavingShape
    <2>6. Arrived(k, collector', feedback', count'.sends)
        BY <1>1, <1>3, <2>2, <2>5 DEF Arrived
    <2>7. Replays'
        BY <1>1, <1>2, <2>4, <2>5, <2>6, OneReplay
    <2>8. QED
        BY <1>2, <1>5, <1>6, <2>7 DEF Exported
<1>9. QED
    BY <1>1, <1>7, <1>8

\* Steps of the others: replays may be lost with their process.
LEMMA ExportElsewhere ==
    ASSUME Exported, feedback \subseteq feedback', UNCHANGED <<trace, fbDone, collector>>,
           exp' = exp \/ \E x \in Exporters : exp' = [exp EXCEPT ![x] = Idle],
           CountOK', count'.sends = count.sends
    PROVE  Exported'
<1>1. \A C, F, n : Arrived(Idle, C, F, n)
    BY IdleArrived
<1>2. count.sends \in Nat /\ count.sends <= count'.sends
    BY DEF Exported, CountOK
<1>3. Replays'
    <2>1. CASE exp' = exp
        <3>1. ASSUME NEW x \in Exporters
              PROVE  Arrived(exp[x], collector, feedback', count.sends)
            <4>1. Arrived(exp[x], collector, feedback, count.sends)
                BY DEF Exported, Replays
            <4>2. QED
                BY <1>2, <4>1, ArrivedGrows
        <3>2. QED
            BY <2>1, <3>1 DEF Exported, Replays
    <2>2. CASE \E x \in Exporters : exp' = [exp EXCEPT ![x] = Idle]
        BY <1>1, <1>2, <2>2, OneReplay
    <2>3. QED
        BY <2>1, <2>2
<1>4. QED
    BY <1>3 DEF Exported, MarksOK, PhoenixHasIt

LEMMA CountStep ==
    ASSUME CountOK, \/ count' = count
                    \/ count' = [count EXCEPT !.ids = @ + 1]
                    \/ \E eps : count' = [count EXCEPT !.ids = @ + 1, !.eps = eps]
    PROVE  CountOK' /\ count'.sends = count.sends
<1>1. CASE count' = count
    BY <1>1 DEF CountOK
<1>2. CASE count' = [count EXCEPT !.ids = @ + 1]
    BY <1>2 DEF CountOK
<1>3. ASSUME NEW eps, count' = [count EXCEPT !.ids = @ + 1, !.eps = eps]
      PROVE  CountOK' /\ count'.sends = count.sends
    <2>1. PICK a : a = [count EXCEPT !.ids = @ + 1]
        OBVIOUS
    <2>2. a = [ids |-> a.ids, eps |-> a.eps, sends |-> a.sends] /\ a.sends = count.sends
        BY <2>1 DEF CountOK
    <2>3. PICK b : b = [a EXCEPT !.eps = eps]
        OBVIOUS
    <2>4. b = [ids |-> b.ids, eps |-> b.eps, sends |-> b.sends] /\ b.sends = count.sends
        BY <2>2, <2>3
    <2>5. count' = b
        BY <1>3, <2>1, <2>3, Zenon
    <2>6. QED
        BY <2>4, <2>5 DEF CountOK
<1>4. QED
    BY <1>1, <1>2, <1>3

LEMMA FeedbackGrows ==
    ASSUME [Next]_vars
    PROVE  feedback \subseteq feedback'
    BY DEF Next, vars, storeVars, Speak, MarkWrong, Reset, Reload, Send, Import, Accept, Terminate,
           Write, Look, Insert, Flags, Candidate, Feed, Check, Close, Review, NativeTurn, NativeEnd,
           ExportRead, ExportWrite, Replay, Begin, SendTurn, MarkTurn, SelectFeedback,
           SendFeedback, MarkFeedback, CollectorDies, CollectorStarts, CliDies,
           RecordTx, FinishTx, FeedbackTx

LEMMA ExportedStep ==
    ASSUME Exported, StoreTypeOK, [Next]_vars
    PROVE  Exported'
<1>1. ASSUME NEW x \in Exporters, Replay(x)
      PROVE  Exported'
    BY <1>1, BeginStep, SendTurnStep, MarkTurnStep, SelectFeedbackStep, SendFeedbackStep,
       MarkFeedbackStep DEF Replay
<1>2. CASE ~\E x \in Exporters : Replay(x)
    <2>1. feedback \subseteq feedback'
        BY FeedbackGrows
    <2>2. UNCHANGED <<trace, fbDone, collector>>
        BY <1>2 DEF Next, vars, phoenix, Speak, MarkWrong, Reset, Reload, Send, Import, Accept,
           Terminate, Write, Look, Insert, Flags, Candidate, Feed, Check, Close, Review,
               NativeTurn, NativeEnd,
           ExportRead, ExportWrite, CollectorDies, CollectorStarts, CliDies, Exporters
    <2>3. exp' = exp \/ \E x \in Exporters : exp' = [exp EXCEPT ![x] = Idle]
        BY <1>2 DEF Next, vars, phoenix, Speak, MarkWrong, Reset, Reload, Send, Import, Accept,
           Terminate, Write, Look, Insert, Flags, Candidate, Feed, Check, Close, Review,
               NativeTurn, NativeEnd,
           ExportRead, ExportWrite, CollectorDies, CollectorStarts, CliDies, Exporters
    <2>4. \/ count' = count
          \/ count' = [count EXCEPT !.ids = @ + 1]
          \/ \E eps : count' = [count EXCEPT !.ids = @ + 1, !.eps = eps]
        <3>1. ASSUME NEW t, Speak(t)
              PROVE  \E eps : count' = [count EXCEPT !.ids = @ + 1, !.eps = eps]
            BY <3>1 DEF Speak
        <3>2. QED
            BY <1>2, <3>1 DEF Next, vars, counts, MarkWrong, Reset, Reload, Send, Import, Accept,
               Terminate, Write, Look, Insert, Flags, Candidate, Feed, Check, Close, Review,
               NativeTurn, NativeEnd,
               ExportRead, ExportWrite, CollectorDies, CollectorStarts, CliDies, Exporters
    <2>5. CountOK' /\ count'.sends = count.sends
        BY <2>4, CountStep DEF Exported
    <2>6. QED
        BY <2>1, <2>2, <2>3, <2>5, ExportElsewhere
<1>3. QED
    BY <1>1, <1>2

LEMMA InitExported == Init => Exported
<1> SUFFICES ASSUME Init
             PROVE  Exported
    OBVIOUS
<1>1. CountOK
    BY DEF Init, CountOK
<1>2. Replays
    BY IdleArrived DEF Init, Replays, Exporters
<1>3. MarksOK
    BY <1>1 DEF Init, MarksOK, CountOK
<1>4. PhoenixHasIt
    BY DEF Init, PhoenixHasIt
<1>5. QED
    BY <1>1, <1>2, <1>3, <1>4 DEF Exported

-----------------------------------------------------------------------------
(* The training-only export *)

\* What was read for the file says what stays true of the episodes that were
\* over when it was read.
ReadHolds ==
    file.pc = "read" =>
      /\ file.snap \subseteq turns
      /\ \A e \in file.snap : file.closings[e.episode] \in Closings =>
           /\ outcome[e.episode] \in Closings
           /\ \A f \in turns : f.episode = e.episode => f \in file.snap

Snapshot == ReadHolds /\ TrainingRowsHold

\* A row of an episode that is over says what it said, whatever is stored.
LEMMA RowStays ==
    ASSUME StoreTypeOK, StaysShut, NEW e \in turns, outcome[e.episode] \in Closings
    PROVE  /\ e \in turns' /\ outcome'[e.episode] \in Closings
           /\ \A f \in turns' : f.episode = e.episode => f \in turns
           /\ IsLast(e)' <=> IsLast(e)
<1>1. e.episode \in Episodes
    BY DEF StoreTypeOK, Event
<1>2. /\ e \in turns' /\ outcome'[e.episode] \in Closings
      /\ \A f \in turns' : f.episode = e.episode => f \in turns
      /\ turns \subseteq turns'
    BY <1>1 DEF StaysShut
<1>3. QED
    BY <1>2 DEF IsLast

LEMMA FileStays ==
    ASSUME Snapshot, StoreTypeOK, StaysShut, feedback \subseteq feedback', file' = file
    PROVE  Snapshot'
<1>1. ReadHolds'
    <2> SUFFICES ASSUME file.pc = "read"
                 PROVE  /\ file.snap \subseteq turns'
                        /\ \A e \in file.snap : file.closings[e.episode] \in Closings =>
                             /\ outcome'[e.episode] \in Closings
                             /\ \A f \in turns' : f.episode = e.episode => f \in file.snap
        BY DEF ReadHolds
    <2>1. file.snap \subseteq turns /\ turns \subseteq turns'
        BY DEF Snapshot, ReadHolds, StaysShut
    <2>2. ASSUME NEW e \in file.snap, file.closings[e.episode] \in Closings
          PROVE  /\ outcome'[e.episode] \in Closings
                 /\ \A f \in turns' : f.episode = e.episode => f \in file.snap
        <3>1. /\ e \in turns /\ outcome[e.episode] \in Closings
              /\ \A f \in turns : f.episode = e.episode => f \in file.snap
            BY <2>1, <2>2 DEF Snapshot, ReadHolds
        <3>2. QED
            BY <3>1, RowStays
    <2>3. QED
        BY <2>1, <2>2
<1>2. ASSUME NEW r \in file.rows
      PROVE  /\ r.event \in turns' /\ r.event.real /\ outcome'[r.event.episode] \in Closings
             /\ Rated(feedback', r.event)
             /\ (r.ends # "no") <=> IsLast(r.event)'
    <2> DEFINE e == r.event
    <2>1. /\ e \in turns /\ e.real /\ outcome[e.episode] \in Closings
          /\ Rated(feedback, e) /\ ((r.ends # "no") <=> IsLast(e))
        BY DEF Snapshot, TrainingRowsHold
    <2>2. Rated(feedback', e)
        BY <2>1 DEF Rated
    <2>3. PICK d \in turns : d = e
        BY <2>1
    <2>4. e \in turns' /\ outcome'[e.episode] \in Closings
        BY <2>1, RowStays
    <2>5. IsLast(d)' <=> IsLast(d)
        BY <2>1, <2>3, RowStays
    <2>6. QED
        BY <2>1, <2>2, <2>3, <2>4, <2>5 DEF IsLast
<1>3. TrainingRowsHold'
    BY <1>2 DEF TrainingRowsHold
<1>4. QED
    BY <1>1, <1>3 DEF Snapshot

\* A row that is written is of an episode that was over when it was read.
LEMMA FileWritten ==
    ASSUME Snapshot, StoreTypeOK, ExportWrite
    PROVE  Snapshot'
<1>1. /\ file.pc = "read" /\ UNCHANGED <<turns, outcome, feedback>>
      /\ file' = [pc |-> "idle",
                  rows |-> {r \in ExportRows(file.snap, file.closings, feedback) : r.eligible}]
    BY DEF ExportWrite, storeVars
<1>2. ReadHolds'
    BY <1>1 DEF ReadHolds
<1>3. ASSUME NEW r \in file'.rows
      PROVE  /\ r.event \in turns /\ r.event.real /\ outcome[r.event.episode] \in Closings
             /\ Rated(feedback, r.event)
             /\ (r.ends # "no") <=> IsLast(r.event)
    <2>1. r \in ExportRows(file.snap, file.closings, feedback) /\ r.eligible
        BY <1>1, <1>3
    <2>2. PICK e \in file.snap : r = Row(e, file.snap, file.closings, feedback)
        BY <2>1 DEF ExportRows
    <2>3. /\ r.event = e
          /\ file.closings[e.episode] \in Closings /\ Rated(feedback, e) /\ e.real
          /\ (r.ends # "no") <=> \A f \in file.snap : f.episode = e.episode => f.step <= e.step
        BY <2>1, <2>2 DEF Row
    <2>4. /\ file.snap \subseteq turns /\ outcome[e.episode] \in Closings
          /\ \A f \in turns : f.episode = e.episode => f \in file.snap
        BY <1>1, <2>3 DEF Snapshot, ReadHolds
    <2>5. QED
        BY <2>2, <2>3, <2>4 DEF IsLast
<1>4. TrainingRowsHold'
    BY <1>1, <1>3 DEF TrainingRowsHold, IsLast
<1>5. QED
    BY <1>2, <1>4 DEF Snapshot

LEMMA FileRead ==
    ASSUME Snapshot, ExportRead
    PROVE  Snapshot'
<1>1. /\ UNCHANGED <<turns, outcome, feedback>>
      /\ file' = [pc |-> "read", rows |-> file.rows, snap |-> turns, closings |-> outcome]
    BY DEF ExportRead, storeVars
<1>2. ReadHolds'
    BY <1>1 DEF ReadHolds
<1>3. TrainingRowsHold'
    BY <1>1 DEF Snapshot, TrainingRowsHold, IsLast
<1>4. QED
    BY <1>2, <1>3 DEF Snapshot

LEMMA SnapshotStep ==
    ASSUME Snapshot, StoreTypeOK, IInv, [Next]_vars
    PROVE  Snapshot'
<1>1. CASE ExportRead
    BY <1>1, FileRead
<1>2. CASE ExportWrite
    BY <1>2, FileWritten
<1>3. CASE ~ExportRead /\ ~ExportWrite
    <2>1. file' = file
        BY <1>3 DEF Next, vars, others, Speak, MarkWrong, Reset, Reload, Send, Import, Accept,
           Terminate, Write, Look, Insert, Flags, Candidate, Feed, Check, Close, Review,
               NativeTurn, NativeEnd,
           Replay, Begin, SendTurn, MarkTurn, SelectFeedback, SendFeedback, MarkFeedback,
           CollectorDies, CollectorStarts, CliDies
    <2>2. StaysShut /\ feedback \subseteq feedback'
        BY StepKeepsShut, FeedbackGrows
    <2>3. QED
        BY <2>1, <2>2, FileStays
<1>4. QED
    BY <1>1, <1>2, <1>3

-----------------------------------------------------------------------------
(* The theorems *)

TelemetryInv == SyncInv /\ Exported /\ Snapshot

LEMMA InitTelemetryInv == Init => TelemetryInv
<1> SUFFICES ASSUME Init
             PROVE  TelemetryInv
    OBVIOUS
<1>1. Snapshot
    BY DEF Init, Snapshot, ReadHolds, TrainingRowsHold
<1>2. QED
    BY <1>1, InitSync, InitExported DEF TelemetryInv

LEMMA StepTelemetryInv ==
    ASSUME TelemetryInv, [Next]_vars
    PROVE  TelemetryInv'
<1>1. SyncInv'
    BY StepSync DEF TelemetryInv
<1>2. Exported' /\ Snapshot'
    BY ExportedStep, SnapshotStep DEF TelemetryInv, SyncInv, Sync
<1>3. QED
    BY <1>1, <1>2 DEF TelemetryInv

\* What a browser was told is stored is stored.
LEMMA InvKeepsAcked == TelemetryInv => AckedIsKept
<1> SUFFICES ASSUME TelemetryInv
             PROVE  AckedIsKept
    OBVIOUS
<1>1. StoreTypeOK /\ BudgetOK /\ TabsFit /\ InboxFits /\ JobsFit /\ JobOK /\ MarksOK
    BY DEF TelemetryInv, SyncInv, Sync, IInv, Exported
<1>2. TypeOK
    <2>1. \A t \in Tabs : /\ Len(tab[t].log) <= Window
                          /\ tab[t].waiting => up /\ tab[t].queue # <<>>
        BY <1>1 DEF TabsFit, TabFits, IsTab, IsSession
    <2>2. QED
        BY <1>1, <2>1 DEF TypeOK, MarksOK, BudgetOK
<1>3. AckedIsStored
    <2> SUFFICES ASSUME NEW t \in Tabs, tab[t].synced, tab[t].queue = <<>>,
                        NEW i \in DOMAIN tab[t].log
                 PROVE  /\ tab[t].log[i].ev \in turns
                        /\ \A k \in tab[t].log[i].fb :
                             [turn |-> tab[t].log[i].ev.id, kind |-> k] \in feedback
        BY DEF AckedIsStored
    <2>1. Covered(tab[t].log, tab[t].queue, tab[t].synced, turns, feedback)
        BY <1>1 DEF TabsFit, TabFits
    <2>2. Stored(tab[t].log[i], turns, feedback)
        BY <2>1 DEF Covered, Items
    <2>3. QED
        BY <2>2 DEF Stored
<1>4. FinishAfterTurns
    <2>1. ASSUME NEW m \in ToSet(inbox), m.request.kind = "finish"
          PROVE  m.request.said \subseteq turns
        <3>1. PICK i \in 1..Len(inbox) : m = inbox[i]
            BY <1>1, LenProperties DEF ToSet, InboxFits
        <3>2. QED
            BY <1>1, <2>1, <3>1 DEF InboxFits
    <2>2. ASSUME NEW w \in Writers, job[w] # NoJob, job[w].kind = "finish"
          PROVE  job[w].said \subseteq turns
        BY <1>1, <2>2 DEF JobsFit, JobFits, Progress
    <2>3. QED
        BY <2>1, <2>2 DEF FinishAfterTurns
<1>5. QED
    BY <1>2, <1>3, <1>4 DEF AckedIsKept

\* What the browser was told is stored is stored, and an episode is closed only
\* when all its tab said is: for any tabs, window and budgets, whichever
\* uploads are lost, refused or answered late.
THEOREM AckedAlwaysKept == Spec => []AckedIsKept
<1>1. TelemetryInv /\ [Next]_vars => TelemetryInv'
    BY StepTelemetryInv
<1>2. QED
    BY <1>1, InitTelemetryInv, InvKeepsAcked, PTL DEF Spec

\* What the database says was exported did arrive, and a feedback span hangs
\* under a span of its own turn, although two replays overlap and die between
\* sending and marking.
THEOREM PhoenixAlwaysHasIt == Spec => []PhoenixHasIt
<1>1. TelemetryInv /\ [Next]_vars => TelemetryInv'
    BY StepTelemetryInv
<1>2. TelemetryInv => PhoenixHasIt
    BY DEF TelemetryInv, Exported
<1>3. QED
    BY <1>1, <1>2, InitTelemetryInv, PTL DEF Spec

\* The training file stays right after it was written, and is right although
\* rows and feedback were read at different times.
THEOREM TrainingRowsAlwaysHold == Spec => []TrainingRowsHold
<1>1. TelemetryInv /\ [Next]_vars => TelemetryInv'
    BY StepTelemetryInv
<1>2. TelemetryInv => TrainingRowsHold
    BY DEF TelemetryInv, Snapshot
<1>3. QED
    BY <1>1, <1>2, InitTelemetryInv, PTL DEF Spec
=============================================================================

------------------------------- MODULE Telemetry -------------------------------
(***************************************************************************)
(* Collection and export of trajectories around the TrajectoryStore: the   *)
(* browser tabs that queue their uploads (index.html), the single-threaded *)
(* HTTP collector, the command line importer and finisher, the replay to   *)
(* Phoenix by the drain thread and by the command line                     *)
(* (scripts/telemetry_cli.py, phoenix_trajectory.py), and the native       *)
(* inference that records turns of its own (infer_flywire_delta.py).       *)
(*                                                                         *)
(* A home state is the sequence of the turns that led to it.  A call of    *)
(* the store is its lookup and then its transaction, and processes die     *)
(* between any two steps.                                                  *)
(***************************************************************************)
EXTENDS TrajectoryStore, Sequences, SequencesExt

CONSTANTS Tabs,         \* browser tabs that share one local storage
          Window,       \* events a tab retains (200 in index.html)
          MaxEvents,    \* events one upload may hold (200 in ingest())
          Budgets       \* bounds: how often a behaviour may take each of the
                        \* actions that nothing else bounds, a set of records,
                        \* and whether serve has a Phoenix endpoint

ASSUME TelemetryAssumption ==
    /\ Window \in Nat
    /\ "nobody" \notin Tabs
    /\ \A b \in Budgets : "tabs" \in DOMAIN b /\ b.tabs \subseteq Tabs

VARIABLES tab,        \* per tab: retained events, episode, upload queue ...
          saved,      \* the session in local storage
          inbox,      \* requests the collector has accepted, in order
          job,        \* per writer, the store call it is in
          exp,        \* per exporter, the replay it is in
          trace,      \* turns.trace_id, 0 while a turn is not exported
          fbDone,     \* table feedback_exports
          collector,  \* the spans Phoenix has received
          native,     \* the inference process
          file,       \* the last training-only export
          up,         \* the collector process is alive
          count,      \* event ids, episode ids and trace ids given out
          left        \* the budget that is left

browser == <<tab, saved>>
server  == <<inbox, job, up>>
phoenix == <<exp, trace, fbDone, collector>>
others  == <<native, file>>
counts  == <<count, left>>
vars == <<storeVars, browser, server, phoenix, others, counts>>

NativeEpisode == 0
Writers == {"server", "cli"}
NoTab == "nobody"
NoJob == [pc |-> "none"]
Idle == [pc |-> "idle"]
Fresh == [log |-> <<>>, ep |-> 0, step |-> 0, state |-> <<>>]
\* A page with that session: nothing is queued, nothing was confirmed.
NewTab(s) == [log |-> s.log, ep |-> s.ep, step |-> s.step, state |-> s.state,
              queue |-> <<>>, waiting |-> FALSE, synced |-> FALSE]

Init ==
    /\ StoreInit
    /\ tab = [t \in Tabs |-> NewTab(Fresh)]
    /\ saved = Fresh
    /\ inbox = <<>>
    /\ job = [w \in Writers |-> NoJob]
    /\ exp = [x \in {"drain", "cli"} |-> Idle]
    /\ trace = [i \in Ids |-> 0]
    /\ fbDone = {}
    /\ collector = {}
    /\ native = [step |-> 0, state |-> <<>>, alive |-> TRUE]
    /\ file = [pc |-> "idle", rows |-> {}]
    /\ up = TRUE
    /\ count = [ids |-> 0, eps |-> 0, sends |-> 0]
    /\ left \in Budgets

Spend(what) == left[what] > 0 /\ left' = [left EXCEPT ![what] = @ - 1]

NextEvent(s, ep, real) ==
    [id |-> count.ids + 1, episode |-> ep, step |-> s.step + 1, before |-> s.state,
     after |-> Append(s.state, count.ids + 1), real |-> real]

----------------------------------------------------------------------------
(* The browser tab *)

LastOf(log) == SubSeq(log, IF Len(log) > Window THEN Len(log) - Window + 1 ELSE 1, Len(log))

\* Restoring a session replays the retained events from an empty home.
Restored(s) == IF s.log = <<>> THEN Fresh
               ELSE [s EXCEPT !.state = [i \in DOMAIN s.log |-> s.log[i].ev.id]]

Session(s) == [log |-> s.log, ep |-> s.ep, step |-> s.step, state |-> s.state]
Upload(log) == [kind |-> "turns", events |-> log]

\* linkPendingCorrection(): the next sentence becomes the candidate for the
\* latest event marked wrong that has none, and is uploaded by itself.
Pending(log) == {i \in DOMAIN log : log[i].fb = {"incorrect"}}
Corrected(log) ==
    IF Pending(log) = {} THEN log
    ELSE LET i == CHOOSE i \in Pending(log) : \A j \in Pending(log) : j <= i
         IN  [log EXCEPT ![i].fb = @ \cup {"correction_candidate"}]

\* submit(): the upload is taken before the window is cut.  That events stay
\* within Event is a bound on ids, episodes and states.
Speak(t) ==
    /\ Spend("spoken")
    /\ LET s == tab[t]
           ep == IF s.ep = 0 THEN count.eps + 1 ELSE s.ep
           e == NextEvent(s, ep, FALSE)
           linked == Corrected(s.log)
           log == Append(linked, [ev |-> e, fb |-> {}])
           s2 == [s EXCEPT !.log = LastOf(log), !.ep = ep, !.step = e.step, !.state = e.after,
                           !.queue = Append(IF linked = s.log THEN @ ELSE Append(@, Upload(linked)),
                                            Upload(log))]
       IN  /\ e \in Event
           /\ tab' = [tab EXCEPT ![t] = s2]
           /\ saved' = Session(s2)
           /\ count' = [count EXCEPT !.ids = @ + 1, !.eps = IF ep > @ THEN ep ELSE @]
    /\ UNCHANGED <<storeVars, server, phoenix, others>>

\* markLastResultWrong()
MarkWrong(t) ==
    /\ Spend("marks")
    /\ tab[t].log # <<>>
    /\ Last(tab[t].log).fb = {}
    /\ LET s == [tab[t] EXCEPT !.log[Len(tab[t].log)].fb = {"incorrect"}]
           s2 == [s EXCEPT !.queue = Append(@, Upload(s.log))]
       IN  /\ tab' = [tab EXCEPT ![t] = s2]
           /\ saved' = Session(s2)
    /\ UNCHANGED <<storeVars, server, phoenix, others, count>>

\* reset(): the session is forgotten.  The reset button calls
\* closeTelemetryEpisode() before, which queues a last upload and the end of
\* the episode, if anything was said; a change of the scene does not.
Reset(t) ==
    /\ Spend("resets")
    /\ \E closing \in BOOLEAN :
        LET s == tab[t]
            said == {s.log[i].ev : i \in DOMAIN s.log}
            end == [kind |-> "finish", ep |-> s.ep, said |-> said]
            queue == IF closing /\ s.log # <<>> THEN Append(Append(s.queue, Upload(s.log)), end)
                     ELSE s.queue
        IN  tab' = [tab EXCEPT ![t] = [NewTab(Fresh) EXCEPT !.waiting = s.waiting, !.synced = s.synced,
                                         !.queue = queue]]
    /\ saved' = Fresh
    /\ UNCHANGED <<storeVars, server, phoenix, others, count>>

\* A tab is opened or reloaded: its queue is gone, nobody waits for what the
\* collector still has to answer, the session is restored but not uploaded.
Reload(t) ==
    /\ Spend("reloads")
    /\ tab' = [tab EXCEPT ![t] = NewTab(Restored(saved))]
    /\ inbox' = [i \in DOMAIN inbox |-> IF inbox[i].from = t THEN [inbox[i] EXCEPT !.from = NoTab] ELSE inbox[i]]
    /\ job' = [w \in Writers |-> IF job[w] # NoJob /\ job[w].from = t THEN [job[w] EXCEPT !.from = NoTab] ELSE job[w]]
    /\ UNCHANGED <<storeVars, saved, up, phoenix, others, count>>

\* The head of telemetryQueue ends with a result.
Settled(s, ok) == [s EXCEPT !.queue = Tail(@), !.waiting = FALSE, !.synced = ok]
Answer(from, ok) ==
    tab' = [t \in Tabs |-> IF t = from THEN Settled(tab[t], ok) ELSE tab[t]]

\* The next link of telemetryQueue runs; a finish whose upload failed is
\* given up, and so is a request nobody listens to.
Send(t) ==
    /\ tab[t].queue # <<>>
    /\ ~tab[t].waiting
    /\ LET r == Head(tab[t].queue)
       IN  IF ~up \/ (r.kind = "finish" /\ ~tab[t].synced)
           THEN /\ Answer(t, FALSE)
                /\ UNCHANGED inbox
           ELSE /\ inbox' = Append(inbox, [from |-> t, request |-> r])
                /\ tab' = [tab EXCEPT ![t].waiting = TRUE]
    /\ UNCHANGED <<storeVars, saved, job, up, phoenix, others, counts>>

----------------------------------------------------------------------------
(* The writers: the request handler and the command line *)

TurnsJob(events, from) == [pc |-> "look", kind |-> "turns", todo |-> events, from |-> from]
FinishJob(ep, how, said, from) ==
    [pc |-> "look", kind |-> "finish", ep |-> ep, how |-> how, said |-> said, from |-> from]

End(w, ok) == /\ job' = [job EXCEPT ![w] = NoJob]
              /\ Answer(job[w].from, ok)

\* do_POST(): one request at a time; too many events are refused at once.
Accept ==
    /\ up
    /\ inbox # <<>>
    /\ job["server"] = NoJob
    /\ inbox' = Tail(inbox)
    /\ LET from == Head(inbox).from
           r == Head(inbox).request
       IN  IF r.kind = "finish"
           THEN /\ job' = [job EXCEPT !["server"] = FinishJob(r.ep, "browser_reset", r.said, from)]
                /\ UNCHANGED tab
           ELSE IF Len(r.events) > MaxEvents
           THEN /\ Answer(from, FALSE)
                /\ UNCHANGED job
           ELSE /\ job' = [job EXCEPT !["server"] = TurnsJob(r.events, from)]
                /\ UNCHANGED tab
    /\ UNCHANGED <<storeVars, saved, up, phoenix, others, counts>>

\* import-browser with a file a tab exported, and finish --terminated.
Import(t) ==
    /\ Spend("imports")
    /\ job["cli"] = NoJob
    /\ tab[t].log # <<>> /\ Len(tab[t].log) <= MaxEvents
    /\ job' = [job EXCEPT !["cli"] = TurnsJob(tab[t].log, NoTab)]
    /\ UNCHANGED <<storeVars, browser, inbox, up, phoenix, others, count>>

Terminate(ep) ==
    /\ Spend("closings")
    /\ job["cli"] = NoJob
    /\ outcome[ep] # "absent"
    /\ job' = [job EXCEPT !["cli"] = FinishJob(ep, "terminated", {}, NoTab)]
    /\ UNCHANGED <<storeVars, browser, inbox, up, phoenix, others, count>>

\* ingest(): record() looks the event up; evidence that differs ends the
\* batch, and what was stored before it stays.
Look(w) ==
    /\ job[w].pc = "look" /\ job[w].kind = "turns"
    /\ IF job[w].todo = <<>> THEN End(w, TRUE)
       ELSE LET found == Lookup(Head(job[w].todo).ev)
            IN  IF found = "other" THEN End(w, FALSE)
                ELSE /\ job' = [job EXCEPT ![w].pc = IF found = "same" THEN "flags" ELSE "insert"]
                     /\ UNCHANGED tab
    /\ UNCHANGED <<storeVars, saved, inbox, up, phoenix, others, counts>>

InsertSkips(w) ==   \* mutant: a refused turn does not end the batch
    /\ job[w].pc = "insert"
    /\ LET e == Head(job[w].todo).ev
       IN  IF Recordable(e) THEN RecordTx(e) /\ job' = [job EXCEPT ![w].pc = "flags"]
           ELSE job' = [job EXCEPT ![w].pc = "look", ![w].todo = Tail(@)] /\ UNCHANGED storeVars
    /\ UNCHANGED <<browser, inbox, up, phoenix, others, counts>>

Insert(w) ==
    /\ job[w].pc = "insert"
    /\ LET e == Head(job[w].todo).ev
       IN  \/ /\ RecordTx(e)
              /\ job' = [job EXCEPT ![w].pc = "flags"]
              /\ UNCHANGED tab
           \/ /\ ~Recordable(e)
              /\ End(w, FALSE)
              /\ UNCHANGED storeVars
    /\ UNCHANGED <<saved, inbox, up, phoenix, others, counts>>

\* One feedback row of the event, under an id made of the event id.  A row
\* that is stored ends the batch when it is the candidate and holds another
\* sentence ('feedback ID conflict'; sentences are not modelled, so it may),
\* or when both writers looked before either inserted (the primary key).
Feed(w, at, kind, next) ==
    /\ job[w].pc = at
    /\ LET h == Head(job[w].todo)
           f == [turn |-> h.ev.id, kind |-> kind]
       IN  \/ /\ feedback' = IF kind \in h.fb THEN feedback \cup {f} ELSE feedback
              /\ job' = next
              /\ UNCHANGED tab
           \/ /\ kind \in h.fb /\ f \in feedback
              /\ kind = "correction_candidate" \/ \A v \in Writers : job[v] # NoJob
              /\ End(w, FALSE)
              /\ UNCHANGED feedback
    /\ UNCHANGED <<turns, outcome, saved, inbox, up, phoenix, others, counts>>

Flags(w) == Feed(w, "flags", "incorrect", [job EXCEPT ![w].pc = "candidate"])

Candidate(w) ==
    Feed(w, "candidate", "correction_candidate", [job EXCEPT ![w].pc = "look", ![w].todo = Tail(@)])

\* finish(): the test, then the UPDATE.
Check(w) ==
    /\ job[w].pc = "look" /\ job[w].kind = "finish"
    /\ IF FinishAllowed(job[w].ep, job[w].how)
       THEN /\ job' = [job EXCEPT ![w].pc = "write"]
            /\ UNCHANGED tab
       ELSE End(w, FALSE)
    /\ UNCHANGED <<storeVars, saved, inbox, up, phoenix, others, counts>>

Close(w) ==
    /\ job[w].pc = "write"
    /\ FinishTx(job[w].ep, job[w].how)
    /\ End(w, TRUE)
    /\ UNCHANGED <<saved, inbox, up, phoenix, others, counts>>

\* The review page rates a turn its queue shows; the id is fresh.
Review(e) ==
    /\ up
    /\ Spend("reviews")
    /\ \E r \in ReviewQueue(ExportRows(turns, outcome, feedback), "unreviewed", 1) : r.event = e
    /\ FeedbackTx([turn |-> e.id, kind |-> "rating"])
    /\ UNCHANGED <<browser, server, phoenix, others, count>>

----------------------------------------------------------------------------
(* The native inference: one process, one episode *)

NativeTurn ==
    /\ Spend("native")
    /\ native.alive
    /\ LET e == NextEvent(native, NativeEpisode, TRUE)
       IN  /\ e \in Event
           /\ IF Recordable(e)
              THEN /\ RecordTx(e)
                   /\ native' = [native EXCEPT !.step = e.step, !.state = e.after]
              ELSE /\ native' = [native EXCEPT !.alive = FALSE]
                   /\ UNCHANGED storeVars
    /\ count' = [count EXCEPT !.ids = @ + 1]
    /\ UNCHANGED <<browser, server, phoenix, file>>

NativeEnd(how) ==
    /\ native.alive /\ native.step > 0
    /\ native' = [native EXCEPT !.alive = FALSE]
    /\ IF FinishAllowed(NativeEpisode, how) THEN FinishTx(NativeEpisode, how)
       ELSE UNCHANGED storeVars
    /\ UNCHANGED <<browser, server, phoenix, file, counts>>

\* export --training-only: the rows first, the feedback of each row later.
ExportRead ==
    /\ Spend("exports")
    /\ file' = [pc |-> "read", rows |-> file.rows, snap |-> turns, closings |-> outcome]
    /\ UNCHANGED <<storeVars, browser, server, phoenix, native, count>>

ExportWrite ==
    /\ file.pc = "read"
    /\ file' = [pc |-> "idle",
                rows |-> {r \in ExportRows(file.snap, file.closings, feedback) : r.eligible}]
    /\ UNCHANGED <<storeVars, browser, server, phoenix, native, counts>>

----------------------------------------------------------------------------
(* The replay to Phoenix *)

Span(kind, of, under) == [kind |-> kind, of |-> of, trace |-> under]

Runs(x) == x = "drain" => up /\ left.drain

\* The turns without exported_at, ORDER BY episode, step.
ToExport ==
    SetToSortSeq({e \in turns : trace[e.id] = 0},
                 LAMBDA a, b : \/ a.episode < b.episode
                               \/ a.episode = b.episode /\ a.step < b.step)

\* The feedback of exported turns that is not exported itself, with the
\* trace its turn has now.
FeedbackToExport ==
    {[fb |-> f, under |-> trace[f.turn]] : f \in {g \in feedback \ fbDone : trace[g.turn] # 0}}

\* A replay that finds nothing to do is left out.
Begin(x) ==
    /\ exp[x].pc = "idle" /\ Runs(x)
    /\ ToExport # <<>> \/ FeedbackToExport # {}
    /\ IF x = "drain" THEN UNCHANGED left ELSE Spend("replays")
    /\ exp' = [exp EXCEPT ![x] = [pc |-> "turns", todo |-> ToExport, fbs |-> {}, sent |-> 0]]
    /\ UNCHANGED <<storeVars, browser, server, trace, fbDone, collector, others, count>>

\* The exporter posts the spans: they arrive or not, and the answer too.
Post(x, span, acked) ==
    /\ \E arrived \in BOOLEAN :
          /\ acked => arrived
          /\ collector' = IF arrived THEN collector \cup {span} ELSE collector

SendUnchecked(x) ==   \* mutant: the answer of the exporter is not looked at
    /\ exp[x].pc = "turns" /\ exp[x].todo # <<>>
    /\ Post(x, Span("turn", Head(exp[x].todo).id, count.sends + 1), FALSE)
    /\ exp' = [exp EXCEPT ![x].pc = "mark", ![x].sent = count.sends + 1]
    /\ count' = [count EXCEPT !.sends = @ + 1]
    /\ UNCHANGED <<storeVars, browser, server, trace, fbDone, others, left>>

SendOrDie(x) ==   \* mutant: a failed export ends the drain thread
    /\ exp[x].pc = "turns" /\ exp[x].todo # <<>>
    /\ LET span == Span("turn", Head(exp[x].todo).id, count.sends + 1)
       IN  \/ /\ Post(x, span, TRUE)
              /\ exp' = [exp EXCEPT ![x].pc = "mark", ![x].sent = count.sends + 1]
              /\ UNCHANGED left
           \/ /\ Spend("faults")
              /\ Post(x, span, FALSE)
              /\ exp' = [exp EXCEPT ![x] = [pc |-> "dead"]]
    /\ count' = [count EXCEPT !.sends = @ + 1]
    /\ UNCHANGED <<storeVars, browser, server, trace, fbDone, others>>

SendTurn(x) ==
    /\ exp[x].pc = "turns" /\ exp[x].todo # <<>>
    /\ LET tr == count.sends + 1
       IN  \/ /\ Post(x, Span("turn", Head(exp[x].todo).id, tr), TRUE)
              /\ exp' = [exp EXCEPT ![x].pc = "mark", ![x].sent = tr]
              /\ UNCHANGED left
           \/ /\ Spend("faults")
              /\ Post(x, Span("turn", Head(exp[x].todo).id, tr), FALSE)
              /\ exp' = [exp EXCEPT ![x] = Idle]
    /\ count' = [count EXCEPT !.sends = @ + 1]
    /\ UNCHANGED <<storeVars, browser, server, trace, fbDone, others>>

\* Only an acknowledged turn is marked, with the trace it was sent under.
MarkTurn(x) ==
    /\ exp[x].pc = "mark"
    /\ trace' = [trace EXCEPT ![Head(exp[x].todo).id] = exp[x].sent]
    /\ exp' = [exp EXCEPT ![x].pc = "turns", ![x].todo = Tail(@)]
    /\ UNCHANGED <<storeVars, browser, server, fbDone, collector, others, counts>>

SelectFeedback(x) ==
    /\ exp[x].pc = "turns" /\ exp[x].todo = <<>>
    /\ exp' = [exp EXCEPT ![x] = IF FeedbackToExport = {} THEN Idle
                                 ELSE [@ EXCEPT !.pc = "feedback", !.fbs = FeedbackToExport]]
    /\ UNCHANGED <<storeVars, browser, server, trace, fbDone, collector, others, counts>>

SendFeedback(x) ==
    /\ exp[x].pc = "feedback"
    /\ \E g \in exp[x].fbs :
          \/ /\ Post(x, Span("feedback", g.fb, g.under), TRUE)
             /\ exp' = [exp EXCEPT ![x].pc = "markfb", ![x].sent = g]
             /\ UNCHANGED left
          \/ /\ Spend("faults")
             /\ Post(x, Span("feedback", g.fb, g.under), FALSE)
             /\ exp' = [exp EXCEPT ![x] = Idle]
    /\ UNCHANGED <<storeVars, browser, server, trace, fbDone, others, count>>

\* The primary key of feedback_exports ends the slower of two replays.
MarkFeedback(x) ==
    /\ exp[x].pc = "markfb"
    /\ fbDone' = fbDone \cup {exp[x].sent.fb}
    /\ LET rest == exp[x].fbs \ {exp[x].sent}
       IN  exp' = [exp EXCEPT ![x] = IF exp[x].sent.fb \in fbDone \/ rest = {} THEN Idle
                                     ELSE [@ EXCEPT !.pc = "feedback", !.fbs = rest]]
    /\ UNCHANGED <<storeVars, browser, server, trace, collector, others, counts>>

----------------------------------------------------------------------------
(* Deaths: each loses what its process held in memory *)

CollectorDies ==
    /\ up /\ Spend("faults")
    /\ up' = FALSE
    /\ inbox' = <<>>
    /\ job' = [job EXCEPT !["server"] = NoJob]
    /\ exp' = [exp EXCEPT !["drain"] = Idle]
    /\ tab' = [t \in Tabs |-> IF tab[t].waiting THEN Settled(tab[t], FALSE) ELSE tab[t]]
    /\ UNCHANGED <<storeVars, saved, trace, fbDone, collector, others, count>>

CollectorStarts ==
    /\ ~up
    /\ up' = TRUE
    /\ UNCHANGED <<storeVars, browser, inbox, job, phoenix, others, counts>>

CliDies ==
    /\ Spend("faults")
    /\ \/ /\ job["cli"] # NoJob
          /\ job' = [job EXCEPT !["cli"] = NoJob]
          /\ UNCHANGED <<exp, native>>
       \/ /\ exp["cli"] # Idle
          /\ exp' = [exp EXCEPT !["cli"] = Idle]
          /\ UNCHANGED <<job, native>>
       \/ /\ native.alive
          /\ native' = [native EXCEPT !.alive = FALSE]
          /\ UNCHANGED <<job, exp>>
    /\ UNCHANGED <<storeVars, browser, inbox, up, trace, fbDone, collector, file, count>>

Write(w) == Look(w) \/ Insert(w) \/ Flags(w) \/ Candidate(w) \/ Check(w) \/ Close(w)

Replay(x) == \/ Begin(x) \/ SendTurn(x) \/ MarkTurn(x)
             \/ SelectFeedback(x) \/ SendFeedback(x) \/ MarkFeedback(x)

Next ==
    \/ \E t \in left.tabs : Speak(t) \/ MarkWrong(t) \/ Reset(t) \/ Reload(t) \/ Send(t) \/ Import(t)
    \/ Accept
    \/ \E ep \in Episodes : Terminate(ep)
    \/ \E w \in Writers : Write(w)
    \/ \E e \in turns : Review(e)
    \/ NativeTurn \/ \E how \in {"input_exhausted", "runtime_error"} : NativeEnd(how)
    \/ ExportRead \/ ExportWrite
    \/ \E x \in {"drain", "cli"} : Replay(x)
    \/ CollectorDies \/ CollectorStarts \/ CliDies

\* The drain thread loops every two seconds as long as its process lives,
\* and somebody starts the collector again.
Fairness == WF_vars(Replay("drain")) /\ WF_vars(CollectorStarts)

Spec == Init /\ [][Next]_vars /\ Fairness

----------------------------------------------------------------------------
TypeOK ==
    /\ StoreTypeOK
    /\ \A t \in Tabs : /\ Len(tab[t].log) <= Window
                       /\ tab[t].waiting => up /\ tab[t].queue # <<>>
    /\ trace \in [Ids -> 0..count.sends]
    /\ fbDone \subseteq feedback
    /\ up \in BOOLEAN

\* When the last upload of a tab was confirmed and none is queued, every turn
\* the tab retains is stored, with what the user marked on it, whatever
\* other tabs, imports, deaths and retries came in between
\* (syncTrajectory(), telemetry_cli.py:18-29).
AckedIsStored ==
    \A t \in Tabs : tab[t].synced /\ tab[t].queue = <<>> =>
        \A i \in DOMAIN tab[t].log :
            LET h == tab[t].log[i]
            IN  /\ h.ev \in turns
                /\ \A k \in h.fb : [turn |-> h.ev.id, kind |-> k] \in feedback

\* A tab asks for the end of its episode only when all it said is stored: a
\* lost or refused upload leaves the episode open, never closed with a turn
\* missing (closeTelemetryEpisode(), the POST of /telemetry/finish).
FinishAfterTurns ==
    \A r \in {m.request : m \in ToSet(inbox)} \cup {job[w] : w \in {v \in Writers : job[v] # NoJob}} :
        r.kind = "finish" => r.said \subseteq turns

\* What a browser was told is stored is stored, and what it relies on it for.
AckedIsKept == TypeOK /\ AckedIsStored /\ FinishAfterTurns

\* The stored episodes are chains of turns without a gap, and one that is over
\* takes no turn any more, whoever records and closes at the same time.
EpisodesAreSound == [][EpisodeWhole' /\ StaysShut]_storeVars

\* What the database says was exported did reach Phoenix, and the span of a
\* feedback hangs under a span of its own turn there, although two replays
\* may overlap, die between sending and marking, and export a turn twice
\* (phoenix_trajectory.py:27-70).
PhoenixHasIt ==
    /\ \A i \in Ids : trace[i] # 0 => Span("turn", i, trace[i]) \in collector
    /\ \A f \in fbDone : \E s \in collector : s.kind = "feedback" /\ s.of = f
    /\ \A s \in collector : s.kind = "feedback" => Span("turn", s.of.turn, s.trace) \in collector

\* A row of the training file is a turn of the real network in an episode
\* that is over, scored by a human, and the row that ends its episode stays
\* the last one: the file is right although rows and feedback are read at
\* different times (export(), trajectory_store.py:92-112).
TrainingRowsHold ==
    \A r \in file.rows :
        LET e == r.event
        IN  /\ e \in turns /\ e.real
            /\ outcome[e.episode] \in Closings
            /\ Rated(feedback, e)
            /\ (r.ends # "no") <=> IsLast(e)

\* With a drain thread every stored turn and every rating reaches Phoenix in
\* the end, although the collector dies and exports fail for a while: what a
\* failed replay leaves is pending for the next (telemetry_cli.py:130-137).
ExportedInTheEnd ==
    /\ \A i \in Ids : left.drain /\ (\E e \in turns : e.id = i) ~> trace[i] # 0
    /\ \A i \in Ids : left.drain /\ [turn |-> i, kind |-> "rating"] \in feedback
                      ~> [turn |-> i, kind |-> "rating"] \in fbDone
=============================================================================

---------------------------- MODULE TrajectoryStore ----------------------------
(***************************************************************************)
(* The SQLite trajectory store of scripts/trajectory_store.py: episodes of *)
(* numbered turns, each turn the evidence of one transition, and feedback  *)
(* on turns.  An action is one transaction of one method, whoever calls    *)
(* it; what a method reads before its transaction is left to its caller    *)
(* (see Telemetry), so that an action tests only what the transaction      *)
(* itself tests.                                                           *)
(***************************************************************************)
EXTENDS Naturals, FiniteSets

CONSTANTS Episodes,  \* episode ids
          Ids,       \* event ids
          States     \* home states as the evidence records them

VARIABLES turns,     \* table turns: the recorded events
          outcome,   \* table episodes: "absent", "open" or how it was closed
          feedback   \* table feedback

storeVars == <<turns, outcome, feedback>>

Closings == {"browser_reset", "input_exhausted", "runtime_error", "terminated"}

\* The evidence of one turn; real stands for a provenance of
\* real_flywire_delta with a model digest and a raw action.
Event == [id : Ids, episode : Episodes, step : Nat \ {0},
          before : States, after : States, real : BOOLEAN]

\* The browser derives its feedback ids from the event id, a rating has a
\* fresh one; only a rating carries a score.
Feedback == [turn : Ids, kind : {"incorrect", "correction_candidate", "rating"}]

StoreInit ==
    /\ turns = {}
    /\ outcome = [ep \in Episodes |-> "absent"]
    /\ feedback = {}

----------------------------------------------------------------------------
\* record(): what the lookup by event id finds before the transaction.
Lookup(e) ==
    IF \E f \in turns : f.id = e.id
    THEN IF e \in turns THEN "same" ELSE "other"
    ELSE "new"

\* The previous turn of the episode, found by ORDER BY step DESC LIMIT 1.
IsLast(p) == \A f \in turns : f.episode = p.episode => f.step <= p.step

FollowsByStep(e) ==   \* mutant: the states are not compared
    \/ /\ \A f \in turns : f.episode # e.episode
       /\ e.step = 1
    \/ \E p \in turns : p.episode = e.episode /\ IsLast(p) /\ e.step = p.step + 1

Follows(e) ==
    \/ /\ \A f \in turns : f.episode # e.episode
       /\ e.step = 1
    \/ \E p \in turns :
        /\ p.episode = e.episode
        /\ IsLast(p)
        /\ e.step = p.step + 1
        /\ e.before = p.after

Recordable(e) ==
    /\ outcome[e.episode] \notin Closings
    /\ Follows(e)
    /\ \A f \in turns : f.id # e.id     \* the primary key

RecordTx(e) ==
    /\ Recordable(e)
    /\ turns' = turns \cup {e}
    /\ outcome' = [outcome EXCEPT ![e.episode] = "open"]
    /\ UNCHANGED feedback

\* The foreign key refuses feedback on a turn that is not stored, and a
\* repeated feedback id returns without a change.
FeedbackTx(f) ==
    /\ \E e \in turns : e.id = f.turn
    /\ feedback' = feedback \cup {f}
    /\ UNCHANGED <<turns, outcome>>

\* finish(): the test comes before the transaction, which is an UPDATE that
\* looks at nothing.
FinishAllowed(ep, how) ==
    /\ outcome[ep] # "absent"
    /\ outcome[ep] \in Closings => outcome[ep] = how

FinishTx(ep, how) ==
    /\ outcome[ep] # "absent"
    /\ outcome' = [outcome EXCEPT ![ep] = how]
    /\ UNCHANGED <<turns, feedback>>

StoreNext ==
    \/ \E e \in Event : RecordTx(e)
    \/ \E f \in Feedback : FeedbackTx(f)
    \/ \E ep \in Episodes, how \in Closings : FinishTx(ep, how)

StoreSpec == StoreInit /\ [][StoreNext]_storeVars

----------------------------------------------------------------------------
\* export(): a row of the exported file, from the rows read first and the
\* feedback read for each of them afterwards.
Rated(fb, e) == [turn |-> e.id, kind |-> "rating"] \in fb

RowOpen(e, rows, closings, fb) ==   \* mutant: open episodes are eligible
    LET last == \A f \in rows : f.episode = e.episode => f.step <= e.step
    IN  [event |-> e, reviewed |-> Rated(fb, e), eligible |-> Rated(fb, e) /\ e.real,
         ends |-> IF last THEN "truncated" ELSE "no"]

Row(e, rows, closings, fb) ==
    LET last == \A f \in rows : f.episode = e.episode => f.step <= e.step
    IN  [event |-> e,
         reviewed |-> Rated(fb, e),
         eligible |-> /\ closings[e.episode] \in Closings
                      /\ Rated(fb, e)
                      /\ e.real,
         ends |-> IF ~last THEN "no"
                  ELSE IF closings[e.episode] = "terminated" THEN "terminated"
                  ELSE "truncated"]

ExportRows(rows, closings, fb) == {Row(e, rows, closings, fb) : e \in rows}

\* review_queue(): what the reviewer is shown, newest first, at most limit.
ReviewQueue(rows, status, limit) ==
    LET shown == {r \in rows : CASE status = "reviewed" -> r.reviewed
                                 [] status = "unreviewed" -> ~r.reviewed
                                 [] OTHER -> TRUE}
        Newer(r, s) == \/ r.event.episode > s.event.episode
                       \/ /\ r.event.episode = s.event.episode
                          /\ r.event.step > s.event.step
    IN  {r \in shown : Cardinality({s \in shown : Newer(s, r)}) < limit}

----------------------------------------------------------------------------
StoreTypeOK ==
    /\ turns \subseteq Event
    /\ outcome \in [Episodes -> {"absent", "open"} \cup Closings]
    /\ feedback \subseteq Feedback

\* What is stored of an episode is its first turns without a gap, one event
\* a step, and every turn starts in the state the one before it ended in,
\* although retries, imports and two tabs offer events in any order
\* (record(), trajectory_store.py:46-62).
EpisodeWhole ==
    /\ \A e, f \in turns : (e.id = f.id \/ (e.episode = f.episode /\ e.step = f.step)) => e = f
    /\ \A e \in turns :
          \/ e.step = 1
          \/ \E p \in turns : /\ p.episode = e.episode
                              /\ p.step + 1 = e.step
                              /\ p.after = e.before

\* A stored turn is never changed or removed, and an episode that was closed
\* gets no more turns and is never open again, whichever order finish() and
\* record() of two processes take (trajectory_store.py:52-54, 83-90).
StaysShut ==
    /\ turns \subseteq turns'
    /\ \A ep \in Episodes : outcome[ep] \in Closings =>
          /\ outcome'[ep] \in Closings
          /\ \A e \in turns' \ turns : e.episode # ep
=============================================================================

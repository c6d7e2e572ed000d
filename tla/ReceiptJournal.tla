---------------------------- MODULE ReceiptJournal ----------------------------
(***************************************************************************)
(* The append-only evidence of the Pi home: the hash-chained journal       *)
(* (scripts/pi_home_evidence_journal.cjs), the ledger of verified decision *)
(* receipts written through it (pi_home_decision_receipt_ledger.cjs) and   *)
(* the anchors published about it (pi_home_journal_anchor_store.cjs), used *)
(* by several processes of one machine, each with its own cached records.  *)
(*                                                                         *)
(* The hash of a record covers its event and the hash before it, so it is  *)
(* modelled as what it commits to: the sequence of all events up to its    *)
(* own.  The same history stands for the seal of a journal (its count,     *)
(* head hash, receipt count and receipt index all follow from it).         *)
(***************************************************************************)
EXTENDS SequencesExt

CONSTANTS Process,
          NoProcess,      \* owner of a free lock
          Receipt,        \* decision receipts that verify, by decision id
          Note,           \* any event of another type
          MaxLength,      \* bound on the records of a file
          MaxFaults       \* bound on failures, crashes and power losses

ASSUME JournalAssumption == /\ NoProcess \notin Process
                            /\ IsFiniteSet(Process)
                            /\ Note \notin Receipt
                            /\ MaxLength \in Nat
                            /\ MaxFaults \in Nat

Event == Receipt \cup {Note}
Log == {"journal", "anchors"}

VARIABLES log,        \* records of each file: histories, seals
          tail,       \* how its last line ends
          lock,       \* owner written into its lock file
          pc,         \* where each process is
          op,         \* what it does there
          event,      \* the event it records
          records,    \* its cached records of the journal (this.records)
          latest,     \* the history it read under the lock and continues
          seal,       \* the last seal it holds
          lost,       \* a power loss dropped records of the journal
          faults      \* how many faults there were (bounds the model only)

fileVars == <<log, tail, lock, lost, faults>>
processVars == <<pc, op, event, records, latest, seal>>
vars == <<log, tail, lock, pc, op, event, records, latest, seal, lost, faults>>

Position == {"down", "idle", "lock", "read", "write", "return", "throw", "seal"}
History == BoundedSeq(Event, MaxLength)
File == BoundedSeq(History, MaxLength)

TypeOK == /\ log \in [Log -> File]
          /\ tail \in [Log -> {"whole", "unterminated", "broken"}]
          /\ lock \in [Log -> Process \cup {NoProcess}]
          /\ pc \in [Process -> Position]
          /\ op \in [Process -> {"append", "receipt", "publish"}]
          /\ event \in [Process -> Event]
          /\ records \in [Process -> History]
          /\ latest \in [Process -> History]
          /\ seal \in [Process -> History]
          /\ lost \in BOOLEAN
          /\ faults \in 0..MaxFaults

Init == /\ log = [f \in Log |-> <<>>]
        /\ tail = [f \in Log |-> "whole"]
        /\ lock = [f \in Log |-> NoProcess]
        /\ pc = [p \in Process |-> "idle"]
        /\ op = [p \in Process |-> "append"]
        /\ event = [p \in Process |-> Note]
        /\ records = [p \in Process |-> <<>>]
        /\ latest = [p \in Process |-> <<>>]
        /\ seal = [p \in Process |-> <<>>]
        /\ lost = FALSE
        /\ faults = 0
-----------------------------------------------------------------------------
(* What the verification of a file sees *)

\* The history a file commits to: that of its last record.
Committed(file) == IF file = <<>> THEN <<>> ELSE Last(file)

Receipts(history) == SelectSeq(history, LAMBDA e : e \in Receipt)

\* assertUniqueHistory: no decision occurs twice.
UniqueReceipts(history) == IsInjective(Receipts(history))

\* verifyEvidenceRecords: the sequence numbers and the previous hashes chain.
VerifiedRecords(file) ==
  \A i \in DOMAIN file :
    /\ file[i] # <<>>
    /\ Len(file[i]) = i
    /\ Front(file[i]) = Committed(SubSeq(file, 1, i - 1))

\* A seal may follow another one in the anchor chain.
Advances(new, previous) == /\ Len(new) > Len(previous)
                           /\ Len(Receipts(new)) >= Len(Receipts(previous))

VerifiedAnchors(file) ==
  \A i \in 2..Len(file) : Advances(file[i], file[i - 1])

\* Reading it throws on a line that does not parse, and on a broken chain.
Readable(f) == /\ tail[f] # "broken"
               /\ IF f = "journal" THEN VerifiedRecords(log[f])
                                   ELSE VerifiedAnchors(log[f])

\* verifyJournal: the journal still starts with what the anchor sealed.
AcceptsAnchor(anchor) == /\ Readable("journal")
                         /\ IsPrefix(anchor, Committed(log["journal"]))
-----------------------------------------------------------------------------
(* Steps of a process *)

Target(p) == IF op[p] = "publish" THEN "anchors" ELSE "journal"

Goto(p, position) == /\ pc' = [pc EXCEPT ![p] = position]
                     /\ UNCHANGED <<op, event>>

\* The call is over, by a return, an exception or the end of the process.
Ends(p, position) == /\ pc' = [pc EXCEPT ![p] = position]
                     /\ op' = [op EXCEPT ![p] = "append"]
                     /\ event' = [event EXCEPT ![p] = Note]

\* Bound: one more of the faults.
Fault == faults < MaxFaults /\ faults' = faults + 1

\* Bound: calls under way included, a file gets no more than MaxLength records.
Room(f) == Len(log[f]) + Cardinality({p \in Process :
                            pc[p] \notin {"down", "idle"} /\ Target(p) = f})
             < MaxLength

\* journal.append() of an event, or appendVerifiedReceipt(), which looks for
\* the decision in the cached records first and throws if it is there.
Begin(p, e) == /\ pc[p] = "idle"
               /\ Room("journal")
               /\ \/ op' = [op EXCEPT ![p] = "append"] /\ e = Note
                  \/ /\ op' = [op EXCEPT ![p] = "receipt"]
                     /\ e \in Receipt
                     /\ UniqueReceipts(records[p])
                     /\ ~Contains(records[p], e)
               /\ event' = [event EXCEPT ![p] = e]
               /\ pc' = [pc EXCEPT ![p] = "lock"]
               /\ UNCHANGED <<fileVars, records, latest, seal>>

\* publish() of the last seal the process was given.
BeginPublish(p) == /\ pc[p] = "idle"
                   /\ Room("anchors")
                   /\ op' = [op EXCEPT ![p] = "publish"]
                   /\ pc' = [pc EXCEPT ![p] = "lock"]
                   /\ UNCHANGED <<fileVars, event, records, latest, seal>>

\* For a mutant: the lock is not exclusive.
LockShared(p) == /\ pc[p] = "lock"
                 /\ lock' = [lock EXCEPT ![Target(p)] = p]
                 /\ Goto(p, "read")
                 /\ UNCHANGED <<log, tail, lost, faults, records, latest, seal>>

\* The lock file is created exclusively; a held lock is an error, no wait.
Lock(p) == /\ pc[p] = "lock"
           /\ IF lock[Target(p)] = NoProcess
                THEN /\ lock' = [lock EXCEPT ![Target(p)] = p]
                     /\ Goto(p, "read")
                ELSE /\ Ends(p, "idle")
                     /\ UNCHANGED lock
           /\ UNCHANGED <<log, tail, lost, faults, records, latest, seal>>

\* The file is read and verified again; the anchors must advance.
Read(p) ==
  /\ pc[p] = "read"
  /\ IF /\ Readable(Target(p))
        /\ op[p] = "publish" =>
             log["anchors"] = <<>> \/ Advances(seal[p], Last(log["anchors"]))
       THEN /\ latest' = [latest EXCEPT ![p] = Committed(log[Target(p)])]
            /\ Goto(p, "write")
       ELSE /\ Goto(p, "throw")
            /\ UNCHANGED latest
  /\ UNCHANGED <<fileVars, records, seal>>

\* The record that continues what the process read.
Record(p) == IF op[p] = "publish" THEN seal[p]
             ELSE Append(latest[p], event[p])

\* A line written behind one that lacks its end makes one line of both.
Written(p, end) ==
  IF tail[Target(p)] = "whole"
    THEN /\ log' = [log EXCEPT ![Target(p)] = Append(@, Record(p))]
         /\ tail' = [tail EXCEPT ![Target(p)] = end]
    ELSE /\ tail' = [tail EXCEPT ![Target(p)] = "broken"]
         /\ UNCHANGED log

Write(p) == /\ pc[p] = "write"
            /\ Written(p, "whole")
            /\ records' = IF op[p] = "publish" THEN records
                          ELSE [records EXCEPT ![p] = Record(p)]
            /\ Goto(p, "return")
            /\ UNCHANGED <<lock, lost, faults, latest, seal>>

\* appendFileSync throws: nothing was written, a part of the line, all of it
\* but its end, or all of it.  The cached records stay behind.
WriteFails(p) == /\ pc[p] = "write"
                 /\ Fault
                 /\ \/ UNCHANGED <<log, tail>>
                    \/ /\ tail' = [tail EXCEPT ![Target(p)] = "broken"]
                       /\ UNCHANGED log
                    \/ \E end \in {"whole", "unterminated"} : Written(p, end)
                 /\ Goto(p, "throw")
                 /\ UNCHANGED <<lock, lost, records, latest, seal>>

\* The finally block; an error of the unlink is swallowed and the lock stays.
Unlock(p) ==
  /\ pc[p] \in {"return", "throw"}
  /\ \/ Fault /\ UNCHANGED lock
     \/ lock' = [lock EXCEPT ![Target(p)] = NoProcess] /\ UNCHANGED faults
  /\ latest' = [latest EXCEPT ![p] = <<>>]
  /\ IF pc[p] = "return" /\ op[p] = "receipt"
       THEN Goto(p, "seal")
       ELSE Ends(p, "idle")
  /\ UNCHANGED <<log, tail, lost, records, seal>>

\* For a mutant: the seal is built from the cached records.
SealFromMemory(p) == /\ pc[p] = "seal"
                     /\ seal' = [seal EXCEPT ![p] = records[p]]
                     /\ Ends(p, "idle")
                     /\ UNCHANGED <<fileVars, records, latest>>

\* The receipt is answered with a seal of the file as it is by now; a file that
\* cannot be read throws, although the receipt is recorded.
Seal(p) == /\ pc[p] = "seal"
           /\ IF Readable("journal")
                THEN /\ records' = [records EXCEPT ![p] = Committed(log["journal"])]
                     /\ seal' = [seal EXCEPT ![p] = Committed(log["journal"])]
                ELSE UNCHANGED <<records, seal>>
           /\ Ends(p, "idle")
           /\ UNCHANGED <<fileVars, latest>>

\* refresh(), seal(), snapshot() and verifyJournal() read the file again.
Refresh(p) == /\ pc[p] = "idle"
              /\ Readable("journal")
              /\ records' = [records EXCEPT ![p] = Committed(log["journal"])]
              /\ seal' = [seal EXCEPT ![p] = Committed(log["journal"])]
              /\ UNCHANGED <<fileVars, pc, op, event, latest>>

\* A file-system call throws elsewhere than in the write itself.
Throw(p) == /\ \/ pc[p] \in {"lock", "seal"} /\ Ends(p, "idle")
               \/ pc[p] = "read" /\ Goto(p, "throw")
            /\ Fault
            /\ UNCHANGED <<log, tail, lock, lost, records, latest, seal>>

Step(p) == \/ Lock(p)
           \/ Read(p)
           \/ Write(p)
           \/ WriteFails(p)
           \/ Unlock(p)
           \/ Seal(p)
-----------------------------------------------------------------------------
(* Crashes, and what an operator does about them *)

\* A process is killed; its lock file stays.
Crash(p) == /\ pc[p] # "down"
            /\ Fault
            /\ Ends(p, "down")
            /\ records' = [records EXCEPT ![p] = <<>>]
            /\ latest' = [latest EXCEPT ![p] = <<>>]
            /\ seal' = [seal EXCEPT ![p] = <<>>]
            /\ UNCHANGED <<log, tail, lock, lost>>

\* The constructors read and verify both files and the uniqueness of receipts.
Start(p) == /\ pc[p] = "down"
            /\ \A f \in Log : Readable(f)
            /\ UniqueReceipts(Committed(log["journal"]))
            /\ records' = [records EXCEPT ![p] = Committed(log["journal"])]
            /\ Goto(p, "idle")
            /\ UNCHANGED <<fileVars, latest, seal>>

\* The code never judges a lock stale; somebody removes the lock of a process
\* that is not inside it.
RemoveStaleLock(f) ==
  /\ lock[f] # NoProcess
  /\ LET p == lock[f] IN
       ~(Target(p) = f /\ pc[p] \in {"read", "write", "return", "throw"})
  /\ lock' = [lock EXCEPT ![f] = NoProcess]
  /\ UNCHANGED <<log, tail, lost, faults, processVars>>

\* Appended lines are not synced: a power loss may drop the last ones of each
\* file, and leave a part of the first one it drops.
PowerLoss ==
  /\ Fault
  /\ \E left \in [Log -> 0..MaxLength], end \in [Log -> {"whole", "broken"}] :
       /\ \A f \in Log : left[f] <= Len(log[f])
       /\ log' = [f \in Log |-> SubSeq(log[f], 1, left[f])]
       /\ tail' = [f \in Log |-> IF left[f] = Len(log[f]) THEN tail[f] ELSE end[f]]
       /\ lost' = (lost \/ left["journal"] < Len(log["journal"]))
  /\ pc' = [p \in Process |-> "down"]
  /\ op' = [p \in Process |-> "append"]
  /\ event' = [p \in Process |-> Note]
  /\ records' = [p \in Process |-> <<>>]
  /\ latest' = [p \in Process |-> <<>>]
  /\ seal' = [p \in Process |-> <<>>]
  /\ UNCHANGED lock

Next == \/ PowerLoss
        \/ \E f \in Log : RemoveStaleLock(f)
        \/ \E p \in Process :
             \/ \E e \in Event : Begin(p, e)
             \/ BeginPublish(p)
             \/ Step(p)
             \/ Throw(p)
             \/ Refresh(p)
             \/ Crash(p)
             \/ Start(p)

Spec == Init /\ [][Next]_vars
-----------------------------------------------------------------------------
(* Properties *)

\* However the processes interleave, fail to write, die and have their locks
\* removed, the records in the journal always form one hash chain: no two
\* processes ever continue the same record.
JournalChains == VerifiedRecords(log["journal"])

\* A seal is a promise about the file: as long as no power loss drops records,
\* every seal handed out and every anchor published is a beginning of the
\* journal, and the seal of a receipt is one of the file, not of the cache.
SealsHold ==
  ~lost => /\ \A p \in Process : IsPrefix(seal[p], Committed(log["journal"]))
           /\ \A i \in DOMAIN log["anchors"] :
                IsPrefix(log["anchors"][i], Committed(log["journal"]))

\* The file is one chain, and whoever was told of a part of it was told right.
JournalHolds == TypeOK /\ JournalChains /\ SealsHold

\* Stores that cached different heads still publish anchors that only advance,
\* whichever of them publishes the older seal last.
AnchorsAdvance == VerifiedAnchors(log["anchors"])

=============================================================================

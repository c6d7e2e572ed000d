------------------------ MODULE ReceiptJournalProofs -------------------------
(***************************************************************************)
(* For every number of processes, every set of receipts, every length of   *)
(* the files and every number of faults: the journal is one hash chain,    *)
(* anchors only advance, and a seal is a beginning of the journal until a  *)
(* power loss drops records.                                               *)
(***************************************************************************)
EXTENDS ReceiptJournal, SequenceTheorems, FiniteSetTheorems, TLAPS

\* A process that holds the lock of its file by the rules of the code.
Inside(p) == pc[p] \in {"read", "write", "return", "throw"}

\* Those who may still write to a file.
Coming(f) == {p \in Process : /\ pc[p] \in {"lock", "read", "write"}
                              /\ Target(p) = f}

\* Whoever is between taking the lock and giving it back is its owner, although
\* locks survive their owners and are removed by hand.
Alone == \A p \in Process : Inside(p) => lock[Target(p)] = p

\* What a process is about to write continues the file as it is, not only as it
\* was when the process read it.
Current == \A p \in Process : pc[p] = "write" =>
             IF op[p] = "publish"
               THEN \/ log["anchors"] = <<>>
                    \/ Advances(seal[p], Last(log["anchors"]))
               ELSE latest[p] = Committed(log["journal"])

\* Every call under way has room for its record.
RoomLeft == \A f \in Log : Len(log[f]) + Cardinality(Coming(f)) <= MaxLength

IInv == /\ TypeOK
        /\ JournalChains
        /\ SealsHold
        /\ AnchorsAdvance
        /\ Alone
        /\ Current
        /\ RoomLeft
-----------------------------------------------------------------------------
(* Sequences *)

\* A bounded sequence is a sequence that is not longer than the bound.
LEMMA Bounded ==
  ASSUME NEW S, NEW n \in Nat
  PROVE  \A s : s \in BoundedSeq(S, n) <=> s \in Seq(S) /\ Len(s) <= n
<1>1. ASSUME NEW s, s \in BoundedSeq(S, n)
      PROVE  s \in Seq(S) /\ Len(s) <= n
  <2>1. PICK m \in 0..n : s \in [1..m -> S]
    BY <1>1 DEF BoundedSeq, SeqOf
  <2>2. QED  BY <2>1
<1>2. ASSUME NEW s \in Seq(S), Len(s) <= n
      PROVE  s \in BoundedSeq(S, n)
  <2>1. Len(s) \in 0..n /\ s \in [1..Len(s) -> S]
    BY <1>2
  <2>2. QED  BY <2>1 DEF BoundedSeq, SeqOf
<1>3. QED  BY <1>1, <1>2

\* A history begins with itself and with nothing, and growing keeps its beginning.
LEMMA PrefixSelf ==
  ASSUME NEW S, NEW s \in Seq(S)
  PROVE  IsPrefix(s, s) /\ IsPrefix(<<>>, s)
  BY DEF IsPrefix

LEMMA PrefixGrows ==
  ASSUME NEW S, NEW s \in Seq(S), NEW t \in Seq(S), NEW e \in S, IsPrefix(s, t)
  PROVE  IsPrefix(s, Append(t, e))
<1>1. SubSeq(Append(t, e), 1, Len(s)) = SubSeq(t, 1, Len(s))
  BY DEF IsPrefix
<1>2. QED  BY <1>1 DEF IsPrefix

LEMMA FrontOfAppend ==
  ASSUME NEW S, NEW s \in Seq(S), NEW e \in S
  PROVE  Front(Append(s, e)) = s
  BY DEF Front

LEMMA CommittedByAppend ==
  ASSUME NEW S, NEW file \in Seq(S), NEW e \in S
  PROVE  Committed(Append(file, e)) = e
<1>1. Append(file, e) # <<>> /\ Len(Append(file, e)) = Len(file) + 1
  BY AppendProperties
<1>2. Append(file, e)[Len(file) + 1] = e
  BY AppendProperties
<1>3. QED  BY <1>1, <1>2 DEF Committed, Last

\* The last record of a chain has the length of the chain.
LEMMA ChainLength ==
  ASSUME NEW file \in Seq(Seq(Event)), VerifiedRecords(file)
  PROVE  Committed(file) \in Seq(Event) /\ Len(Committed(file)) = Len(file)
<1>1. CASE file = <<>>
  BY <1>1 DEF Committed
<1>2. CASE file # <<>>
  <2>1. Len(file) \in DOMAIN file /\ file[Len(file)] \in Seq(Event)
    BY <1>2
  <2>2. QED  BY <1>2, <2>1 DEF Committed, VerifiedRecords, Last
<1>3. QED  BY <1>1, <1>2

\* A record that continues the last one keeps the chain whole.
LEMMA ChainGrows ==
  ASSUME NEW file \in Seq(Seq(Event)), VerifiedRecords(file), NEW e \in Event
  PROVE  VerifiedRecords(Append(file, Append(Committed(file), e)))
<1> DEFINE h == Committed(file)
           new == Append(file, Append(h, e))
<1>1. h \in Seq(Event) /\ Len(h) = Len(file)
  BY ChainLength
<1>2. Append(h, e) \in Seq(Event) /\ Len(Append(h, e)) = Len(file) + 1 /\ Append(h, e) # <<>>
  BY <1>1, AppendProperties
<1>3. new \in Seq(Seq(Event)) /\ Len(new) = Len(file) + 1
  BY <1>2
<1>4. ASSUME NEW i \in DOMAIN new
      PROVE  /\ new[i] # <<>>
             /\ Len(new[i]) = i
             /\ Front(new[i]) = Committed(SubSeq(new, 1, i - 1))
  <2>1. i \in 1..Len(file) + 1
    BY <1>3
  <2>2. SubSeq(new, 1, i - 1) = SubSeq(file, 1, i - 1)
    BY <1>2, <2>1
  <2>3. CASE i \in 1..Len(file)
    <3>1. new[i] = file[i] /\ i \in DOMAIN file
      BY <1>2, <2>3
    <3>2. QED  BY <2>2, <3>1 DEF VerifiedRecords
  <2>4. CASE i = Len(file) + 1
    <3>1. new[i] = Append(h, e)
      BY <1>2, <2>4
    <3>2. SubSeq(new, 1, i - 1) = file
      BY <2>2, <2>4
    <3>3. Front(Append(h, e)) = h
      BY <1>1, FrontOfAppend
    <3>4. QED  BY <1>2, <2>4, <3>1, <3>2, <3>3
  <2>5. QED  BY <2>1, <2>3, <2>4
<1>5. QED  BY <1>4 DEF VerifiedRecords

\* A chain that loses its last records is a chain.
LEMMA ChainCut ==
  ASSUME NEW file \in Seq(Seq(Event)), VerifiedRecords(file), NEW n \in 0..Len(file)
  PROVE  VerifiedRecords(SubSeq(file, 1, n))
<1> DEFINE new == SubSeq(file, 1, n)
<1>1. new \in Seq(Seq(Event)) /\ Len(new) = n
  OBVIOUS
<1>2. ASSUME NEW i \in DOMAIN new
      PROVE  i \in DOMAIN file /\ new[i] = file[i] /\ SubSeq(new, 1, i - 1) = SubSeq(file, 1, i - 1)
  BY <1>1
<1>3. QED  BY <1>2 DEF VerifiedRecords

\* Anchors that advance still do so after one that advances, and without the
\* last ones.
LEMMA AnchorsGrow ==
  ASSUME NEW file \in Seq(Seq(Event)), VerifiedAnchors(file), NEW new \in Seq(Event),
         file = <<>> \/ Advances(new, Last(file))
  PROVE  VerifiedAnchors(Append(file, new))
<1> DEFINE all == Append(file, new)
<1>1. all \in Seq(Seq(Event)) /\ Len(all) = Len(file) + 1
  OBVIOUS
<1>2. ASSUME NEW i \in 2..Len(all)
      PROVE  Advances(all[i], all[i - 1])
  <2>1. CASE i \in 2..Len(file)
    <3>1. all[i] = file[i] /\ all[i - 1] = file[i - 1]
      BY <2>1
    <3>2. QED  BY <2>1, <3>1 DEF VerifiedAnchors
  <2>2. CASE i = Len(file) + 1
    <3>1. file # <<>> /\ all[i] = new /\ all[i - 1] = Last(file)
      BY <1>2, <2>2 DEF Last
    <3>2. QED  BY <3>1
  <2>3. QED  BY <1>1, <2>1, <2>2
<1>3. QED  BY <1>2 DEF VerifiedAnchors

\* What a cut leaves is what was there.
LEMMA CutKeeps ==
  ASSUME NEW S, NEW file \in Seq(S), NEW n \in 0..Len(file)
  PROVE  /\ SubSeq(file, 1, n) \in Seq(S)
         /\ Len(SubSeq(file, 1, n)) = n
         /\ \A i \in 1..n : i \in 1..Len(file) /\ SubSeq(file, 1, n)[i] = file[i]
  OBVIOUS

LEMMA AnchorsCut ==
  ASSUME NEW file \in Seq(Seq(Event)), VerifiedAnchors(file), NEW n \in 0..Len(file)
  PROVE  VerifiedAnchors(SubSeq(file, 1, n))
<1> DEFINE new == SubSeq(file, 1, n)
<1>1. Len(new) = n
  OBVIOUS
<1>2. ASSUME NEW i \in 2..n
      PROVE  new[i] = file[i] /\ new[i - 1] = file[i - 1] /\ i \in 2..Len(file)
  OBVIOUS
<1>3. QED  BY <1>1, <1>2 DEF VerifiedAnchors
-----------------------------------------------------------------------------
(* States *)

\* Histories and files are sequences.
LEMMA Typed ==
  ASSUME TypeOK
  PROVE  /\ \A f \in Log : log[f] \in Seq(Seq(Event)) /\ Len(log[f]) <= MaxLength
         /\ \A f \in Log : \A i \in DOMAIN log[f] : log[f][i] \in History
         /\ \A p \in Process : /\ seal[p] \in Seq(Event)
                               /\ latest[p] \in Seq(Event)
<1>1. \A h : h \in History <=> h \in Seq(Event) /\ Len(h) <= MaxLength
  BY Bounded, JournalAssumption DEF History
<1>2. \A f : f \in File <=> f \in Seq(History) /\ Len(f) <= MaxLength
  BY Bounded, JournalAssumption DEF File
<1>3. History \subseteq Seq(Event)
  BY <1>1
<1>4. \A f \in Log : log[f] \in Seq(History) /\ Len(log[f]) <= MaxLength
  BY <1>2 DEF TypeOK
<1>5. \A p \in Process : seal[p] \in History /\ latest[p] \in History
  BY DEF TypeOK
<1>6. \A f \in Log : log[f] \in Seq(Seq(Event))
  BY <1>3, <1>4, SeqMonotonic
<1>7. \A f \in Log : \A i \in DOMAIN log[f] : log[f][i] \in History
  BY <1>4
<1>8. QED  BY <1>1, <1>4, <1>5, <1>6, <1>7

\* The history the journal commits to is one.
LEMMA Tip ==
  ASSUME TypeOK, JournalChains
  PROVE  /\ Committed(log["journal"]) \in History
         /\ Len(Committed(log["journal"])) = Len(log["journal"])
<1>1. log["journal"] \in Seq(Seq(Event)) /\ Len(log["journal"]) <= MaxLength
  BY Typed DEF Log
<1>2. /\ Committed(log["journal"]) \in Seq(Event)
      /\ Len(Committed(log["journal"])) = Len(log["journal"])
  BY <1>1, ChainLength DEF JournalChains
<1>3. QED  BY <1>1, <1>2, Bounded, JournalAssumption DEF History

\* Who may still write is a finite set.
LEMMA Comers ==
  ASSUME NEW f \in Log
  PROVE  IsFiniteSet(Coming(f)) /\ Cardinality(Coming(f)) \in Nat
<1>1. Coming(f) \in SUBSET Process
  BY DEF Coming
<1>2. QED  BY <1>1, FS_Subset, FS_CardinalityType, JournalAssumption

LEMMA ComersLater ==
  ASSUME NEW f \in Log
  PROVE  IsFiniteSet(Coming(f)') /\ Cardinality(Coming(f)') \in Nat
<1>1. Coming(f)' \in SUBSET Process
  BY DEF Coming
<1>2. QED  BY <1>1, FS_Subset, FS_CardinalityType, JournalAssumption

\* As long as nothing is written and nobody new comes, the room lasts.
LEMMA RoomKept ==
  ASSUME TypeOK, RoomLeft, log' = log, \A f \in Log : Coming(f)' \subseteq Coming(f)
  PROVE  RoomLeft'
<1>1. ASSUME NEW f \in Log
      PROVE  Len(log'[f]) + Cardinality(Coming(f)') <= MaxLength
  <2>1. Len(log[f]) + Cardinality(Coming(f)) <= MaxLength
    BY DEF RoomLeft
  <2>2. Cardinality(Coming(f)') <= Cardinality(Coming(f))
    BY Comers, FS_Subset
  <2>3. Len(log[f]) \in Nat /\ MaxLength \in Nat
    BY Typed, JournalAssumption
  <2>4. QED  BY <2>1, <2>2, <2>3, Comers, ComersLater
<1>2. QED  BY <1>1 DEF RoomLeft

\* The files say what they said as long as nothing is written.
LEMMA FilesKept ==
  ASSUME JournalChains, AnchorsAdvance, log' = log
  PROVE  JournalChains' /\ AnchorsAdvance'
  BY DEF JournalChains, AnchorsAdvance

\* Seals that are kept, dropped or taken from the file hold.
LEMMA SealsKept ==
  ASSUME TypeOK, JournalChains, SealsHold, log' = log, lost' = lost,
         \A p \in Process : seal'[p] \in {seal[p], <<>>, Committed(log["journal"])}
  PROVE  SealsHold'
<1>1. Committed(log["journal"]) \in Seq(Event)
  BY Tip, Bounded, JournalAssumption DEF History
<1>2. /\ IsPrefix(<<>>, Committed(log["journal"]))
      /\ IsPrefix(Committed(log["journal"]), Committed(log["journal"]))
  BY <1>1, PrefixSelf
<1>3. QED  BY <1>2 DEF SealsHold
-----------------------------------------------------------------------------
(* Steps that write nothing and take no lock *)

\* The process stays as it is, is outside any file, or leaves the one it is in.
Keeps(p) == /\ pc'[p] = pc[p] /\ op'[p] = op[p]
            /\ latest'[p] = latest[p] /\ seal'[p] = seal[p]
IsOut(p) == /\ pc'[p] \in {"down", "idle", "seal"}
            /\ seal'[p] \in {seal[p], <<>>, Committed(log["journal"])}
Leaves(p) == /\ Inside(p) /\ pc'[p] \in {"return", "throw"}
             /\ op'[p] = op[p] /\ seal'[p] = seal[p]

LEMMA Quiet ==
  ASSUME IInv, TypeOK', log' = log, lost' = lost, lock' = lock,
         \A p \in Process : Keeps(p) \/ IsOut(p) \/ Leaves(p)
  PROVE  IInv'
<1>1. JournalChains' /\ AnchorsAdvance'
  BY FilesKept DEF IInv
<1>2. SealsHold'
  BY SealsKept DEF IInv, Keeps, IsOut, Leaves
<1>3. Alone'
  BY DEF IInv, Alone, Keeps, IsOut, Leaves, Inside, Target
<1>4. Current'
  BY DEF IInv, Current, Keeps, IsOut, Leaves
<1>5. RoomLeft'
  <2>1. \A f \in Log : Coming(f)' \subseteq Coming(f)
    BY DEF Coming, Target, Keeps, IsOut, Leaves
  <2>2. QED  BY <2>1, RoomKept DEF IInv
<1>6. QED  BY <1>1, <1>2, <1>3, <1>4, <1>5 DEF IInv

\* A call that is over, in one of the ways it can be.
LEMMA Ended ==
  ASSUME IInv, NEW p \in Process, NEW position \in {"down", "idle"}, Ends(p, position),
         log' = log, tail' \in [Log -> {"whole", "unterminated", "broken"}],
         lost' = lost, lock' = lock, faults' \in 0..MaxFaults,
         \A q \in Process \ {p} : seal'[q] = seal[q] /\ latest'[q] = latest[q],
         seal'[p] \in {seal[p], <<>>, Committed(log["journal"])},
         records' \in [Process -> History], latest' \in [Process -> History],
         seal' \in [Process -> History]
  PROVE  IInv'
<1>1. TypeOK'
  BY DEF IInv, TypeOK, Ends, Position, Event
<1>2. \A q \in Process : Keeps(q) \/ IsOut(q)
  BY DEF IInv, TypeOK, Ends, Keeps, IsOut
<1>3. QED  BY <1>1, <1>2, Quiet

LEMMA SealStep ==
  ASSUME IInv, NEW p \in Process, Seal(p)
  PROVE  IInv'
<1>1. Committed(log["journal"]) \in History
  BY Tip DEF IInv
<1>2. QED  BY <1>1, Ended DEF Seal, IInv, TypeOK, fileVars

LEMMA RefreshStep ==
  ASSUME IInv, NEW p \in Process, Refresh(p)
  PROVE  IInv'
<1>1. Committed(log["journal"]) \in History
  BY Tip DEF IInv
<1>2. TypeOK'
  BY <1>1 DEF Refresh, IInv, TypeOK, fileVars
<1>3. \A q \in Process : Keeps(q) \/ IsOut(q)
  BY DEF Refresh, IInv, TypeOK, Keeps, IsOut
<1>4. QED  BY <1>2, <1>3, Quiet DEF Refresh, fileVars

LEMMA EmptyHistory == <<>> \in History
<1>1. <<>> \in Seq(Event) /\ Len(<<>>) <= MaxLength
  BY JournalAssumption
<1>2. QED  BY <1>1, Bounded, JournalAssumption DEF History

LEMMA CrashStep ==
  ASSUME IInv, NEW p \in Process, Crash(p)
  PROVE  IInv'
  BY EmptyHistory, Ended, JournalAssumption DEF Crash, Fault, IInv, TypeOK

LEMMA StartStep ==
  ASSUME IInv, NEW p \in Process, Start(p)
  PROVE  IInv'
<1>1. Committed(log["journal"]) \in History
  BY Tip DEF IInv
<1>2. TypeOK'
  BY <1>1 DEF Start, Goto, IInv, TypeOK, fileVars, Position
<1>3. \A q \in Process : Keeps(q) \/ IsOut(q)
  BY DEF Start, Goto, IInv, TypeOK, Keeps, IsOut
<1>4. QED  BY <1>2, <1>3, Quiet DEF Start, fileVars

LEMMA ThrowStep ==
  ASSUME IInv, NEW p \in Process, Throw(p)
  PROVE  IInv'
<1>1. faults' \in 0..MaxFaults
  BY JournalAssumption DEF Throw, Fault, IInv, TypeOK
<1>2. CASE Ends(p, "idle")
  BY <1>1, <1>2, Ended DEF Throw, IInv, TypeOK
<1>3. CASE pc[p] = "read" /\ Goto(p, "throw")
  <2>1. TypeOK'
    BY <1>1, <1>3 DEF Throw, Goto, IInv, TypeOK, Position
  <2>2. \A q \in Process : Keeps(q) \/ Leaves(q)
    BY <1>3 DEF Throw, Goto, IInv, TypeOK, Keeps, Leaves, Inside
  <2>3. QED  BY <2>1, <2>2, Quiet DEF Throw
<1>4. QED  BY <1>2, <1>3 DEF Throw
-----------------------------------------------------------------------------
(* Beginning a call, and taking and giving back the lock *)

\* A call is only begun when its record has room beside those under way.
LEMMA RoomForOne ==
  ASSUME IInv, NEW p \in Process, pc[p] = "idle", NEW f \in Log, Room(f), log' = log,
         pc' = [pc EXCEPT ![p] = "lock"], op' = [op EXCEPT ![p] = op'[p]],
         Target(p)' = f
  PROVE  RoomLeft'
<1>1. ASSUME NEW g \in Log
      PROVE  Len(log[g]) + Cardinality(Coming(g)') <= MaxLength
  <2>1. CASE g = f
    <3> DEFINE all == {q \in Process : pc[q] \notin {"down", "idle"} /\ Target(q) = f}
    <3>1. all \in SUBSET Process
      OBVIOUS
    <3>2. IsFiniteSet(all) /\ Cardinality(all) \in Nat
      BY <3>1, FS_Subset, FS_CardinalityType, JournalAssumption
    <3>3. /\ IsFiniteSet(all \cup {p})
          /\ Cardinality(all \cup {p}) \in Nat
          /\ Cardinality(all \cup {p}) <= Cardinality(all) + 1
      <4> HIDE DEF all
      <4>1. /\ IsFiniteSet(all \cup {p})
            /\ Cardinality(all \cup {p}) =
                 IF p \in all THEN Cardinality(all) ELSE Cardinality(all) + 1
        BY <3>2, FS_AddElement
      <4>2. QED  BY <3>2, <4>1
    <3>4. Coming(f)' \in SUBSET (all \cup {p})
      BY DEF Coming, Target, IInv, TypeOK
    <3>5. Cardinality(Coming(f)') <= Cardinality(all \cup {p})
      BY <3>3, <3>4, FS_Subset
    <3>6. Len(log[f]) + Cardinality(all) < MaxLength
      BY DEF Room
    <3>7. Len(log[f]) \in Nat /\ MaxLength \in Nat
      BY Typed, JournalAssumption DEF IInv
    <3> HIDE DEF all
    <3>8. QED  BY <2>1, <3>2, <3>3, <3>5, <3>6, <3>7, ComersLater
  <2>2. CASE g # f
    <3>1. Coming(g)' \in SUBSET Coming(g)
      BY <2>2 DEF Coming, Target, IInv, TypeOK
    <3>2. Cardinality(Coming(g)') <= Cardinality(Coming(g))
      BY <3>1, Comers, FS_Subset
    <3>3. Len(log[g]) \in Nat /\ MaxLength \in Nat
      BY Typed, JournalAssumption DEF IInv
    <3>4. QED  BY <3>2, <3>3, Comers, ComersLater DEF IInv, RoomLeft
  <2>3. QED  BY <2>1, <2>2
<1>2. QED  BY <1>1 DEF RoomLeft

LEMMA BeginStep ==
  ASSUME IInv, NEW p \in Process, BeginPublish(p) \/ \E e \in Event : Begin(p, e)
  PROVE  IInv'
<1>1. /\ UNCHANGED <<fileVars, records, latest, seal>>
      /\ pc[p] = "idle" /\ pc' = [pc EXCEPT ![p] = "lock"]
      /\ \E f \in Log, o \in {"append", "receipt", "publish"} :
           op' = [op EXCEPT ![p] = o] /\ Room(f) /\ (o = "publish" <=> f = "anchors")
      /\ \E e \in Event : event' = [event EXCEPT ![p] = e]
  <2>1. CASE BeginPublish(p)
    <3>1. event' = [event EXCEPT ![p] = event[p]] /\ event[p] \in Event
      BY <2>1 DEF BeginPublish, IInv, TypeOK
    <3>2. QED  BY <2>1, <3>1 DEF BeginPublish, Log
  <2>2. ASSUME NEW e \in Event, Begin(p, e)
        PROVE  /\ UNCHANGED <<fileVars, records, latest, seal>>
               /\ pc[p] = "idle" /\ pc' = [pc EXCEPT ![p] = "lock"]
               /\ \E f \in Log, o \in {"append", "receipt", "publish"} :
                    op' = [op EXCEPT ![p] = o] /\ Room(f) /\ (o = "publish" <=> f = "anchors")
               /\ event' = [event EXCEPT ![p] = e]
    BY <2>2 DEF Begin, Log
  <2>3. QED  BY <2>1, <2>2
<1>2. PICK f \in Log, o \in {"append", "receipt", "publish"} :
           op' = [op EXCEPT ![p] = o] /\ Room(f) /\ (o = "publish" <=> f = "anchors")
  BY <1>1
<1>3. TypeOK'
  BY <1>1, <1>2 DEF IInv, TypeOK, Position, fileVars
<1>4. log' = log /\ lost' = lost /\ lock' = lock /\ latest' = latest /\ seal' = seal
  BY <1>1 DEF fileVars
<1>5. RoomLeft'
  <2>1. Target(p)' = f /\ op' = [op EXCEPT ![p] = op'[p]]
    BY <1>2 DEF Target, Log, IInv, TypeOK
  <2>2. QED  BY <1>1, <1>2, <1>4, <2>1, RoomForOne
<1>6. JournalChains' /\ AnchorsAdvance' /\ SealsHold'
  BY <1>4, FilesKept, SealsKept DEF IInv
<1>7. Alone' /\ Current'
  BY <1>1, <1>2, <1>4 DEF IInv, TypeOK, Alone, Current, Inside, Target
<1>8. QED  BY <1>3, <1>5, <1>6, <1>7 DEF IInv

\* The place of one process changes inside a call.
LEMMA Moved ==
  ASSUME IInv, NEW p \in Process, NEW position \in Position, Goto(p, position)
  PROVE  /\ op' = op
         /\ event' = event
         /\ pc' \in [Process -> Position]
         /\ \A q \in Process : pc'[q] = IF q = p THEN position ELSE pc[q]
  BY DEF Goto, IInv, TypeOK

LEMMA LockStep ==
  ASSUME IInv, NEW p \in Process, Lock(p)
  PROVE  IInv'
<1>1. CASE lock[Target(p)] = NoProcess
  <2>0. Target(p) \in Log
    BY DEF Target, Log
  <2>1. /\ lock' = [lock EXCEPT ![Target(p)] = p] /\ Goto(p, "read")
        /\ UNCHANGED <<log, tail, lost, faults, records, latest, seal>>
    BY <1>1 DEF Lock
  <2>2. /\ op' = op /\ event' = event /\ pc' \in [Process -> Position]
        /\ \A q \in Process : pc'[q] = IF q = p THEN "read" ELSE pc[q]
    BY <2>1, Moved DEF Position
  <2>3. TypeOK'
    BY <2>0, <2>1, <2>2 DEF IInv, TypeOK
  <2>4. JournalChains' /\ AnchorsAdvance' /\ SealsHold'
    BY <2>1, FilesKept, SealsKept DEF IInv
  <2>5. Alone'
    BY <1>1, <2>0, <2>1, <2>2, JournalAssumption DEF IInv, TypeOK, Alone, Inside, Target
  <2>6. Current'
    BY <2>1, <2>2 DEF IInv, Current
  <2>7. RoomLeft'
    <3>1. \A f \in Log : Coming(f)' \subseteq Coming(f)
      BY <2>2 DEF Coming, Target, Lock
    <3>2. QED  BY <2>1, <3>1, RoomKept DEF IInv
  <2>8. QED  BY <2>3, <2>4, <2>5, <2>6, <2>7 DEF IInv
<1>2. CASE lock[Target(p)] # NoProcess
  BY <1>2, Ended DEF Lock, IInv, TypeOK
<1>3. QED  BY <1>1, <1>2

LEMMA UnlockStep ==
  ASSUME IInv, NEW p \in Process, Unlock(p)
  PROVE  IInv'
<1>0. Target(p) \in Log
  BY DEF Target, Log
<1>1. /\ UNCHANGED <<log, tail, lost, records, seal>>
      /\ \/ lock' = lock
         \/ lock' = [lock EXCEPT ![Target(p)] = NoProcess]
      /\ faults' \in 0..MaxFaults
      /\ latest' = [latest EXCEPT ![p] = <<>>]
      /\ pc[p] \in {"return", "throw"}
  BY JournalAssumption DEF Unlock, Fault, IInv, TypeOK
<1>2. Goto(p, "seal") \/ Ends(p, "idle")
  BY DEF Unlock
<1>3. \A q \in Process \ {p} : /\ pc'[q] = pc[q] /\ op'[q] = op[q]
                               /\ latest'[q] = latest[q] /\ seal'[q] = seal[q]
  BY <1>1, <1>2 DEF Goto, Ends, IInv, TypeOK
<1>4. pc'[p] \in {"seal", "idle"}
  BY <1>2 DEF Goto, Ends, IInv, TypeOK
<1>5. TypeOK'
  BY <1>0, <1>1, <1>2, EmptyHistory DEF Goto, Ends, IInv, TypeOK, Position, Event
<1>6. JournalChains' /\ AnchorsAdvance' /\ SealsHold'
  BY <1>1, FilesKept, SealsKept DEF IInv
<1>7. Alone'
  <2>1. ASSUME NEW q \in Process, Inside(q)'
        PROVE  lock'[Target(q)'] = q
    <3>1. q # p /\ Inside(q) /\ Target(q)' = Target(q)
      BY <1>3, <1>4, <2>1 DEF Inside, Target
    <3>2. lock[Target(q)] = q /\ lock[Target(p)] = p
      BY <1>1, <3>1 DEF IInv, Alone, Inside
    <3>3. Target(q) # Target(p)
      BY <3>1, <3>2
    <3>4. lock'[Target(q)] = lock[Target(q)]
      BY <1>0, <1>1, <3>3 DEF IInv, TypeOK, Target, Log
    <3>5. QED  BY <3>1, <3>2, <3>4
  <2>2. QED  BY <2>1 DEF Alone
<1>8. Current'
  BY <1>1, <1>3, <1>4 DEF IInv, Current
<1>9. RoomLeft'
  <2>1. \A f \in Log : Coming(f)' \subseteq Coming(f)
    BY <1>3, <1>4 DEF Coming, Target
  <2>2. QED  BY <1>1, <2>1, RoomKept DEF IInv
<1>10. QED  BY <1>5, <1>6, <1>7, <1>8, <1>9 DEF IInv

\* A lock is removed by hand only from a process that is not inside.
LEMMA RemoveStep ==
  ASSUME IInv, NEW f \in Log, RemoveStaleLock(f)
  PROVE  IInv'
<1>1. /\ lock' = [lock EXCEPT ![f] = NoProcess]
      /\ UNCHANGED <<log, tail, lost, faults, pc, op, event, records, latest, seal>>
      /\ lock[f] # NoProcess
      /\ ~(Target(lock[f]) = f /\ pc[lock[f]] \in {"read", "write", "return", "throw"})
  BY DEF RemoveStaleLock, processVars
<1>2. TypeOK'
  BY <1>1 DEF IInv, TypeOK
<1>3. JournalChains' /\ AnchorsAdvance' /\ SealsHold'
  BY <1>1, FilesKept, SealsKept DEF IInv
<1>4. Alone'
  BY <1>1 DEF IInv, TypeOK, Alone, Inside, Target
<1>5. Current'
  BY <1>1 DEF IInv, Current
<1>6. RoomLeft'
  BY <1>1, RoomKept DEF IInv, Coming, Target
<1>7. QED  BY <1>2, <1>3, <1>4, <1>5, <1>6 DEF IInv

\* What is read under the lock is the file as it stays until it is written.
LEMMA ReadStep ==
  ASSUME IInv, NEW p \in Process, Read(p)
  PROVE  IInv'
<1>1. pc[p] = "read" /\ UNCHANGED <<fileVars, records, seal>>
  BY DEF Read
<1>2. CASE Goto(p, "throw") /\ UNCHANGED latest
  <2>1. TypeOK'
    BY <1>1, <1>2 DEF Goto, IInv, TypeOK, Position, fileVars
  <2>2. \A q \in Process : Keeps(q) \/ Leaves(q)
    BY <1>1, <1>2 DEF Goto, IInv, TypeOK, Keeps, Leaves, Inside
  <2>3. QED  BY <1>1, <2>1, <2>2, Quiet DEF fileVars
<1>3. CASE /\ Readable(Target(p))
           /\ op[p] = "publish" =>
                log["anchors"] = <<>> \/ Advances(seal[p], Last(log["anchors"]))
           /\ latest' = [latest EXCEPT ![p] = Committed(log[Target(p)])]
           /\ Goto(p, "write")
  <2>1. /\ op' = op /\ event' = event /\ pc' \in [Process -> Position]
        /\ \A q \in Process : pc'[q] = IF q = p THEN "write" ELSE pc[q]
    BY <1>3, Moved DEF Position
  <2>2. Committed(log[Target(p)]) \in History
    <3>1. CASE Target(p) = "journal"
      BY <3>1, Tip DEF IInv
    <3>2. CASE Target(p) = "anchors"
      <4>1. log["anchors"] \in Seq(Seq(Event)) /\ "anchors" \in Log
        BY Typed DEF IInv, Log
      <4>2. log["anchors"] # <<>> => Len(log["anchors"]) \in DOMAIN log["anchors"]
        BY <4>1
      <4>3. QED  BY <3>2, <4>1, <4>2, EmptyHistory, Typed DEF Committed, Last, IInv
    <3>3. QED  BY <3>1, <3>2 DEF Target
  <2>3. TypeOK'
    BY <1>1, <1>3, <2>1, <2>2 DEF IInv, TypeOK, fileVars
  <2>4. JournalChains' /\ AnchorsAdvance' /\ SealsHold'
    BY <1>1, FilesKept, SealsKept DEF IInv, fileVars
  <2>5. Alone'
    BY <1>1, <2>1 DEF IInv, Alone, Inside, Target, fileVars
  <2>6. Current'
    BY <1>1, <1>3, <2>1 DEF IInv, TypeOK, Current, Target, fileVars
  <2>7. RoomLeft'
    <3>1. \A f \in Log : Coming(f)' \subseteq Coming(f)
      BY <1>1, <2>1 DEF Coming, Target
    <3>2. QED  BY <1>1, <3>1, RoomKept DEF IInv, fileVars
  <2>8. QED  BY <2>3, <2>4, <2>5, <2>6, <2>7 DEF IInv
<1>4. QED  BY <1>2, <1>3 DEF Read
-----------------------------------------------------------------------------
(* Writing *)

\* A record is written behind the last one of its file.
Grown(p) == log' = [log EXCEPT ![Target(p)] = Append(@, Record(p))]

\* The room that was kept for a call takes its record.
LEMMA RoomUsed ==
  ASSUME IInv, NEW p \in Process, pc[p] = "write", Grown(p), op' = op,
         \A q \in Process : pc'[q] = IF q = p THEN pc'[p] ELSE pc[q],
         pc'[p] \in {"return", "throw"}
  PROVE  RoomLeft' /\ Len(log[Target(p)]) + 1 <= MaxLength
<1>0. Target(p) \in Log /\ \A f \in Log : log[f] \in Seq(Seq(Event))
  BY Typed DEF Target, Log, IInv
<1>1. ASSUME NEW f \in Log
      PROVE  /\ Len(log'[f]) + Cardinality(Coming(f)') <= MaxLength
             /\ f = Target(p) => Len(log[f]) + 1 <= MaxLength
  <2>1. /\ Len(log[f]) + Cardinality(Coming(f)) <= MaxLength
        /\ Len(log[f]) \in Nat /\ MaxLength \in Nat
    BY <1>0, JournalAssumption DEF IInv, RoomLeft
  <2>2. CASE f = Target(p)
    <3>1. Coming(f)' = Coming(f) \ {p} /\ p \in Coming(f)
      BY <2>2 DEF Coming, Target
    <3>2. Cardinality(Coming(f)') = Cardinality(Coming(f)) - 1
      BY <3>1, Comers, FS_RemoveElement
    <3>3. Len(log'[f]) = Len(log[f]) + 1
      <4>1. log'[f] = Append(log[f], Record(p))
        BY <1>0, <2>2 DEF Grown, IInv, TypeOK
      <4>2. QED  BY <1>0, <4>1
    <3>4. Cardinality(Coming(f)') \in Nat /\ Cardinality(Coming(f)) \in Nat
      BY Comers, ComersLater
    <3>5. QED  BY <2>1, <3>2, <3>3, <3>4
  <2>3. CASE f # Target(p)
    <3>1. Coming(f)' = Coming(f)
      BY <2>3 DEF Coming, Target
    <3>2. log'[f] = log[f]
      BY <1>0, <2>3 DEF Grown, IInv, TypeOK
    <3>3. QED  BY <2>1, <2>3, <3>1, <3>2
  <2>4. QED  BY <2>2, <2>3
<1>2. QED  BY <1>0, <1>1 DEF RoomLeft

\* The record of an event is the next history, and one of an anchor is a seal.
LEMMA NextRecord ==
  ASSUME IInv, NEW p \in Process, pc[p] = "write", Len(log[Target(p)]) + 1 <= MaxLength
  PROVE  /\ Record(p) \in History
         /\ op[p] # "publish" => Record(p) = Append(Committed(log["journal"]), event[p])
<1>1. CASE op[p] = "publish"
  BY <1>1 DEF Record, IInv, TypeOK
<1>2. CASE op[p] # "publish"
  <2>1. Record(p) = Append(Committed(log["journal"]), event[p]) /\ Target(p) = "journal"
    BY <1>2 DEF Record, Target, IInv, Current
  <2>2. /\ Committed(log["journal"]) \in Seq(Event)
        /\ Len(Committed(log["journal"])) = Len(log["journal"])
    BY Tip, Bounded, JournalAssumption DEF History, IInv
  <2>3. event[p] \in Event
    BY DEF IInv, TypeOK
  <2>4. Record(p) \in Seq(Event) /\ Len(Record(p)) = Len(log["journal"]) + 1
    <3>1. QED  BY <2>1, <2>2, <2>3, AppendProperties
  <2>5. Record(p) \in History
    BY <2>1, <2>4, Bounded, JournalAssumption DEF History
  <2>6. QED  BY <2>1, <2>5
<1>3. QED  BY <1>1, <1>2

\* A record that was written leaves every promise standing.
LEMMA GrownStep ==
  ASSUME IInv, NEW p \in Process, pc[p] = "write", Grown(p), op' = op, event' = event,
         tail' \in [Log -> {"whole", "unterminated", "broken"}],
         NEW position \in {"return", "throw"}, Goto(p, position),
         lock' = lock, lost' = lost, latest' = latest, seal' = seal,
         faults' \in 0..MaxFaults,
         records' \in {records, [records EXCEPT ![p] = Record(p)]}
  PROVE  IInv'
<1>0. /\ Target(p) \in Log /\ {"journal", "anchors"} = Log
      /\ \A f \in Log : log[f] \in Seq(Seq(Event))
  BY Typed DEF Target, Log, IInv
<1>1. pc' \in [Process -> Position] /\ \A q \in Process : pc'[q] = IF q = p THEN position ELSE pc[q]
  BY Moved DEF Position
<1>2. RoomLeft' /\ Len(log[Target(p)]) + 1 <= MaxLength
  <2>1. pc'[p] = position
    BY <1>1
  <2>2. QED  BY <1>1, <2>1, RoomUsed
<1>3. /\ Record(p) \in History
      /\ op[p] # "publish" => Record(p) = Append(Committed(log["journal"]), event[p])
  BY <1>2, NextRecord
<1>4. Record(p) \in Seq(Event)
  BY <1>3, Bounded, JournalAssumption DEF History
<1>5. TypeOK'
  <2>1. ASSUME NEW f \in Log
        PROVE  log'[f] \in File
    <3>1. CASE f = Target(p)
      <4>1. log'[f] = Append(log[f], Record(p))
        BY <1>0, <3>1 DEF Grown, IInv, TypeOK
      <4>2. log[f] \in File
        BY DEF IInv, TypeOK
      <4>3. log[f] \in Seq(History)
        BY <4>2, Bounded, JournalAssumption DEF File
      <4>4. log'[f] \in Seq(History) /\ Len(log'[f]) = Len(log[f]) + 1
        <5>1. QED  BY <1>3, <4>1, <4>3, AppendProperties
      <4>5. QED  BY <1>2, <3>1, <4>4, Bounded, JournalAssumption DEF File
    <3>2. CASE f # Target(p)
      BY <1>0, <3>2 DEF Grown, IInv, TypeOK
    <3>3. QED  BY <3>1, <3>2
  <2>2. log' \in [Log -> File]
    BY <2>1 DEF Grown, IInv, TypeOK
  <2>3. records' \in [Process -> History]
    BY <1>3 DEF IInv, TypeOK
  <2>4. QED  BY <1>1, <2>2, <2>3 DEF IInv, TypeOK
<1>6. CASE op[p] = "publish"
  <2>1. /\ log'["anchors"] = Append(log["anchors"], seal[p])
        /\ log'["journal"] = log["journal"]
    BY <1>0, <1>6 DEF Grown, Target, Record, IInv, TypeOK
  <2>2. seal[p] \in Seq(Event) /\ log["anchors"] \in Seq(Seq(Event))
    BY <1>0, Typed DEF IInv
  <2>3. JournalChains'
    BY <2>1 DEF IInv, JournalChains
  <2>4. AnchorsAdvance'
    <3>1. log["anchors"] = <<>> \/ Advances(seal[p], Last(log["anchors"]))
      BY <1>6 DEF IInv, Current
    <3>2. QED  BY <2>1, <2>2, <3>1, AnchorsGrow DEF IInv, AnchorsAdvance
  <2>5. SealsHold'
    <3>1. ASSUME NEW i \in DOMAIN log'["anchors"], ~lost
          PROVE  IsPrefix(log'["anchors"][i], Committed(log["journal"]))
      <4>1. \/ i \in DOMAIN log["anchors"] /\ log'["anchors"][i] = log["anchors"][i]
            \/ log'["anchors"][i] = seal[p]
        BY <2>1, <2>2
      <4>2. QED  BY <3>1, <4>1 DEF IInv, SealsHold
    <3>2. QED  BY <2>1, <3>1 DEF IInv, SealsHold
  <2>6. \A q \in Process \ {p} : Inside(q) => op[q] # "publish"
    BY <1>6 DEF IInv, Alone, Inside, Target
  <2>7. Current'
    BY <1>1, <2>1, <2>6 DEF IInv, Current, Inside
  <2>8. Alone'
    BY <1>1 DEF IInv, Alone, Inside, Target
  <2>9. QED  BY <1>2, <1>5, <2>3, <2>4, <2>5, <2>7, <2>8 DEF IInv
<1>7. CASE op[p] # "publish"
  <2> DEFINE h == Committed(log["journal"])
  <2>1. /\ log'["journal"] = Append(log["journal"], Append(h, event[p]))
        /\ log'["anchors"] = log["anchors"]
    BY <1>0, <1>3, <1>7 DEF Grown, Target, IInv, TypeOK
  <2>2. /\ h \in Seq(Event) /\ event[p] \in Event
        /\ log["journal"] \in Seq(Seq(Event))
    BY <1>0, Tip, Bounded, JournalAssumption DEF History, IInv, TypeOK
  <2>3. JournalChains'
    BY <2>1, <2>2, ChainGrows DEF IInv, JournalChains
  <2>4. AnchorsAdvance'
    BY <2>1 DEF IInv, AnchorsAdvance
  <2>5. Committed(log'["journal"]) = Append(h, event[p])
    <3> DEFINE next == Append(h, event[p])
    <3>1. next \in Seq(Event)
      BY <2>2, AppendProperties
    <3> HIDE DEF next
    <3>2. log'["journal"] = Append(log["journal"], next)
      BY <2>1 DEF next
    <3>3. Committed(Append(log["journal"], next)) = next
      BY <2>2, <3>1, CommittedByAppend
    <3>4. QED  BY <3>2, <3>3 DEF next
  <2>6. SealsHold'
    <3>1. \A s \in Seq(Event) : IsPrefix(s, h) => IsPrefix(s, Append(h, event[p]))
      BY <2>2, PrefixGrows
    <3>2. \A q \in Process : seal[q] \in Seq(Event)
      BY Typed DEF IInv
    <3>3. \A i \in DOMAIN log["anchors"] : log["anchors"][i] \in Seq(Event)
      BY <1>0
    <3> HIDE DEF h
    <3>4. ASSUME ~lost
          PROVE  /\ \A q \in Process : IsPrefix(seal[q], h)
                 /\ \A i \in DOMAIN log["anchors"] : IsPrefix(log["anchors"][i], h)
      BY <3>4 DEF IInv, SealsHold, h
    <3>5. QED  BY <2>1, <2>5, <3>1, <3>2, <3>3, <3>4 DEF SealsHold
  <2>7. \A q \in Process \ {p} : Inside(q) => op[q] = "publish"
    BY <1>7 DEF IInv, Alone, Inside, Target
  <2>8. Current'
    BY <1>1, <2>1, <2>7 DEF IInv, Current, Inside
  <2>9. Alone'
    BY <1>1 DEF IInv, Alone, Inside, Target
  <2>10. QED  BY <1>2, <1>5, <2>3, <2>4, <2>6, <2>8, <2>9 DEF IInv
<1>8. QED  BY <1>6, <1>7

\* A write that reaches no file, or only breaks its last line, changes no record.
LEMMA BrokenStep ==
  ASSUME IInv, NEW p \in Process, pc[p] = "write", log' = log,
         tail' \in [Log -> {"whole", "unterminated", "broken"}],
         NEW position \in {"return", "throw"}, Goto(p, position),
         lock' = lock, lost' = lost, latest' = latest, seal' = seal,
         faults' \in 0..MaxFaults,
         records' \in [Process -> History]
  PROVE  IInv'
<1>1. /\ op' = op /\ event' = event /\ pc' \in [Process -> Position]
      /\ \A q \in Process : pc'[q] = IF q = p THEN position ELSE pc[q]
  BY Moved DEF Position
<1>2. TypeOK'
  BY <1>1 DEF IInv, TypeOK
<1>3. \A q \in Process : Keeps(q) \/ Leaves(q)
  BY <1>1 DEF Keeps, Leaves, Inside
<1>4. QED  BY <1>2, <1>3, Quiet

LEMMA WrittenDoes ==
  ASSUME IInv, NEW p \in Process, NEW end \in {"whole", "unterminated"}, Written(p, end)
  PROVE  /\ tail' \in [Log -> {"whole", "unterminated", "broken"}]
         /\ log' = log \/ Grown(p)
  BY DEF Written, Grown, IInv, TypeOK

LEMMA WriteStep ==
  ASSUME IInv, NEW p \in Process, Write(p)
  PROVE  IInv'
<1>1. /\ pc[p] = "write" /\ Goto(p, "return")
      /\ UNCHANGED <<lock, lost, faults, latest, seal>>
      /\ tail' \in [Log -> {"whole", "unterminated", "broken"}]
      /\ records' \in {records, [records EXCEPT ![p] = Record(p)]}
      /\ log' = log \/ Grown(p)
  BY WrittenDoes DEF Write
<1>2. op' = op /\ event' = event /\ faults' \in 0..MaxFaults
  BY <1>1 DEF Goto, IInv, TypeOK
<1>3. CASE Grown(p)
  BY <1>1, <1>2, <1>3, GrownStep
<1>4. CASE log' = log
  <2>1. Len(log[Target(p)]) + 1 <= MaxLength
    <3>1. p \in Coming(Target(p)) /\ Target(p) \in Log
      BY <1>1 DEF Coming, Target, Log
    <3>2. Cardinality(Coming(Target(p))) # 0
      BY <3>1, Comers, FS_EmptySet
    <3>3. Len(log[Target(p)]) \in Nat /\ MaxLength \in Nat
      BY <3>1, Typed, JournalAssumption DEF IInv
    <3>4. Len(log[Target(p)]) + Cardinality(Coming(Target(p))) <= MaxLength
      BY <3>1 DEF IInv, RoomLeft
    <3>5. Cardinality(Coming(Target(p))) \in Nat
      BY <3>1, Comers
    <3>6. QED  BY <3>2, <3>3, <3>4, <3>5
  <2>2. records' \in [Process -> History]
    BY <1>1, <2>1, NextRecord DEF IInv, TypeOK
  <2>3. QED  BY <1>1, <1>2, <1>4, <2>2, BrokenStep
<1>5. QED  BY <1>1, <1>3, <1>4

LEMMA WriteFailsStep ==
  ASSUME IInv, NEW p \in Process, WriteFails(p)
  PROVE  IInv'
<1>1. /\ pc[p] = "write" /\ Goto(p, "throw")
      /\ UNCHANGED <<lock, lost, records, latest, seal>>
      /\ op' = op /\ event' = event
      /\ faults' \in 0..MaxFaults
  BY JournalAssumption DEF WriteFails, Goto, Fault, IInv, TypeOK
<1>2. /\ tail' \in [Log -> {"whole", "unterminated", "broken"}]
      /\ log' = log \/ Grown(p)
  BY WrittenDoes DEF WriteFails, IInv, TypeOK
<1>3. CASE Grown(p)
  BY <1>1, <1>2, <1>3, GrownStep
<1>4. CASE log' = log
  BY <1>1, <1>2, <1>4, BrokenStep DEF IInv, TypeOK
<1>5. QED  BY <1>2, <1>3, <1>4
-----------------------------------------------------------------------------
(* Power losses *)

\* What is left of the files is a beginning of each, and nobody is alive to
\* remember more of them.
LEMMA PowerLossStep ==
  ASSUME IInv, PowerLoss
  PROVE  IInv'
<1>1. PICK left \in [Log -> 0..MaxLength], end \in [Log -> {"whole", "broken"}] :
        /\ \A f \in Log : left[f] <= Len(log[f])
        /\ log' = [f \in Log |-> SubSeq(log[f], 1, left[f])]
        /\ tail' = [f \in Log |-> IF left[f] = Len(log[f]) THEN tail[f] ELSE end[f]]
        /\ lost' = (lost \/ left["journal"] < Len(log["journal"]))
  BY DEF PowerLoss
<1>2. /\ lock' = lock /\ faults' \in 0..MaxFaults
      /\ pc' = [p \in Process |-> "down"]
      /\ op' = [p \in Process |-> "append"]
      /\ event' = [p \in Process |-> Note]
      /\ records' = [p \in Process |-> <<>>]
      /\ latest' = [p \in Process |-> <<>>]
      /\ seal' = [p \in Process |-> <<>>]
  BY JournalAssumption DEF PowerLoss, Fault, IInv, TypeOK
<1>3. ASSUME NEW f \in Log
      PROVE  /\ left[f] \in 0..Len(log[f])
             /\ log[f] \in Seq(Seq(Event)) /\ log[f] \in Seq(History)
             /\ Len(log[f]) <= MaxLength
             /\ log'[f] = SubSeq(log[f], 1, left[f])
  <2>1. log[f] \in File
    BY DEF IInv, TypeOK
  <2>2. log[f] \in Seq(History) /\ Len(log[f]) <= MaxLength
    BY <2>1, Bounded, JournalAssumption DEF File
  <2>3. log[f] \in Seq(Seq(Event))
    BY Typed DEF IInv
  <2>4. left[f] \in 0..Len(log[f])
    BY <1>1, <2>2
  <2>5. QED  BY <1>1, <2>2, <2>3, <2>4
<1>4. ASSUME NEW f \in Log
      PROVE  log'[f] \in File /\ Len(log'[f]) = left[f]
  <2>1. log'[f] \in Seq(History) /\ Len(log'[f]) = left[f]
    <3>1. /\ SubSeq(log[f], 1, left[f]) \in Seq(History)
          /\ Len(SubSeq(log[f], 1, left[f])) = left[f]
      <4>1. log[f] \in Seq(History) /\ left[f] \in 0..Len(log[f])
        BY <1>3
      <4>2. QED  BY <4>1, CutKeeps
    <3>2. QED  BY <1>3, <3>1
  <2>2. left[f] <= MaxLength
    BY <1>1, JournalAssumption
  <2>3. QED  BY <2>1, <2>2, Bounded, JournalAssumption DEF File
<1>5. TypeOK'
  <2>1. log' \in [Log -> File]
    BY <1>1, <1>4
  <2>2. tail' \in [Log -> {"whole", "unterminated", "broken"}]
    BY <1>1 DEF IInv, TypeOK
  <2>3. lost' \in BOOLEAN
    BY <1>1, Zenon
  <2>4. QED  BY <1>2, <2>1, <2>2, <2>3, EmptyHistory DEF IInv, TypeOK, Position, Event
<1>6. {"journal", "anchors"} = Log
  BY DEF Log
<1>7. JournalChains'
  BY <1>3, <1>6, ChainCut DEF IInv, JournalChains
<1>8. AnchorsAdvance'
  BY <1>3, <1>6, AnchorsCut DEF IInv, AnchorsAdvance
<1>9. SealsHold'
  <2>1. SUFFICES ASSUME ~lost'
                 PROVE  /\ \A p \in Process : IsPrefix(seal'[p], Committed(log'["journal"]))
                        /\ \A i \in DOMAIN log'["anchors"] :
                             IsPrefix(log'["anchors"][i], Committed(log'["journal"]))
    BY DEF SealsHold
  <2>2. ~lost /\ ~(left["journal"] < Len(log["journal"]))
    BY <1>1, <2>1
  <2>3. left["journal"] = Len(log["journal"])
    BY <1>3, <1>6, <2>2
  <2>4. log'["journal"] = log["journal"]
    BY <1>3, <1>6, <2>3, SubSeqFull
  <2>5. Committed(log["journal"]) \in Seq(Event)
    BY Tip, Bounded, JournalAssumption DEF History, IInv
  <2>6. \A i \in DOMAIN log'["anchors"] :
          i \in DOMAIN log["anchors"] /\ log'["anchors"][i] = log["anchors"][i]
    <3>1. DOMAIN log'["anchors"] = 1..left["anchors"]
      BY <1>3, <1>6, CutKeeps
    <3>2. QED  BY <1>3, <1>6, <3>1, CutKeeps
  <2>7. QED  BY <1>2, <2>2, <2>4, <2>5, <2>6, PrefixSelf DEF IInv, SealsHold
<1>10. Alone' /\ Current'
  BY <1>2 DEF Alone, Current, Inside
<1>11. RoomLeft'
  <2>1. ASSUME NEW f \in Log
        PROVE  Len(log'[f]) + Cardinality(Coming(f)') <= MaxLength
    <3>1. Coming(f)' = {}
      BY <1>2 DEF Coming
    <3>2. Cardinality(Coming(f)') = 0
      BY <3>1, FS_EmptySet
    <3>3. Len(log'[f]) = left[f] /\ left[f] \in 0..MaxLength
      BY <1>1, <1>4
    <3>4. QED  BY <3>2, <3>3, JournalAssumption
  <2>2. QED  BY <2>1 DEF RoomLeft
<1>12. QED  BY <1>5, <1>7, <1>8, <1>9, <1>10, <1>11 DEF IInv
-----------------------------------------------------------------------------
(* Theorems *)

LEMMA Initially == Init => IInv
<1> SUFFICES ASSUME Init PROVE IInv
  OBVIOUS
<1>1. <<>> \in File
  <2>1. <<>> \in Seq(History) /\ Len(<<>>) <= MaxLength
    BY JournalAssumption
  <2>2. QED  BY <2>1, Bounded, JournalAssumption DEF File
<1>2. TypeOK
  <2>1. log \in [Log -> File]
    BY <1>1 DEF Init
  <2>2. /\ records \in [Process -> History]
        /\ latest \in [Process -> History]
        /\ seal \in [Process -> History]
    BY EmptyHistory DEF Init
  <2>3. faults \in 0..MaxFaults
    BY JournalAssumption DEF Init
  <2>4. QED  BY <2>1, <2>2, <2>3 DEF Init, TypeOK, Position, Event
<1>3. log["journal"] = <<>> /\ log["anchors"] = <<>>
  BY DEF Init, Log
<1>4. JournalChains /\ AnchorsAdvance
  BY <1>3 DEF JournalChains, AnchorsAdvance, VerifiedRecords, VerifiedAnchors
<1>5. SealsHold
  <2>1. <<>> \in Seq(Event)
    OBVIOUS
  <2>2. IsPrefix(<<>>, <<>>)
    BY <2>1, PrefixSelf
  <2>3. QED  BY <1>3, <2>2 DEF Init, SealsHold, Committed
<1>6. Alone /\ Current
  BY DEF Init, Alone, Current, Inside
<1>7. RoomLeft
  <2>1. ASSUME NEW f \in Log
        PROVE  Len(log[f]) + Cardinality(Coming(f)) <= MaxLength
    <3>1. Coming(f) = {} /\ log[f] = <<>>
      BY DEF Init, Coming
    <3>2. QED  BY <3>1, FS_EmptySet, JournalAssumption
  <2>2. QED  BY <2>1 DEF RoomLeft
<1>8. QED  BY <1>2, <1>4, <1>5, <1>6, <1>7 DEF IInv

LEMMA Preserved == IInv /\ [Next]_vars => IInv'
<1> SUFFICES ASSUME IInv, [Next]_vars PROVE IInv'
  OBVIOUS
<1>1. CASE UNCHANGED vars
  <2>1. TypeOK'
    BY <1>1 DEF IInv, TypeOK, vars
  <2>2. \A p \in Process : Keeps(p)
    BY <1>1 DEF vars, Keeps
  <2>3. QED  BY <1>1, <2>1, <2>2, Quiet DEF vars
<1>2. CASE PowerLoss
  BY <1>2, PowerLossStep
<1>3. ASSUME NEW f \in Log, RemoveStaleLock(f)
      PROVE  IInv'
  BY <1>3, RemoveStep
<1>4. ASSUME NEW p \in Process, BeginPublish(p) \/ \E e \in Event : Begin(p, e)
      PROVE  IInv'
  BY <1>4, BeginStep
<1>5. ASSUME NEW p \in Process, Step(p)
      PROVE  IInv'
  BY <1>5, LockStep, ReadStep, WriteStep, WriteFailsStep, UnlockStep, SealStep DEF Step
<1>6. ASSUME NEW p \in Process, Throw(p) \/ Refresh(p) \/ Crash(p) \/ Start(p)
      PROVE  IInv'
  BY <1>6, ThrowStep, RefreshStep, CrashStep, StartStep
<1>7. QED  BY <1>1, <1>2, <1>3, <1>4, <1>5, <1>6 DEF Next

\* The inductive invariant holds in every reachable state.
THEOREM Inductive == Spec => []IInv
<1>1. QED  BY Initially, Preserved, PTL DEF Spec

\* The records in the journal form one hash chain, and until a power loss drops
\* records every seal handed out and every anchor published is a beginning of
\* it, however processes interleave, fail, die and have their locks removed
\* (pi_home_evidence_journal.cjs, pi_home_decision_receipt_ledger.cjs).
THEOREM JournalAlwaysHolds == Spec => []JournalHolds
<1>1. IInv => JournalHolds
  BY DEF IInv, JournalHolds
<1>2. QED  BY <1>1, Inductive, PTL

\* The published anchors only advance, although every process publishes the seal
\* it happens to hold (publish() in pi_home_journal_anchor_store.cjs).
THEOREM AnchorsAlwaysAdvance == Spec => []AnchorsAdvance
<1>1. IInv => AnchorsAdvance
  BY DEF IInv
<1>2. QED  BY <1>1, Inductive, PTL

\* Two processes are never inside the same file at once, although the owner of a
\* lock may be dead and locks are removed by hand.
THEOREM OneInsideEachFile ==
  Spec => [](\A p, q \in Process :
               Inside(p) /\ Inside(q) /\ Target(p) = Target(q) => p = q)
<1>1. IInv => \A p, q \in Process :
                Inside(p) /\ Inside(q) /\ Target(p) = Target(q) => p = q
  BY DEF IInv, Alone
<1>2. QED  BY <1>1, Inductive, PTL
=============================================================================

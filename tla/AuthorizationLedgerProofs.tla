---------------------- MODULE AuthorizationLedgerProofs ----------------------
(***************************************************************************)
(* For every set of processes and of authorization ids: the ledger grants  *)
(* each id at most once, a granted id is on disk, and the ledger           *)
(* implements SingleUse.  The argument is the inductive invariant IInv: a  *)
(* process past its own link is the only one for its id and has not been   *)
(* answered, and past its directory sync the marker is durable.            *)
(***************************************************************************)
EXTENDS AuthorizationLedger, TLAPS

\* The initial state satisfies the inductive invariant.
LEMMA InitIInv == Init => IInv
  BY NoIdAssumption DEF Init, IInv, TypeOK, RunningCall, LinkOwnsMarker,
    SyncedIsDurable, GrantIsDurable, SingleGrant, KnownIsTaken, Position, Answer,
    Linked, Synced

\* The steps that touch one process and nothing another one reads.
LEMMA LocalStep ==
  ASSUME IInv, NEW p \in Process,
         \/ \E i \in Id : BeginAdd(p, i) \/ BeginHas(p, i)
         \/ ReadSnapshot(p)
         \/ ReadMarkers(p)
         \/ CheckReservation(p)
         \/ MergeMarkers(p)
         \/ Link(p) /\ target[p] \in marker
         \/ Throw(p)
         \/ Crash(p)
  PROVE  IInv'
<1> USE DEF IInv, Goto, Answers, Begin, fileVars
<1>1. /\ UNCHANGED <<marker, durable, snapshot, versions, grants>>
      /\ pc \in [Process -> Position]
      /\ \A q \in Process \ {p} : /\ pc'[q] = pc[q]
                                  /\ target'[q] = target[q]
                                  /\ cache'[q] = cache[q]
                                  /\ answer'[q] = answer[q]
                                  /\ op'[q] = op[q]
  BY DEF TypeOK, BeginAdd, BeginHas, ReadSnapshot, ReadMarkers,
         CheckReservation, MergeMarkers, Link, Throw, Crash
<1>2. TypeOK'
  BY DEF TypeOK, Position, Answer, BeginAdd, BeginHas, ReadSnapshot, ReadMarkers,
         CheckReservation, MergeMarkers, Link, Throw, Crash
<1>3. /\ pc'[p] # "idle" => target'[p] \in Id /\ answer'[p] = "none"
      /\ op'[p] = "has" => pc'[p] \in {"snapshot", "markers"}
      /\ pc'[p] \in Linked => pc[p] \in Linked /\ target'[p] = target[p]
      /\ pc'[p] \in Synced => pc[p] \in Synced
  BY DEF TypeOK, Position, Linked, Synced, RunningCall, BeginAdd, BeginHas,
         ReadSnapshot, ReadMarkers, CheckReservation, MergeMarkers, Link, Throw, Crash
<1>4. RunningCall'
  BY <1>1, <1>3 DEF RunningCall
<1>5. LinkOwnsMarker'
  BY <1>1, <1>3 DEF LinkOwnsMarker
<1>6. SyncedIsDurable'
  BY <1>1, <1>3 DEF SyncedIsDurable, Synced, Linked
<1>7. GrantIsDurable' /\ SingleGrant'
  BY <1>1 DEF GrantIsDurable, SingleGrant
<1>8. KnownIsTaken'
  <2>1. /\ cache'[p] \subseteq marker \cup snapshot
        /\ pc'[p] \in {"merge", "persist"} => snapshot \ marker \subseteq cache'[p]
    BY DEF TypeOK, Position, KnownIsTaken, BeginAdd, BeginHas, ReadSnapshot,
           ReadMarkers, CheckReservation, MergeMarkers, Link, Throw, Crash
  <2>2. QED  BY <1>1, <2>1 DEF KnownIsTaken
<1>9. QED  BY <1>1, <1>2, <1>4, <1>5, <1>6, <1>7, <1>8


\* The link that succeeds makes the process the only owner of its id: nobody
\* else is past a link for an id without a marker.
LEMMA LinkStep == ASSUME IInv, NEW p \in Process, Link(p), target[p] \notin marker
                  PROVE  IInv'
<1> USE DEF IInv, Goto, Link
<1>1. /\ marker' = marker \cup {target[p]}
      /\ pc' = [pc EXCEPT ![p] = "fsync"]
      /\ UNCHANGED <<durable, snapshot, versions, grants, cache, target, answer, op>>
      /\ target[p] \in Id
  BY DEF RunningCall
<1>2. TypeOK'
  BY <1>1 DEF TypeOK, Position
<1>3. (durable \subseteq marker)' /\ RunningCall' /\ GrantIsDurable' /\ SingleGrant'
  BY <1>1 DEF TypeOK, RunningCall, GrantIsDurable, SingleGrant
<1>4. grants[target[p]] = 0
  BY <1>1 DEF TypeOK, GrantIsDurable
<1>5. LinkOwnsMarker'
  BY <1>1, <1>4 DEF TypeOK, LinkOwnsMarker, Linked
<1>6. SyncedIsDurable'
  BY <1>1 DEF TypeOK, SyncedIsDurable, Synced
<1>7. KnownIsTaken'
  BY <1>1 DEF TypeOK, KnownIsTaken
<1>8. QED  BY <1>1, <1>2, <1>3, <1>5, <1>6, <1>7

\* The directory sync makes every visible marker durable.
LEMMA SyncStep == ASSUME IInv, NEW p \in Process, FsyncDir(p)
                  PROVE  IInv'
<1> USE DEF IInv, Goto, FsyncDir
<1>1. TypeOK' /\ (durable \subseteq marker)' /\ RunningCall'
  BY DEF TypeOK, Position, RunningCall
<1>2. LinkOwnsMarker'
  BY DEF TypeOK, LinkOwnsMarker, Linked
<1>3. SyncedIsDurable'
  BY DEF TypeOK, SyncedIsDurable, Synced, LinkOwnsMarker, Linked
<1>4. GrantIsDurable' /\ SingleGrant' /\ KnownIsTaken'
  BY DEF TypeOK, GrantIsDurable, SingleGrant, KnownIsTaken
<1>5. QED  BY <1>1, <1>2, <1>3, <1>4

\* Rewriting the snapshot forgets nothing but what the markers also hold.
LEMMA PersistStep == ASSUME IInv, NEW p \in Process, Persist(p)
                     PROVE  /\ IInv'
                            /\ (marker \cup snapshot)' = marker \cup snapshot
<1> USE DEF IInv, Goto, Persist
<1>1. /\ cache[p] \subseteq marker \cup snapshot
      /\ snapshot \ marker \subseteq cache[p]
  BY DEF KnownIsTaken
<1>2. (marker \cup snapshot)' = marker \cup snapshot
  BY <1>1
<1>3. TypeOK' /\ (durable \subseteq marker)' /\ RunningCall'
  BY DEF TypeOK, Position, RunningCall
<1>4. LinkOwnsMarker' /\ SyncedIsDurable'
  BY DEF TypeOK, LinkOwnsMarker, SyncedIsDurable, Linked, Synced
<1>5. GrantIsDurable' /\ SingleGrant'
  BY DEF GrantIsDurable, SingleGrant
<1>6. KnownIsTaken'
  BY <1>1, <1>2 DEF TypeOK, KnownIsTaken
<1>7. QED  BY <1>2, <1>3, <1>4, <1>5, <1>6

\* The grant is the owner's, so it is the first one.
LEMMA ReturnStep == ASSUME IInv, NEW p \in Process, Return(p)
                    PROVE  IInv'
<1> USE DEF IInv, Answers, Return, fileVars
<1>0. /\ target[p] \in Id /\ target[p] \in durable
      /\ grants[target[p]] = 0
  BY DEF RunningCall, SyncedIsDurable, LinkOwnsMarker, Linked, Synced
<1>1. /\ target[p] \in Id /\ target[p] \in durable
      /\ grants[target[p]] = 0
      /\ grants' = [grants EXCEPT ![target[p]] = 1]
  BY <1>0
<1>2. TypeOK' /\ (durable \subseteq marker)' /\ RunningCall'
  BY <1>1 DEF TypeOK, Position, Answer, RunningCall
<1>3. LinkOwnsMarker'
  BY <1>1 DEF TypeOK, LinkOwnsMarker, Linked
<1>4. SyncedIsDurable' /\ GrantIsDurable' /\ SingleGrant'
  BY <1>1 DEF TypeOK, SyncedIsDurable, Synced, GrantIsDurable, SingleGrant
<1>5. KnownIsTaken'
  BY DEF TypeOK, KnownIsTaken
<1>6. QED  BY <1>2, <1>3, <1>4, <1>5

\* After a power loss every process is idle and what is left is durable.
LEMMA PowerLossStep == ASSUME IInv, PowerLoss
                       PROVE  IInv'
<1> USE DEF IInv, PowerLoss
<1>1. TypeOK' /\ (durable \subseteq marker)'
  BY DEF TypeOK, Position, Answer
<1>2. RunningCall' /\ LinkOwnsMarker' /\ SyncedIsDurable'
  BY DEF RunningCall, LinkOwnsMarker, SyncedIsDurable, Linked, Synced
<1>3. GrantIsDurable' /\ SingleGrant' /\ KnownIsTaken'
  BY DEF TypeOK, GrantIsDurable, SingleGrant, KnownIsTaken
<1>4. QED  BY <1>1, <1>2, <1>3

\* The inductive invariant holds in every reachable state.
THEOREM Inductive == Spec => []IInv
<1>1. Init => IInv
  BY InitIInv
<1>2. IInv /\ [Next]_vars => IInv'
  <2> SUFFICES ASSUME IInv, [Next]_vars
               PROVE  IInv'
    OBVIOUS
  <2>1. CASE PowerLoss
    BY <2>1, PowerLossStep
  <2>2. ASSUME NEW p \in Process,
               \/ \E i \in Id : BeginAdd(p, i) \/ BeginHas(p, i)
               \/ Step(p) \/ Throw(p) \/ Crash(p)
        PROVE  IInv'
    BY <2>2, LocalStep, LinkStep, SyncStep, PersistStep, ReturnStep DEF Step
  <2>3. CASE UNCHANGED vars
    BY <2>3 DEF vars, IInv, TypeOK, RunningCall, LinkOwnsMarker,
       SyncedIsDurable, GrantIsDurable, SingleGrant, KnownIsTaken
  <2>4. QED  BY <2>1, <2>2, <2>3 DEF Next
<1>3. QED  BY <1>1, <1>2, PTL DEF Spec

\* add() lets at most one caller proceed for an authorization id.
THEOREM GrantsOnce == Spec => []SingleGrant
<1>1. IInv => SingleGrant
  BY DEF IInv
<1>2. QED  BY <1>1, Inductive, PTL

\* The marker of an id that was granted is on disk.
THEOREM GrantsAreDurable == Spec => []GrantIsDurable
<1>1. IInv => GrantIsDurable
  BY DEF IInv
<1>2. QED  BY <1>1, Inductive, PTL

\* has() never answers no for an id that was granted: the answer is given by
\* the step that reads the markers.
THEOREM NeverForgets == Spec => HasNeverForgets
<1> DEFINE Honest == \A p \in Process :
             op[p] = "has" /\ pc[p] # "idle" /\ answer'[p] = "false"
               => grants[target[p]] = 0
<1>1. ASSUME IInv, [Next]_vars
      PROVE  [Honest]_vars
  <2> SUFFICES ASSUME Next, NEW p \in Process, op[p] = "has", pc[p] # "idle",
                      answer'[p] = "false"
               PROVE  grants[target[p]] = 0
    BY <1>1
  <2>1. /\ TypeOK /\ target[p] \in Id /\ answer[p] = "none"
        /\ pc[p] \in {"snapshot", "markers"}
    BY <1>1 DEF IInv, RunningCall
  <2>2. ~PowerLoss
    BY <2>1 DEF PowerLoss, TypeOK
  <2>3. PICK q \in Process : \/ \E i \in Id : BeginAdd(q, i) \/ BeginHas(q, i)
                             \/ Step(q) \/ Throw(q) \/ Crash(q)
    BY <2>2 DEF Next
  <2>4. q = p
    BY <2>1, <2>3 DEF TypeOK, BeginAdd, BeginHas, Begin, Step, ReadSnapshot, ReadMarkers,
       CheckReservation, Link, FsyncDir, MergeMarkers, Persist, Return, Throw, Crash,
       Goto, Answers
  <2>5. target[p] \notin marker
    BY <2>1, <2>3, <2>4 DEF TypeOK, BeginAdd, BeginHas, Begin, Step, ReadSnapshot,
       ReadMarkers, CheckReservation, Link, FsyncDir, MergeMarkers, Persist, Return,
       Throw, Crash, Goto, Answers
  <2>6. QED  BY <1>1, <2>1, <2>5 DEF IInv, TypeOK, GrantIsDurable
<1>2. QED  BY <1>1, Inductive, PTL DEF Spec, HasNeverForgets

\* The ledger implements SingleUse: a link claims an id, a return uses it, and
\* only a power loss gives ids back, none of them used.
THEOREM Implements == Spec => KeepsPromise
<1> DEFINE promised == <<marker \cup snapshot, grants>>
<1>1. Init => Promise!Init
  BY DEF Init, Promise!Init
<1>2. ASSUME IInv, IInv', [Next]_vars
      PROVE  [Promise!Next]_promised
  <2>1. CASE PowerLoss
    <3>1. \A i \in Id : grants[i] > 0 => i \in marker'
      BY <1>2, <2>1 DEF IInv, GrantIsDurable, PowerLoss
    <3>2. marker' \cup snapshot' \subseteq marker \cup snapshot
      BY <1>2, <2>1 DEF IInv, KnownIsTaken, PowerLoss
    <3>3. Promise!Lose
      BY <2>1, <3>1, <3>2 DEF PowerLoss, Promise!Lose
    <3>4. QED  BY <3>3 DEF Promise!Next
  <2>2. ASSUME NEW p \in Process, Link(p), target[p] \notin marker
        PROVE  Promise!Next \/ UNCHANGED promised
    <3>1. target[p] \in Id
      BY <1>2, <2>2 DEF IInv, RunningCall, Link
    <3>2. CASE target[p] \in snapshot
      BY <2>2, <3>2 DEF Link
    <3>3. CASE target[p] \notin snapshot
      <4>1. Promise!Claim(target[p])
        BY <2>2, <3>3 DEF Link, Promise!Claim
      <4>2. QED  BY <3>1, <4>1 DEF Promise!Next
    <3>4. QED  BY <3>2, <3>3
  <2>3. ASSUME NEW p \in Process, Persist(p)
        PROVE  UNCHANGED promised
    BY <1>2, <2>3, PersistStep DEF Persist
  <2>4. ASSUME NEW p \in Process, Return(p)
        PROVE  Promise!Next
    <3>1. /\ target[p] \in Id /\ target[p] \in marker
          /\ grants[target[p]] = 0
      BY <1>2, <2>4 DEF IInv, RunningCall, LinkOwnsMarker, Linked, Return
    <3>2. Promise!Use(target[p])
      BY <2>4, <3>1 DEF Return, Promise!Use, fileVars
    <3>3. QED  BY <3>1, <3>2 DEF Promise!Next
  <2>5. ASSUME NEW p \in Process,
               \/ \E i \in Id : BeginAdd(p, i) \/ BeginHas(p, i)
               \/ ReadSnapshot(p) \/ ReadMarkers(p) \/ CheckReservation(p)
               \/ Link(p) /\ target[p] \in marker
               \/ FsyncDir(p) \/ MergeMarkers(p) \/ Throw(p) \/ Crash(p)
        PROVE  UNCHANGED promised
    BY <2>5 DEF BeginAdd, BeginHas, ReadSnapshot, ReadMarkers, CheckReservation,
       Link, FsyncDir, MergeMarkers, Throw, Crash, fileVars
  <2>6. CASE UNCHANGED vars
    BY <2>6 DEF vars
  <2>7. QED
    BY <1>2, <2>1, <2>2, <2>3, <2>4, <2>5, <2>6 DEF Next, Step
<1>3. QED
  BY <1>1, <1>2, Inductive, NeverForgets, PTL DEF Spec, KeepsPromise, Promise!Spec
==============================================================================

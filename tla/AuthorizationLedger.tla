------------------------- MODULE AuthorizationLedger -------------------------
(***************************************************************************)
(* scripts/authorization_ledger.cjs: FileAuthorizationLedger, the          *)
(* single-use ledger of authorization ids that every physical dispatch     *)
(* goes through, shared by several processes of one machine through the    *)
(* file system.  An id is consumed by hard-linking a complete private      *)
(* record to the id's own marker; a JSON snapshot merges the markers and   *)
(* is rebuilt after every grant.  Every file-system call is a step of its  *)
(* own, any of them may throw, a process may be killed between two of      *)
(* them, and the machine may lose power.                                   *)
(*                                                                         *)
(* The file system is modelled as the code uses it: link and rename are    *)
(* atomic, an fsync of the reservation directory makes its entries (and    *)
(* the directory itself) survive a power loss, an entry not yet synced may *)
(* or may not survive, and the snapshot, whose directory is never synced,  *)
(* may come back as any version renamed since the last power loss.         *)
(***************************************************************************)
EXTENDS Naturals

CONSTANTS Process,       \* processes that hold a ledger on the same path
          Id,            \* authorization ids
          NoId           \* the target of an idle process

ASSUME NoIdAssumption == NoId \notin Id

VARIABLES marker,        \* ids with a visible reservation marker
          durable,       \* ids whose marker survives a power loss
          snapshot,      \* ids in the JSON snapshot (absent file: none)
          versions,      \* snapshot contents a power loss may bring back
          pc,            \* where each process is in add() or has()
          op,            \* which of the two it runs
          target,        \* the id it runs it for
          cache,         \* this.state.consumed during the call
          answer,        \* what its last call returned
          grants         \* how often add() returned true for each id

fileVars == <<marker, durable, snapshot, versions>>
vars == <<marker, durable, snapshot, versions, pc, op, target, cache, answer,
          grants>>

\* Positions in add(), in the order of the code; has() uses the first two.
Position == {"idle", "snapshot", "markers", "exists", "link", "fsync",
             "reload", "merge", "persist", "return"}
Answer == {"none", "true", "false", "threw"}

TypeOK == /\ marker \in SUBSET Id
          /\ durable \in SUBSET Id
          /\ snapshot \in SUBSET Id
          /\ versions \in SUBSET (SUBSET Id)
          /\ pc \in [Process -> Position]
          /\ op \in [Process -> {"add", "has"}]
          /\ target \in [Process -> Id \cup {NoId}]
          /\ cache \in [Process -> SUBSET Id]
          /\ answer \in [Process -> Answer]
          /\ grants \in [Id -> Nat]

Init == /\ marker = {}
        /\ durable = {}
        /\ snapshot = {}
        /\ versions = {{}}
        /\ pc = [p \in Process |-> "idle"]
        /\ op = [p \in Process |-> "add"]
        /\ target = [p \in Process |-> NoId]
        /\ cache = [p \in Process |-> {}]
        /\ answer = [p \in Process |-> "none"]
        /\ grants = [i \in Id |-> 0]
-----------------------------------------------------------------------------
(* Steps of one process *)

Goto(p, position) == /\ pc' = [pc EXCEPT ![p] = position]
                     /\ UNCHANGED <<op, target, answer>>

\* The call ends: its cached state is reloaded by the next call before use.
Answers(p, a) == /\ pc' = [pc EXCEPT ![p] = "idle"]
                 /\ op' = [op EXCEPT ![p] = "add"]
                 /\ target' = [target EXCEPT ![p] = NoId]
                 /\ cache' = [cache EXCEPT ![p] = {}]
                 /\ answer' = [answer EXCEPT ![p] = a]

Begin(p, i, o) == /\ pc' = [pc EXCEPT ![p] = "snapshot"]
                  /\ op' = [op EXCEPT ![p] = o]
                  /\ target' = [target EXCEPT ![p] = i]
                  /\ answer' = [answer EXCEPT ![p] = "none"]
                  /\ UNCHANGED cache

BeginAdd(p, i) == /\ pc[p] = "idle"
                  /\ Begin(p, i, "add")
                  /\ UNCHANGED <<fileVars, grants>>

\* has() first looks for the marker alone, and loads the state without one.
BeginHas(p, i) == /\ pc[p] = "idle"
                  /\ IF i \in marker
                       THEN Answers(p, "true")
                       ELSE Begin(p, i, "has")
                  /\ UNCHANGED <<fileVars, grants>>

(* Plausible defects of these steps, for the mutants of the properties *)

\* A rename in place of the link: an existing marker is overwritten.
LinkOverwrites(p) == /\ pc[p] = "link"
                     /\ marker' = marker \cup {target[p]}
                     /\ Goto(p, "fsync")
                     /\ UNCHANGED <<durable, snapshot, versions, cache, grants>>

\* The directory is opened and closed without the fsync.
NoDirectorySync(p) == /\ pc[p] = "fsync"
                      /\ Goto(p, "reload")
                      /\ UNCHANGED <<fileVars, cache, grants>>

\* A reader waits for the writer of a marker to bring the snapshot up to date.
WaitForSnapshot(p) ==
  LET taken == target[p] \in cache[p] \cup marker IN
  /\ pc[p] = "markers"
  /\ marker \subseteq snapshot
  /\ IF op[p] = "has" \/ taken
       THEN Answers(p, IF op[p] = "has" /\ taken THEN "true" ELSE "false")
       ELSE Goto(p, "exists") /\ UNCHANGED cache
  /\ UNCHANGED <<fileVars, grants>>

\* The link is not exclusive and the caller proceeds before it is made.
GrantFirst(p) == /\ pc[p] = "exists"
                 /\ target[p] \notin marker
                 /\ Answers(p, "true")
                 /\ grants' = [grants EXCEPT ![target[p]] = @ + 1]
                 /\ UNCHANGED fileVars

\* _load(): the snapshot file first ...
ReadSnapshot(p) == /\ pc[p] \in {"snapshot", "reload"}
                   /\ cache' = [cache EXCEPT ![p] = snapshot]
                   /\ Goto(p, IF pc[p] = "snapshot" THEN "markers" ELSE "merge")
                   /\ UNCHANGED <<fileVars, grants>>

\* ... then the markers are merged over it, and the call decides.
ReadMarkers(p) ==
  LET consumed == cache[p] \cup marker IN
  /\ pc[p] = "markers"
  /\ \/ /\ op[p] = "has"
        /\ Answers(p, IF target[p] \in consumed THEN "true" ELSE "false")
     \/ /\ op[p] = "add"
        /\ target[p] \in consumed
        /\ Answers(p, "false")
     \/ /\ op[p] = "add"
        /\ target[p] \notin consumed
        /\ cache' = [cache EXCEPT ![p] = consumed]
        /\ Goto(p, "exists")
  /\ UNCHANGED <<fileVars, grants>>

\* _reservationExists() again, then the private record is written and synced.
CheckReservation(p) == /\ pc[p] = "exists"
                       /\ \/ /\ target[p] \in marker
                             /\ Answers(p, "false")
                          \/ /\ target[p] \notin marker
                             /\ Goto(p, "link")
                             /\ UNCHANGED cache
                       /\ UNCHANGED <<fileVars, grants>>

\* linkSync: the linearization point; EEXIST means somebody else was first.
Link(p) == /\ pc[p] = "link"
           /\ \/ /\ target[p] \in marker
                 /\ Answers(p, "false")
                 /\ UNCHANGED marker
              \/ /\ target[p] \notin marker
                 /\ marker' = marker \cup {target[p]}
                 /\ Goto(p, "fsync")
                 /\ UNCHANGED cache
           /\ UNCHANGED <<durable, snapshot, versions, grants>>

FsyncDir(p) == /\ pc[p] = "fsync"
               /\ durable' = marker
               /\ Goto(p, "reload")
               /\ UNCHANGED <<marker, snapshot, versions, cache, grants>>

MergeMarkers(p) == /\ pc[p] = "merge"
                   /\ cache' = [cache EXCEPT ![p] = @ \cup marker]
                   /\ Goto(p, "persist")
                   /\ UNCHANGED <<fileVars, grants>>

\* _persistState(): a synced private file renamed over the snapshot.
Persist(p) == /\ pc[p] = "persist"
              /\ snapshot' = cache[p]
              /\ versions' = versions \cup {cache[p]}
              /\ Goto(p, "return")
              /\ UNCHANGED <<marker, durable, cache, grants>>

Return(p) == /\ pc[p] = "return"
             /\ Answers(p, "true")
             /\ grants' = [grants EXCEPT ![target[p]] = @ + 1]
             /\ UNCHANGED fileVars

Step(p) == \/ ReadSnapshot(p)
           \/ ReadMarkers(p)
           \/ CheckReservation(p)
           \/ Link(p)
           \/ FsyncDir(p)
           \/ MergeMarkers(p)
           \/ Persist(p)
           \/ Return(p)
-----------------------------------------------------------------------------
(* Failures *)

\* Any file-system call of a running call throws to the caller.
Throw(p) == /\ pc[p] # "idle"
            /\ Answers(p, "threw")
            /\ UNCHANGED <<fileVars, grants>>

\* The process is killed and started again: the constructor loads afresh.
Crash(p) == /\ pc[p] # "idle"
            /\ Answers(p, "none")
            /\ UNCHANGED <<fileVars, grants>>

PowerLoss == /\ \E survivors \in SUBSET (marker \ durable) :
                  marker' = durable \cup survivors
             /\ durable' = marker'
             /\ snapshot' \in versions
             /\ versions' = {snapshot'}
             /\ pc' = [p \in Process |-> "idle"]
             /\ op' = [p \in Process |-> "add"]
             /\ target' = [p \in Process |-> NoId]
             /\ cache' = [p \in Process |-> {}]
             /\ answer' = [p \in Process |-> "none"]
             /\ UNCHANGED grants

Next == \/ PowerLoss
        \/ \E p \in Process :
             \/ \E i \in Id : BeginAdd(p, i) \/ BeginHas(p, i)
             \/ Step(p)
             \/ Throw(p)
             \/ Crash(p)

Spec == Init /\ [][Next]_vars

\* Each call is synchronous code: it runs on for as long as its process lives.
FairSpec == Spec /\ \A p \in Process : WF_vars(Step(p))
-----------------------------------------------------------------------------
(* Properties *)

\* add() returns true at most once per id, whatever the interleaving of the
\* processes, the calls that throw, the crashes and the power losses.
SingleGrant == \A i \in Id : grants[i] <= 1

\* A caller that was told to proceed can rely on the marker: it is on disk, so
\* neither a crash nor a power loss ever makes the id available again.
GrantIsDurable == \A i \in Id : grants[i] > 0 => i \in durable

\* has() answers no only for an id that was not granted, although it reads the
\* snapshot and the markers in two steps and other processes rewrite both.
HasNeverForgets ==
  [][\A p \in Process :
       op[p] = "has" /\ pc[p] # "idle" /\ answer'[p] = "false"
         => grants[target[p]] = 0]_vars

\* The ledger is a single-use ledger: taken ids are those with a marker or in
\* the snapshot, whichever of the two a reader finds, and has() tells of them.
Promise == INSTANCE SingleUse WITH taken <- marker \cup snapshot,
                                   uses <- grants
KeepsPromise == Promise!Spec /\ HasNeverForgets

\* No call waits for another: a process killed between its link and its
\* snapshot leaves nothing that a later call could be stuck on.
EveryCallEnds == \A p \in Process : pc[p] # "idle" ~> pc[p] = "idle"

(* The strengthening of SingleGrant and GrantIsDurable that is inductive *)

Linked == {"fsync", "reload", "merge", "persist", "return"}
Synced == {"reload", "merge", "persist", "return"}

\* A running call has an id and no answer yet, and has() only loads.
RunningCall == \A p \in Process :
                 /\ pc[p] # "idle" => target[p] \in Id /\ answer[p] = "none"
                 /\ op[p] = "has" => pc[p] \in {"snapshot", "markers"}

\* A process past its own link owns the marker alone and has not been answered.
LinkOwnsMarker == \A p \in Process : pc[p] \in Linked =>
                    /\ target[p] \in marker
                    /\ grants[target[p]] = 0
                    /\ \A q \in Process : pc[q] \in Linked /\ target[q] = target[p]
                                            => q = p

SyncedIsDurable == \A p \in Process : pc[p] \in Synced => target[p] \in durable

\* Whatever a process or an old snapshot knows is still visible, and nothing
\* that only the snapshot knows is dropped by the process that rewrites it.
KnownIsTaken ==
  /\ \A p \in Process : cache[p] \subseteq marker \cup snapshot
  /\ \A v \in versions : v \subseteq marker \cup snapshot
  /\ \A p \in Process : pc[p] \in {"merge", "persist"}
                          => snapshot \ marker \subseteq cache[p]

IInv == /\ TypeOK
        /\ durable \subseteq marker
        /\ RunningCall
        /\ LinkOwnsMarker
        /\ SyncedIsDurable
        /\ GrantIsDurable
        /\ SingleGrant
        /\ KnownIsTaken
=============================================================================

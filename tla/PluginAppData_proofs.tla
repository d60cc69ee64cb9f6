------------------------ MODULE PluginAppData_proofs ------------------------
(***************************************************************************)
(* Theorems about PluginAppData, for any plug-ins, builds, tokens, limits  *)
(* and number of faults.                                                   *)
(***************************************************************************)
EXTENDS PluginAppData, TLAPS

Assumptions ==
  /\ None \notin Builds /\ None \notin Plugins /\ None \notin Tokens
  /\ None # Partial /\ Partial \notin Builds
  /\ Owner \in [Builds -> Plugins] /\ Sequence \in [Builds -> Nat]
  /\ Revocable \subseteq Builds /\ MaxRecords \in Nat /\ MaxFaults \in Nat

LEMMA ConstantFacts == Assumptions
BY NoneAssumption, PartialAssumption, OwnerAssumption, SequenceAssumption,
   RevocableAssumption, BoundAssumption DEF Assumptions

-----------------------------------------------------------------------------
(* Type correctness.                                                       *)

\* An operation has a transaction in hand from the check on, and a user's
\* operation knows which build was selected.
OpShape ==
  /\ op.pc \in JournalSteps \cup {"prepare", "begin"} => op.txn # None
  /\ op.kind \in {"install", "remove"} => op.build \in Builds
  /\ op.pc \in {"check", "prepare", "begin", "undo"} => op.kind \in {"install", "remove"}
  /\ op.kind = "idle" => op = Idle

TypeInv == TypeOK /\ OpShape

\* None is no transaction and no record, so a value of either kind has fields.
LEMMA NoneIsNoTransaction ==
  ASSUME NEW T, T \in Transaction \cup {None}, T # None
  PROVE  /\ T \in Transaction
         /\ T.token \in Tokens /\ T.plugin \in Plugins
         /\ T.kind \in {"install", "update", "remove"}
         /\ T.expected \in Builds \cup {None} /\ T.target \in Builds \cup {None}
         /\ T.previous \in Record \cup {None} /\ T.next \in Record \cup {None}
BY DEF Transaction

LEMMA PutHiddenType ==
  ASSUME NEW tree \in Tree, NEW t \in Tokens, NEW c \in Content
  PROVE  PutHidden(tree, t, c) \in Tree
BY DEF PutHidden, Tree

LEMMA PutBothType ==
  ASSUME NEW tree \in Tree, NEW p \in Plugins, NEW c \in Content,
         NEW t \in Tokens, NEW d \in Content
  PROVE  PutBoth(tree, p, c, t, d) \in Tree
BY DEF PutBoth, Tree

LEMMA TypeInit == Init => TypeInv
<1> SUFFICES ASSUME Init PROVE TypeInv
  OBVIOUS
<1> USE ConstantFacts DEF Assumptions
<1>1. Idle \in Operation
  BY DEF Idle, Operation, Steps
<1>2. live \in Tree /\ disk \in Tree
  BY DEF Init, Tree, Content
<1>3. TypeOK
  BY <1>1, <1>2 DEF Init, TypeOK
<1>4. OpShape
  BY DEF Init, OpShape, Idle, JournalSteps
<1> QED
  BY <1>3, <1>4 DEF TypeInv


LEMMA IdleFacts ==
  /\ Idle \in Operation
  /\ Idle.pc = "idle" /\ Idle.kind = "idle" /\ Idle.txn = None
BY DEF Idle, Operation, Steps

\* The two things a step does with the operation: end it, or move it on.
LEMMA OpStops == op' = Idle => op' \in Operation /\ OpShape'
BY IdleFacts DEF OpShape, JournalSteps

LEMMA OpAdvances ==
  ASSUME TypeInv, op.pc # "idle", NEW step \in Steps, NEW T \in Transaction \cup {None},
         NEW origin \in {"found", "begun"}, NEW n \in 0..2,
         Advance(step, T, origin, n),
         step \in JournalSteps \cup {"prepare", "begin"} => T # None,
         step \in {"check", "prepare", "begin", "undo"} => op.kind \in {"install", "remove"}
  PROVE  op' \in Operation /\ OpShape'
BY IdleFacts DEF TypeInv, TypeOK, OpShape, Advance, Operation

LEMMA TypeReconciliation == TypeInv /\ Reconciliation => TypeInv'
<1> SUFFICES ASSUME TypeInv, Reconciliation PROVE TypeInv'
  OBVIOUS
<1> USE ConstantFacts DEF Assumptions
<1>op. /\ op.txn \in Transaction \cup {None} /\ op.origin \in {"found", "begun"} /\ op.attempt \in 0..2
       /\ op.pc \in JournalSteps => op.txn # None
  BY DEF TypeInv, TypeOK, Operation, OpShape
<1> USE DEF JournalSteps, Steps
<1>1. CASE PendingNone
  BY <1>1, <1>op, OpAdvances DEF PendingNone, Goto, TypeInv, TypeOK
<1>2. CASE PendingFound
  <2>1. op' \in Operation /\ OpShape'
    BY <1>2, OpAdvances DEF PendingFound, TypeInv, TypeOK
  <2> QED
    BY <1>2, <2>1 DEF PendingFound, TypeInv, TypeOK
<1>3. CASE RecoverCommitted
  BY <1>3, <1>op, OpAdvances DEF RecoverCommitted, Goto, TypeInv, TypeOK
<1>4. CASE DrainStaging
  <2>1. op.txn.token \in Tokens
    BY <1>4, <1>op, NoneIsNoTransaction DEF DrainStaging
  <2>2. PICK c \in {Partial, None} :
          /\ live' = PutHidden(live, op.txn.token, c)
          /\ Goto(IF c = None THEN "drained" ELSE "drain")
    BY <1>4 DEF DrainStaging
  <2>3. live' \in Tree
    BY <2>1, <2>2, PutHiddenType DEF Content, TypeInv, TypeOK
  <2>4. op' \in Operation /\ OpShape'
    BY <1>4, <2>2, <1>op, OpAdvances DEF DrainStaging, Goto
  <2> QED
    BY <1>4, <2>3, <2>4 DEF DrainStaging, TypeInv, TypeOK
<1>5. CASE DrainSync
  BY <1>5, <1>op, OpAdvances DEF DrainSync, Goto, TypeInv, TypeOK
<1>6. CASE RecoverPublish
  BY <1>6, <1>op, OpAdvances DEF RecoverPublish, Goto, TypeInv, TypeOK
<1>7. CASE RecoverAbandon
  BY <1>7, <1>op, OpAdvances DEF RecoverAbandon, Goto, TypeInv, TypeOK
<1>8. CASE RecoverRefuses
  BY <1>8, OpStops DEF RecoverRefuses, TypeInv, TypeOK
<1>9. CASE Finish
  BY <1>9, OpStops, OpAdvances DEF Finish, Closed, TypeInv, TypeOK
<1>10. CASE Abort
  <2>1. journal.previous \in Record \cup {None}
    BY <1>10, NoneIsNoTransaction DEF Abort, CanClose, TypeInv, TypeOK
  <2>2. op' \in Operation /\ OpShape'
    BY <1>10, OpStops, OpAdvances DEF Abort, Closed
  <2> QED
    BY <1>10, <2>1, <2>2 DEF Abort, TypeInv, TypeOK
<1>11. ASSUME NEW t \in Tokens, Discard(t) PROVE TypeInv'
  <2>1. live' \in Tree
    BY <1>11, PutHiddenType DEF Discard, Content, TypeInv, TypeOK
  <2> QED
    BY <1>11, <2>1 DEF Discard, TypeInv, TypeOK, OpShape
<1>12. CASE DiscardDone
  <2>1. op' \in Operation /\ OpShape'
    <3>1. op.kind \in {"idle", "install", "remove", "reconcile"} /\ op.kind # "idle"
      BY <1>12, IdleFacts DEF DiscardDone, TypeInv, TypeOK, Operation, OpShape
    <3> QED
      BY <1>12, <3>1, <1>op, OpStops, OpAdvances DEF DiscardDone, Goto
  <2> QED
    BY <1>12, <2>1 DEF DiscardDone, TypeInv, TypeOK
<1> QED
  BY <1>1, <1>2, <1>3, <1>4, <1>5, <1>6, <1>7, <1>8, <1>9, <1>10, <1>11, <1>12
     DEF Reconciliation

LEMMA TypePublication == TypeInv /\ Publication => TypeInv'
<1> SUFFICES ASSUME TypeInv, Publication PROVE TypeInv'
  OBVIOUS
<1> USE ConstantFacts DEF Assumptions
<1>op. /\ op.txn \in Transaction \cup {None} /\ op.origin \in {"found", "begun"}
       /\ op.attempt \in 0..2
       /\ op.pc \in JournalSteps => op.txn # None
  BY DEF TypeInv, TypeOK, Operation, OpShape
<1> USE DEF JournalSteps, Steps
<1>txn. op.pc \in JournalSteps =>
          /\ op.txn.plugin \in Plugins /\ op.txn.token \in Tokens
          /\ Canonical \in Content /\ Hidden \in Content
  <2> SUFFICES ASSUME op.pc \in JournalSteps
               PROVE  /\ op.txn.plugin \in Plugins /\ op.txn.token \in Tokens
                      /\ Canonical \in Content /\ Hidden \in Content
    OBVIOUS
  <2>1. op.txn.plugin \in Plugins /\ op.txn.token \in Tokens
    BY <1>op, NoneIsNoTransaction
  <2> QED
    BY <2>1 DEF Canonical, Hidden, Tree, TypeInv, TypeOK
<1>1. CASE PublishAlready
  BY <1>1, <1>op, OpAdvances DEF PublishAlready, Goto, TypeInv, TypeOK
<1>2. CASE PublishRename
  <2>1. live' \in Tree
    BY <1>2, <1>txn, PutBothType DEF PublishRename, TypeInv, TypeOK
  <2> QED
    BY <1>2, <2>1, <1>op, OpAdvances DEF PublishRename, Goto, TypeInv, TypeOK
<1>3. CASE PublishSync
  BY <1>3, <1>op, OpAdvances DEF PublishSync, Goto, TypeInv, TypeOK
<1>4. CASE Sweep
  <2>1. PICK c \in {Hidden, Partial, None} :
          /\ live' = PutHidden(live, op.txn.token, c)
          /\ disk' \in (IF c = None THEN {live', disk} ELSE {disk})
    BY <1>4 DEF Sweep
  <2>2. live' \in Tree
    <3>1. c \in Content
      BY <1>4, <1>txn, <2>1 DEF Sweep, Content
    <3> QED
      BY <1>4, <1>txn, <2>1, <3>1, PutHiddenType DEF Sweep, TypeInv, TypeOK
  <2>3. disk' \in Tree
    BY <2>1, <2>2 DEF TypeInv, TypeOK
  <2> QED
    BY <1>4, <2>2, <2>3, <1>op, OpAdvances DEF Sweep, Goto, TypeInv, TypeOK
<1>5. CASE PublishFails
  <2>1. op' \in Operation /\ OpShape'
    BY <1>5, <1>op, OpStops, OpAdvances DEF PublishFails
  <2>2. faults' \in 0..MaxFaults
    BY <1>5 DEF PublishFails, Fault, TypeInv, TypeOK
  <2> QED
    BY <1>5, <2>1, <2>2 DEF PublishFails, TypeInv, TypeOK
<1>6. CASE RetireRename
  <2>1. live' \in Tree
    BY <1>6, <1>txn, PutBothType DEF RetireRename, Content, TypeInv, TypeOK
  <2> QED
    BY <1>6, <2>1, <1>op, OpAdvances DEF RetireRename, Goto, TypeInv, TypeOK
<1>7. CASE RetireResume
  BY <1>7, <1>op, OpAdvances DEF RetireResume, Goto, TypeInv, TypeOK
<1>8. CASE RetireSync
  BY <1>8, <1>op, OpAdvances DEF RetireSync, Retired, Goto, TypeInv, TypeOK
<1>9. CASE Erase
  <2>1. PICK c \in {Partial, None} :
          /\ live' = PutHidden(live, op.txn.token, c)
          /\ Goto(IF c = None THEN "eraseSync" ELSE "erase")
    BY <1>9 DEF Erase
  <2>2. live' \in Tree
    BY <1>9, <1>txn, <2>1, PutHiddenType DEF Erase, Content, TypeInv, TypeOK
  <2>3. op' \in Operation /\ OpShape'
    BY <1>9, <2>1, <1>op, OpAdvances DEF Erase, Goto
  <2> QED
    BY <1>9, <2>2, <2>3 DEF Erase, TypeInv, TypeOK
<1>10. CASE EraseSync
  BY <1>10, <1>op, OpAdvances DEF EraseSync, Retired, Goto, TypeInv, TypeOK
<1>11. CASE RetireFails
  <2>1. op' \in Operation /\ OpShape'
    BY <1>11, <1>op, OpStops, OpAdvances DEF RetireFails
  <2>2. faults' \in 0..MaxFaults
    BY <1>11 DEF RetireFails, Fault, TypeInv, TypeOK
  <2> QED
    BY <1>11, <2>1, <2>2 DEF RetireFails, TypeInv, TypeOK
<1>12. CASE Settle
  BY <1>12, <1>op, OpAdvances DEF Settle, Goto, TypeInv, TypeOK
<1> QED
  BY <1>1, <1>2, <1>3, <1>4, <1>5, <1>6, <1>7, <1>8, <1>9, <1>10, <1>11, <1>12
     DEF Publication

\* The checks leave a transaction whose digests are builds.
LEMMA PlannedType ==
  ASSUME TypeInv, NEW t \in Tokens, op.pc = "check", Allowed
  PROVE  Planned(t) \in Transaction
<1> USE ConstantFacts DEF Assumptions
<1>1. op.build \in Builds /\ op.kind \in {"install", "remove"}
  BY DEF TypeInv, OpShape
<1>2. Selected \in Plugins
  BY <1>1 DEF Selected
<1>3. records[Selected] \in Record \cup {None}
  BY <1>2 DEF TypeInv, TypeOK
<1>4. Installed \in Builds \cup {None}
  BY <1>1 DEF Allowed, InstallAllowed, RemoveAllowed, Verifies
<1>5. [digest |-> op.build, source |-> "appData",
        enabled |-> IF records[Selected] = None THEN TRUE ELSE records[Selected].enabled] \in Record
  BY <1>1, <1>3 DEF Record
<1> QED
  BY <1>1, <1>2, <1>3, <1>4, <1>5 DEF Planned, Transaction

LEMMA TypePreparation == TypeInv /\ Preparation => TypeInv'
<1> SUFFICES ASSUME TypeInv, Preparation PROVE TypeInv'
  OBVIOUS
<1> USE ConstantFacts DEF Assumptions
<1>op. /\ op.txn \in Transaction \cup {None} /\ op.origin \in {"found", "begun"}
       /\ op.attempt \in 0..2
       /\ op.pc \in {"prepare", "begin"} => op.txn # None
       /\ op.pc \in {"check", "prepare", "begin"} => op.kind \in {"install", "remove"}
  BY DEF TypeInv, TypeOK, Operation, OpShape
<1> USE DEF JournalSteps, Steps
<1>1. ASSUME NEW t \in Tokens, CheckPasses(t) PROVE TypeInv'
  <2>1. Planned(t) \in Transaction /\ Planned(t) # None
    BY <1>1, PlannedType, NoneIsNoRecord DEF CheckPasses
  <2>2. op' \in Operation /\ OpShape'
    BY <1>1, <2>1, <1>op, OpAdvances DEF CheckPasses
  <2> QED
    BY <1>1, <2>2 DEF CheckPasses, TypeInv, TypeOK
<1>2. CASE CheckRefuses
  BY <1>2, OpStops DEF CheckRefuses, TypeInv, TypeOK
<1>3. CASE PrepareCopy
  <2>1. live' \in Tree
    BY <1>3, <1>op, NoneIsNoTransaction, PutHiddenType DEF PrepareCopy, Content, TypeInv, TypeOK
  <2> QED
    BY <1>3, <2>1 DEF PrepareCopy, TypeInv, TypeOK, OpShape
<1>4. CASE PrepareDone
  <2>1. live' \in Tree
    BY <1>4, <1>op, NoneIsNoTransaction, PutHiddenType DEF PrepareDone, Content, TypeInv, TypeOK
  <2> QED
    BY <1>4, <2>1, <1>op, OpAdvances DEF PrepareDone, Goto, TypeInv, TypeOK
<1>5. CASE PrepareFails
  <2>1. op.txn.token \in Tokens /\ Hidden \in Content
    BY <1>5, <1>op, NoneIsNoTransaction DEF PrepareFails, Hidden, Tree, TypeInv, TypeOK
  <2>2. live' \in Tree
    BY <1>5, <2>1, PutHiddenType DEF PrepareFails, Content, TypeInv, TypeOK
  <2>3. faults' \in 0..MaxFaults
    BY <1>5 DEF PrepareFails, Fault, TypeInv, TypeOK
  <2> QED
    BY <1>5, <2>2, <2>3, OpStops DEF PrepareFails, TypeInv, TypeOK
<1>6. CASE Begin
  <2>1. op.txn \in Transaction /\ op.txn.next \in Record \cup {None}
    BY <1>6, <1>op, NoneIsNoTransaction DEF Begin
  <2>2. op' \in Operation /\ OpShape'
    BY <1>6, <1>op, OpAdvances DEF Begin
  <2> QED
    BY <1>6, <2>1, <2>2 DEF Begin, TypeInv, TypeOK
<1>7. CASE BeginFails
  <2>1. op' \in Operation /\ OpShape'
    BY <1>7, <1>op, OpStops, OpAdvances DEF BeginFails
  <2>2. faults' \in 0..MaxFaults
    BY <1>7 DEF BeginFails, TypeInv, TypeOK
  <2> QED
    BY <1>7, <2>1, <2>2 DEF BeginFails, TypeInv, TypeOK
<1> QED
  BY <1>1, <1>2, <1>3, <1>4, <1>5, <1>6, <1>7 DEF Preparation

LEMMA TypeRest ==
  TypeInv /\ (GiveUp \/ UserStarts \/ StartReconcile \/ RecordChanges \/ Environment) => TypeInv'
<1> SUFFICES ASSUME TypeInv, GiveUp \/ UserStarts \/ StartReconcile \/ RecordChanges \/ Environment
             PROVE  TypeInv'
  OBVIOUS
<1> USE ConstantFacts DEF Assumptions
<1>fault. Fault => faults' \in 0..MaxFaults
  BY DEF Fault, TypeInv, TypeOK
<1>1. CASE GiveUp
  BY <1>1, <1>fault, OpStops DEF GiveUp, TypeInv, TypeOK
<1>2. ASSUME NEW kind \in {"install", "remove", "reconcile"}, NEW b \in Builds \cup {None},
             kind # "reconcile" => b \in Builds, Start(kind, b)
      PROVE  TypeInv'
  <2>1. op' \in Operation /\ OpShape'
    BY <1>2 DEF Start, Operation, OpShape, Steps, JournalSteps
  <2> QED
    BY <1>2, <2>1 DEF Start, TypeInv, TypeOK
<1>3. CASE UserStarts
  BY <1>2, <1>3 DEF UserStarts, StartInstall, StartRemove
<1>4. CASE StartReconcile
  BY <1>2, <1>4 DEF StartReconcile
<1>5. CASE RecordChanges
  <2>1. ASSUME NEW p \in Plugins, NEW enabled \in BOOLEAN, SelectToggle(p, enabled) PROVE TypeInv'
    <3>1. pick' \in Pick
      BY <2>1 DEF SelectToggle, Verifies, Pick
    <3> QED
      BY <2>1, <3>1 DEF SelectToggle, TypeInv, TypeOK, OpShape
  <2>2. ASSUME NEW p \in Plugins, NEW enabled \in BOOLEAN, SetEnabled(p, enabled) PROVE TypeInv'
    <3>1. records[p] \in Record
      BY <2>2 DEF SetEnabled, TypeInv, TypeOK
    <3>2. [digest |-> records[p].digest, source |-> records[p].source, enabled |-> enabled] \in Record
      BY <3>1 DEF Record
    <3> QED
      BY <2>2, <3>2 DEF SetEnabled, TypeInv, TypeOK, OpShape
  <2>3. CASE ScheduleToggle
    <3>1. pick \in Pick
      BY <2>3 DEF ScheduleToggle, TypeInv, TypeOK
    <3>2. [digest |-> pick.digest, source |-> "appData", enabled |-> pick.enabled] \in Record
      BY <3>1 DEF Pick, Record
    <3> QED
      BY <2>3, <3>2 DEF ScheduleToggle, TypeInv, TypeOK, OpShape
  <2>4. CASE ToggleRefused
    BY <2>4 DEF ToggleRefused, TypeInv, TypeOK, OpShape
  <2>5. ASSUME NEW b \in Builds, NEW enabled \in BOOLEAN, ScheduleOther(b, enabled) PROVE TypeInv'
    <3>1. [digest |-> b, source |-> "other", enabled |-> enabled] \in Record
      BY DEF Record
    <3> QED
      BY <2>5, <3>1 DEF ScheduleOther, TypeInv, TypeOK, OpShape
  <2>6. ASSUME NEW p \in Plugins, DropRecord(p) PROVE TypeInv'
    BY <2>6 DEF DropRecord, TypeInv, TypeOK, OpShape
  <2> QED
    BY <1>5, <2>1, <2>2, <2>3, <2>4, <2>5, <2>6 DEF RecordChanges
<1>6. CASE Environment
  <2>1. CASE Launch
    BY <2>1 DEF Launch, TypeInv, TypeOK, OpShape
  <2>2. CASE Crash
    BY <2>2, <1>fault, OpStops DEF Crash, Stop, TypeInv, TypeOK
  <2>3. CASE PowerLoss
    BY <2>3, <1>fault, OpStops DEF PowerLoss, Stop, TypeInv, TypeOK
  <2>4. CASE WriteBack
    BY <2>4 DEF WriteBack, TypeInv, TypeOK, OpShape
  <2>5. ASSUME NEW t \in Tokens, LoseHidden(t) PROVE TypeInv'
    <3>1. live' \in Tree
      BY <2>5, PutHiddenType DEF LoseHidden, Content, TypeInv, TypeOK
    <3> QED
      BY <2>5, <3>1, <1>fault DEF LoseHidden, TypeInv, TypeOK, OpShape
  <2>6. ASSUME NEW b \in Builds, Revoke(b) PROVE TypeInv'
    BY <2>6 DEF Revoke, TypeInv, TypeOK, OpShape
  <2> QED
    BY <1>6, <2>1, <2>2, <2>3, <2>4, <2>5, <2>6 DEF Environment
<1> QED
  BY <1>1, <1>3, <1>4, <1>5, <1>6

LEMMA TypeStep == TypeInv /\ [Next]_vars => TypeInv'
<1> SUFFICES ASSUME TypeInv, [Next]_vars PROVE TypeInv'
  OBVIOUS
<1>1. CASE UNCHANGED vars
  BY <1>1 DEF vars, TypeInv, TypeOK, OpShape
<1> QED
  BY <1>1, TypeReconciliation, TypePublication, TypePreparation, TypeRest DEF Next

\* The variables always hold what the stores decode (TypeOK), and an operation
\* never reaches a step that needs a transaction without having one.
THEOREM TypeCorrect == Spec => []TypeInv
<1>1. Init => TypeInv
  BY TypeInit
<1>2. TypeInv /\ [Next]_vars => TypeInv'
  BY TypeStep
<1> QED
  BY <1>1, <1>2, PTL DEF Spec

THEOREM TypeOKHolds == Spec => []TypeOK
<1>1. TypeInv => TypeOK
  BY DEF TypeInv
<1> QED
  BY <1>1, TypeCorrect, PTL

-----------------------------------------------------------------------------
(* The inductive invariant behind the safety properties.                   *)

\* What the checks guarantee of a transaction, and the journal then keeps.
WellFormed(T) ==
  /\ T \in Transaction
  /\ T.kind = "remove" => T.expected \in Builds /\ T.target = None
  /\ T.kind # "remove" => T.target \in Builds
  /\ T.kind = "install" => T.expected = None
  /\ T.expected \in Builds /\ T.target \in Builds /\ T.expected # T.target
       => Sequence[T.target] > Sequence[T.expected]

\* A canonical place only goes from the expected to the target build, on disk no
\* sooner than in the running system.
JournalInv ==
  journal # None =>
    /\ WellFormed(journal)
    /\ disk.final[journal.plugin] = journal.target
         => live.final[journal.plugin] = journal.target

\* No place but the journal's differs between disk and the running system.
OthersDurable ==
  \A q \in Plugins : (journal # None => journal.plugin # q) => live.final[q] = disk.final[q]

InstallSteps == {"recover", "drain", "drained", "publish", "publishSync", "sweep", "abort"}
RemoveSteps == {"retire", "retireSync", "erase", "eraseSync", "settle"}
DurableSteps == {"drain", "drained", "sweep", "finish", "erase", "eraseSync", "settle"}

\* What the running operation may rely on: which transaction the journal holds...
OpJournal ==
  /\ op.pc \in JournalSteps => journal = op.txn
  /\ op.pc \in {"discard", "check", "prepare", "begin", "undo"} => journal = None
  /\ op.pc \in InstallSteps => op.txn.kind # "remove"
  /\ op.pc \in RemoveSteps => op.txn.kind = "remove"
  /\ op.pc # "idle" => phase # "down"

\* ... what it planned before it wrote the journal ...
OpPlan ==
  /\ op.pc \in {"prepare", "begin"} =>
       /\ WellFormed(op.txn)
       /\ live.final[op.txn.plugin] = op.txn.expected
       /\ op.txn.kind = "remove" <=> op.kind = "remove"
       /\ op.pc = "prepare" => op.kind # "remove"
  /\ op.pc = "begin" /\ op.kind # "remove" =>
       /\ live.hidden[op.txn.token] = op.txn.target
       /\ disk.hidden[op.txn.token] = op.txn.target

\* ... and how far it got afterwards.
OpProgress ==
  /\ op.pc = "publish" /\ Committed => disk.final[op.txn.plugin] = op.txn.target
  /\ op.pc \in {"publishSync", "retireSync"} => live.final[op.txn.plugin] = op.txn.target
  /\ op.pc \in DurableSteps =>
       live.final[op.txn.plugin] = op.txn.target /\ disk.final[op.txn.plugin] = op.txn.target
  /\ op.pc = "finish" /\ op.txn.kind = "remove" =>
       live.hidden[op.txn.token] = None /\ disk.hidden[op.txn.token] = None
  /\ op.pc = "abort" =>
       live.final[op.txn.plugin] = op.txn.expected /\ disk.final[op.txn.plugin] = op.txn.expected

Inv ==
  /\ TypeInv
  /\ JournalRecoverable
  /\ JournalInv
  /\ OthersDurable
  /\ OpJournal
  /\ OpPlan
  /\ OpProgress

\* The parts of Inv that speak of the stores, apart from the running operation.
StoreInv == JournalRecoverable /\ JournalInv /\ OthersDurable
OpInv == OpJournal /\ OpPlan /\ OpProgress

\* Most steps leave the stores alone.
LEMMA StoresKept ==
  Inv /\ UNCHANGED <<records, journal, live, disk>> => StoreInv'
BY DEF Inv, StoreInv, JournalRecoverable, JournalInv, OthersDurable

\* Synchronizing the directory is always safe...
LEMMA SyncSafe ==
  Inv /\ disk' = live /\ UNCHANGED <<records, journal, live>> => StoreInv'
BY DEF Inv, StoreInv, JournalRecoverable, JournalInv, OthersDurable

\* ... and so is losing what was not synchronized.
LEMMA LossSafe ==
  Inv /\ live' = disk /\ UNCHANGED <<records, journal, disk>> => StoreInv'
BY DEF Inv, StoreInv, JournalRecoverable, JournalInv, OthersDurable

\* A hidden tree may change when no transaction still has to publish it.
LEMMA HiddenSafe ==
  ASSUME Inv, NEW t \in Tokens, NEW c, live' = PutHidden(live, t, c),
         disk' \in {disk, live'}, UNCHANGED <<records, journal>>,
         journal # None /\ journal.kind # "remove" =>
           \/ c = None
           \/ /\ live.final[journal.plugin] = journal.target
              /\ disk.final[journal.plugin] = journal.target
  PROVE  StoreInv'
<1> USE DEF Inv, PutHidden
<1>1. live'.final = live.final /\ disk'.final \in {disk.final, live.final}
  OBVIOUS
<1>2. \A s \in Tokens : live'.hidden[s] = (IF s = t THEN c ELSE live.hidden[s])
  BY DEF TypeInv, TypeOK, Tree
<1>3. JournalRecoverable'
  <2> SUFFICES ASSUME journal # None PROVE JournalRecoverable'
    BY DEF JournalRecoverable
  <2>1. journal.token \in Tokens
    BY NoneIsNoTransaction DEF TypeInv, TypeOK
  <2> DEFINE Old(tree) ==
        /\ tree.final[journal.plugin] \in {journal.expected, journal.target}
        /\ journal.kind # "remove" /\ tree.final[journal.plugin] # journal.target
             => tree.hidden[journal.token] \in {journal.target, None}
  <2>2. Old(live) /\ Old(disk)
    BY DEF JournalRecoverable
  <2>3. Old(live')
    BY <1>1, <1>2, <2>1, <2>2
  <2>4. Old(disk')
    BY <2>2, <2>3
  <2>5. journal' = journal /\ records'[journal.plugin] = journal.next
    BY DEF JournalRecoverable
  <2> HIDE DEF Old
  <2>6. \A tree \in {live', disk'} : Old(tree)
    BY <2>3, <2>4
  <2> QED
    BY <2>5, <2>6 DEF JournalRecoverable, Old
<1>4. JournalInv'
  BY <1>1 DEF JournalInv, JournalRecoverable
<1>5. OthersDurable'
  BY <1>1 DEF OthersDurable
<1> QED
  BY <1>3, <1>4, <1>5 DEF StoreInv

\* The target may become canonical in the running system at any time.
LEMMA RenameSafe ==
  ASSUME Inv, journal # None, UNCHANGED <<records, journal, disk>>,
         live'.final[journal.plugin] = journal.target,
         \A q \in Plugins : q # journal.plugin => live'.final[q] = live.final[q]
  PROVE  StoreInv'
<1> USE DEF Inv
<1>1. JournalRecoverable'
  <2>1. \A tree \in {live', disk'} :
          /\ tree.final[journal.plugin] \in {journal.expected, journal.target}
          /\ journal.kind # "remove" /\ tree.final[journal.plugin] # journal.target
               => tree.hidden[journal.token] \in {journal.target, None}
    BY DEF JournalRecoverable
  <2>2. journal' = journal /\ records'[journal.plugin] = journal.next
    BY DEF JournalRecoverable
  <2> QED
    BY <2>1, <2>2 DEF JournalRecoverable
<1>2. JournalInv'
  BY DEF JournalInv
<1>3. OthersDurable'
  BY DEF OthersDurable
<1> QED
  BY <1>1, <1>2, <1>3 DEF StoreInv

\* An ended operation owes nothing.
LEMMA IdleOwesNothing == op' = Idle => OpInv'
BY IdleFacts DEF OpInv, OpJournal, OpPlan, OpProgress, JournalSteps, InstallSteps,
   RemoveSteps, DurableSteps

\* The transaction in hand while the journal is being worked on.
LEMMA InHand ==
  ASSUME Inv, op.pc \in JournalSteps
  PROVE  /\ journal = op.txn /\ journal # None /\ WellFormed(op.txn)
         /\ op.txn \in Transaction /\ op.txn.plugin \in Plugins /\ op.txn.token \in Tokens
         /\ op.txn.target # Partial
         /\ op.txn.kind \in {"install", "update", "remove"}
         /\ Canonical \in {op.txn.expected, op.txn.target}
         /\ disk.final[op.txn.plugin] \in {op.txn.expected, op.txn.target}
         /\ disk.final[op.txn.plugin] = op.txn.target => Canonical = op.txn.target
         /\ op.txn.kind # "remove" /\ Canonical # op.txn.target => Hidden \in {op.txn.target, None}
<1>1. journal = op.txn /\ journal # None
  BY DEF Inv, TypeInv, OpShape, OpJournal
<1>2. WellFormed(op.txn)
  BY <1>1 DEF Inv, JournalInv
<1>3. /\ op.txn \in Transaction /\ op.txn.plugin \in Plugins /\ op.txn.token \in Tokens
      /\ op.txn.target # Partial /\ op.txn.kind \in {"install", "update", "remove"}
  BY <1>2, PartialAssumption, NoneAssumption DEF WellFormed, Transaction
<1> QED
  BY <1>1, <1>2, <1>3 DEF Inv, JournalRecoverable, JournalInv, Canonical, Hidden

LEMMA StepReconciliation == Inv /\ Reconciliation => StoreInv' /\ OpInv'
<1> SUFFICES ASSUME Inv, Reconciliation PROVE StoreInv' /\ OpInv'
  OBVIOUS
<1> USE DEF JournalSteps, InstallSteps, RemoveSteps, DurableSteps
<1>inv. OpJournal /\ OpPlan /\ OpProgress
  BY DEF Inv
<1>1. CASE PendingNone
  <2>1. OpInv'
    BY <1>1, <1>inv DEF PendingNone, Goto, Advance, OpInv, OpJournal, OpPlan, OpProgress
  <2> QED
    BY <1>1, <2>1, StoresKept DEF PendingNone
<1>2. CASE PendingFound
  <2>1. OpInv'
    BY <1>2, <1>inv DEF PendingFound, Advance, OpInv, OpJournal, OpPlan, OpProgress
  <2> QED
    BY <1>2, <2>1, StoresKept DEF PendingFound
<1>3. CASE RecoverCommitted
  <2>1. OpInv'
    BY <1>3, <1>inv, InHand
       DEF RecoverCommitted, Goto, Advance, OpInv, OpJournal, OpPlan, OpProgress, Committed, Canonical
  <2> QED
    BY <1>3, <2>1, SyncSafe DEF RecoverCommitted
<1>4. CASE DrainStaging
  <2>1. PICK c \in {Partial, None} :
          /\ live' = PutHidden(live, op.txn.token, c)
          /\ Goto(IF c = None THEN "drained" ELSE "drain")
    BY <1>4 DEF DrainStaging
  <2>2. StoreInv'
    BY <1>4, <2>1, <1>inv, InHand, HiddenSafe DEF DrainStaging, OpProgress
  <2>3. OpInv'
    BY <1>4, <2>1, <1>inv, InHand
       DEF DrainStaging, Goto, Advance, PutHidden, OpInv, OpJournal, OpPlan, OpProgress
  <2> QED
    BY <2>2, <2>3
<1>5. CASE DrainSync
  <2>1. OpInv'
    BY <1>5, <1>inv, InHand
       DEF DrainSync, Goto, Advance, OpInv, OpJournal, OpPlan, OpProgress
  <2> QED
    BY <1>5, <2>1, SyncSafe DEF DrainSync
<1>6. CASE RecoverPublish
  <2>1. OpInv'
    BY <1>6, <1>inv, InHand
       DEF RecoverPublish, Goto, Advance, OpInv, OpJournal, OpPlan, OpProgress, Committed,
           Verifies, Canonical
  <2> QED
    BY <1>6, <2>1, StoresKept DEF RecoverPublish
<1>7. CASE RecoverAbandon
  <2>1. Canonical = op.txn.expected /\ Canonical # op.txn.target
    BY <1>7, <1>inv, InHand, NoneAssumption
       DEF RecoverAbandon, Abandonable, Committed, OpJournal, WellFormed
  <2>2. disk.final[op.txn.plugin] = op.txn.expected
    BY <1>7, <2>1, InHand DEF RecoverAbandon
  <2>3. OpInv'
    BY <1>7, <1>inv, InHand, <2>1, <2>2
       DEF RecoverAbandon, Goto, Advance, OpInv, OpJournal, OpPlan, OpProgress, Canonical
  <2> QED
    BY <1>7, <2>3, StoresKept DEF RecoverAbandon
<1>8. CASE RecoverRefuses
  BY <1>8, IdleOwesNothing, StoresKept DEF RecoverRefuses
<1>9. CASE Finish
  <2>1. live.final[op.txn.plugin] = disk.final[op.txn.plugin]
    BY <1>9, <1>inv DEF Finish, OpProgress
  <2>2. StoreInv'
    BY <1>9, <2>1, InHand DEF Finish, Inv, StoreInv, JournalRecoverable, JournalInv, OthersDurable
  <2>3. OpInv'
    BY <1>9, <1>inv, IdleOwesNothing
       DEF Finish, Closed, Advance, OpInv, OpJournal, OpPlan, OpProgress
  <2> QED
    BY <2>2, <2>3
<1>10. CASE Abort
  <2>1. live.final[op.txn.plugin] = disk.final[op.txn.plugin]
    BY <1>10, <1>inv DEF Abort, OpProgress
  <2>2. StoreInv'
    BY <1>10, <2>1, InHand DEF Abort, Inv, StoreInv, JournalRecoverable, JournalInv, OthersDurable
  <2>3. OpInv'
    BY <1>10, <1>inv, IdleOwesNothing
       DEF Abort, Closed, Advance, OpInv, OpJournal, OpPlan, OpProgress
  <2> QED
    BY <2>2, <2>3
<1>11. ASSUME NEW t \in Tokens, Discard(t) PROVE StoreInv' /\ OpInv'
  <2>1. journal = None
    BY <1>11, <1>inv DEF Discard, OpJournal
  <2>2. StoreInv'
    BY <1>11, <2>1, HiddenSafe DEF Discard
  <2>3. OpInv'
    BY <1>11, <1>inv DEF Discard, OpInv, OpJournal, OpPlan, OpProgress
  <2> QED
    BY <2>2, <2>3
<1>12. CASE DiscardDone
  <2>1. StoreInv'
    BY <1>12, StoresKept, SyncSafe DEF DiscardDone
  <2>2. OpInv'
    BY <1>12, <1>inv, IdleOwesNothing
       DEF DiscardDone, Goto, Advance, OpInv, OpJournal, OpPlan, OpProgress
  <2> QED
    BY <2>1, <2>2
<1> QED
  BY <1>1, <1>2, <1>3, <1>4, <1>5, <1>6, <1>7, <1>8, <1>9, <1>10, <1>11, <1>12
     DEF Reconciliation

LEMMA StepPublication == Inv /\ Publication => StoreInv' /\ OpInv'
<1> SUFFICES ASSUME Inv, Publication PROVE StoreInv' /\ OpInv'
  OBVIOUS
<1> USE DEF JournalSteps, InstallSteps, RemoveSteps, DurableSteps
<1>inv. OpJournal /\ OpPlan /\ OpProgress
  BY DEF Inv
<1>1. CASE PublishAlready
  <2>1. Verifies(op.txn.target)
    BY <1>1, <1>inv, InHand, NoneAssumption
       DEF PublishAlready, Publishable, OpJournal, WellFormed
  <2>2. Canonical = op.txn.target /\ disk.final[op.txn.plugin] = op.txn.target
    BY <1>1, <2>1, <1>inv DEF PublishAlready, OpProgress, Committed
  <2>3. OpInv'
    BY <1>1, <2>2, <1>inv
       DEF PublishAlready, Goto, Advance, OpInv, OpJournal, OpPlan, OpProgress, Canonical
  <2> QED
    BY <1>1, <2>3, StoresKept DEF PublishAlready
<1>2. CASE PublishRename
  <2>1. /\ journal = op.txn /\ op.txn.plugin \in Plugins /\ op.txn.token \in Tokens
        /\ Hidden = op.txn.target
    BY <1>2, InHand DEF PublishRename, Publishable
  <2>2. /\ live'.final[op.txn.plugin] = op.txn.target
        /\ \A q \in Plugins : q # op.txn.plugin => live'.final[q] = live.final[q]
    BY <1>2, <2>1 DEF PublishRename, PutBoth, Inv, TypeInv, TypeOK, Tree
  <2>3. StoreInv'
    BY <1>2, <2>1, <2>2, InHand, RenameSafe DEF PublishRename
  <2>4. OpInv'
    BY <1>2, <2>1, <2>2, <1>inv
       DEF PublishRename, Goto, Advance, OpInv, OpJournal, OpPlan, OpProgress
  <2> QED
    BY <2>3, <2>4
<1>3. CASE PublishSync
  <2>1. OpInv'
    BY <1>3, <1>inv DEF PublishSync, Goto, Advance, OpInv, OpJournal, OpPlan, OpProgress
  <2> QED
    BY <1>3, <2>1, SyncSafe DEF PublishSync
<1>4. CASE Sweep
  <2>1. PICK c \in {Hidden, Partial, None} :
          /\ live' = PutHidden(live, op.txn.token, c)
          /\ disk' \in (IF c = None THEN {live', disk} ELSE {disk})
    BY <1>4 DEF Sweep
  <2>2. StoreInv'
    BY <1>4, <2>1, <1>inv, InHand, HiddenSafe DEF Sweep, OpProgress
  <2>3. live'.final = live.final /\ disk'.final \in {live.final, disk.final}
    BY <2>1 DEF PutHidden
  <2>4. OpInv'
    BY <1>4, <2>3, <1>inv DEF Sweep, Goto, Advance, OpInv, OpJournal, OpPlan, OpProgress
  <2> QED
    BY <2>2, <2>4
<1>5. CASE PublishFails
  <2>1. OpInv'
    BY <1>5, <1>inv, IdleOwesNothing
       DEF PublishFails, Advance, OpInv, OpJournal, OpPlan, OpProgress
  <2> QED
    BY <1>5, <2>1, StoresKept DEF PublishFails
<1>6. CASE RetireRename
  <2>1. /\ journal = op.txn /\ op.txn.plugin \in Plugins /\ op.txn.token \in Tokens
        /\ op.txn.kind = "remove" /\ op.txn.target = None
    BY <1>6, <1>inv, InHand DEF RetireRename, OpJournal, WellFormed
  <2>2. /\ live'.final[op.txn.plugin] = op.txn.target
        /\ \A q \in Plugins : q # op.txn.plugin => live'.final[q] = live.final[q]
    BY <1>6, <2>1 DEF RetireRename, PutBoth, Inv, TypeInv, TypeOK, Tree
  <2>3. StoreInv'
    BY <1>6, <2>1, <2>2, InHand, RenameSafe DEF RetireRename
  <2>4. OpInv'
    BY <1>6, <2>1, <2>2, <1>inv
       DEF RetireRename, Goto, Advance, OpInv, OpJournal, OpPlan, OpProgress
  <2> QED
    BY <2>3, <2>4
<1>7. CASE RetireResume
  <2>1. live.final[op.txn.plugin] = op.txn.target
    BY <1>7, <1>inv, InHand DEF RetireResume, OpJournal, WellFormed, Canonical
  <2>2. OpInv'
    BY <1>7, <2>1, <1>inv
       DEF RetireResume, Goto, Advance, OpInv, OpJournal, OpPlan, OpProgress
  <2> QED
    BY <1>7, <2>2, StoresKept DEF RetireResume
<1>8. CASE RetireSync
  <2>1. OpInv'
    BY <1>8, <1>inv DEF RetireSync, Retired, Goto, Advance, OpInv, OpJournal, OpPlan, OpProgress
  <2> QED
    BY <1>8, <2>1, SyncSafe DEF RetireSync
<1>9. CASE Erase
  <2>1. PICK c \in {Partial, None} :
          /\ live' = PutHidden(live, op.txn.token, c)
          /\ Goto(IF c = None THEN "eraseSync" ELSE "erase")
    BY <1>9 DEF Erase
  <2>2. StoreInv'
    BY <1>9, <2>1, <1>inv, InHand, HiddenSafe DEF Erase, OpProgress
  <2>3. live'.final = live.final /\ disk' = disk
    BY <1>9, <2>1 DEF Erase, PutHidden
  <2>4. OpInv'
    BY <1>9, <2>1, <2>3, <1>inv DEF Erase, Goto, Advance, OpInv, OpJournal, OpPlan, OpProgress
  <2> QED
    BY <2>2, <2>4
<1>10. CASE EraseSync
  <2>1. OpInv'
    BY <1>10, <1>inv DEF EraseSync, Retired, Goto, Advance, OpInv, OpJournal, OpPlan, OpProgress
  <2> QED
    BY <1>10, <2>1, SyncSafe DEF EraseSync
<1>11. CASE RetireFails
  <2>1. OpInv'
    BY <1>11, <1>inv, IdleOwesNothing
       DEF RetireFails, Advance, OpInv, OpJournal, OpPlan, OpProgress
  <2> QED
    BY <1>11, <2>1, StoresKept DEF RetireFails
<1>12. CASE Settle
  <2>1. OpInv'
    BY <1>12, <1>inv
       DEF Settle, Goto, Advance, OpInv, OpJournal, OpPlan, OpProgress, Hidden
  <2> QED
    BY <1>12, <2>1, SyncSafe DEF Settle
<1> QED
  BY <1>1, <1>2, <1>3, <1>4, <1>5, <1>6, <1>7, <1>8, <1>9, <1>10, <1>11, <1>12
     DEF Publication

\* The checks establish what the journal will keep.
LEMMA PlannedWellFormed ==
  ASSUME Inv, NEW t \in Tokens, op.pc = "check", Allowed
  PROVE  /\ WellFormed(Planned(t))
         /\ live.final[Planned(t).plugin] = Planned(t).expected
         /\ Planned(t).kind = "remove" <=> op.kind = "remove"
<1>1. Planned(t) \in Transaction
  BY PlannedType DEF Inv
<1>2. op.build \in Builds /\ op.kind \in {"install", "remove"}
  BY DEF Inv, TypeInv, OpShape
<1>3. op.build # None
  BY <1>2, NoneAssumption
<1>4. /\ Planned(t).plugin = Selected /\ Planned(t).expected = Installed
      /\ Planned(t).kind = IF op.kind = "remove" THEN "remove"
                           ELSE IF Installed = None THEN "install" ELSE "update"
      /\ Planned(t).target = IF op.kind = "remove" THEN None ELSE op.build
  BY DEF Planned
<1>5. Planned(t).kind = "remove" <=> op.kind = "remove"
  BY <1>4
<1>6. None \notin Builds
  BY NoneAssumption
<1>7. op.kind = "remove" => Installed = op.build
  BY DEF Allowed, RemoveAllowed
<1>8. op.kind = "install" /\ Installed \notin {None, op.build}
        => Sequence[op.build] > Sequence[Installed]
  BY DEF Allowed, InstallAllowed
<1> DEFINE P == Planned(t)
<1>9. /\ P \in Transaction /\ P.plugin = Selected /\ P.expected = Installed
      /\ P.kind = "remove" => op.kind = "remove" /\ P.target = None
      /\ P.kind # "remove" => op.kind = "install" /\ P.target = op.build
      /\ P.kind = "install" => Installed = None
  BY <1>1, <1>2, <1>4
<1> HIDE DEF P
<1>10. WellFormed(P)
  BY <1>2, <1>6, <1>7, <1>8, <1>9 DEF WellFormed
<1>11. live.final[P.plugin] = P.expected
  BY <1>9 DEF Installed
<1> QED
  BY <1>5, <1>10, <1>11 DEF P

LEMMA StepPreparation == Inv /\ Preparation => StoreInv' /\ OpInv'
<1> SUFFICES ASSUME Inv, Preparation PROVE StoreInv' /\ OpInv'
  OBVIOUS
<1> USE DEF JournalSteps, InstallSteps, RemoveSteps, DurableSteps
<1>inv. /\ OpJournal /\ OpPlan /\ OpProgress
        /\ op.pc \in {"check", "prepare", "begin"} => op.kind \in {"install", "remove"}
        /\ op.pc \in {"prepare", "begin"} => op.txn.token \in Tokens /\ op.txn.plugin \in Plugins
  BY NoneIsNoTransaction DEF Inv, OpPlan, WellFormed, TypeInv, OpShape, Transaction
<1>1. ASSUME NEW t \in Tokens, CheckPasses(t) PROVE StoreInv' /\ OpInv'
  <2>1. /\ WellFormed(Planned(t))
        /\ live.final[Planned(t).plugin] = Planned(t).expected
        /\ Planned(t).kind = "remove" <=> op.kind = "remove"
    BY <1>1, PlannedWellFormed DEF CheckPasses
  <2>2. /\ op'.txn = Planned(t) /\ op'.kind = op.kind /\ live' = live
        /\ op'.pc = IF op.kind = "remove" THEN "begin" ELSE "prepare"
        /\ journal' = journal /\ phase' = phase
    BY <1>1 DEF CheckPasses, Advance
  <2>3. OpJournal'
    BY <1>1, <2>2, <1>inv DEF CheckPasses, OpJournal
  <2>4. OpPlan'
    BY <2>1, <2>2 DEF OpPlan, WellFormed
  <2>5. OpProgress'
    BY <2>2 DEF OpProgress
  <2> QED
    BY <1>1, <2>3, <2>4, <2>5, StoresKept DEF CheckPasses, OpInv
<1>2. CASE CheckRefuses
  BY <1>2, IdleOwesNothing, StoresKept DEF CheckRefuses
<1>3. CASE PrepareCopy
  <2>1. StoreInv'
    BY <1>3, <1>inv, HiddenSafe DEF PrepareCopy, OpJournal
  <2>2. OpInv'
    BY <1>3, <1>inv
       DEF PrepareCopy, PutHidden, OpInv, OpJournal, OpPlan, OpProgress, WellFormed
  <2> QED
    BY <2>1, <2>2
<1>4. CASE PrepareDone
  <2>1. StoreInv'
    BY <1>4, <1>inv, HiddenSafe DEF PrepareDone, OpJournal
  <2>2. live'.hidden[op.txn.token] = op.txn.target /\ live'.final = live.final /\ disk' = live'
    BY <1>4, <1>inv DEF PrepareDone, PutHidden, Inv, TypeInv, TypeOK, Tree
  <2>3. OpInv'
    BY <1>4, <2>2, <1>inv
       DEF PrepareDone, Goto, Advance, OpInv, OpJournal, OpPlan, OpProgress, WellFormed
  <2> QED
    BY <2>1, <2>3
<1>5. CASE PrepareFails
  <2>1. journal = None
    BY <1>5, <1>inv DEF PrepareFails, OpJournal
  <2>2. PICK c \in {Hidden, None} : live' = PutHidden(live, op.txn.token, c)
    BY <1>5 DEF PrepareFails
  <2>3. StoreInv'
    BY <1>5, <2>1, <2>2, <1>inv, HiddenSafe DEF PrepareFails
  <2> QED
    BY <1>5, <2>3, IdleOwesNothing DEF PrepareFails
<1>6. CASE Begin
  <2>1. /\ journal = None /\ WellFormed(op.txn) /\ op.txn # None
        /\ live.final[op.txn.plugin] = op.txn.expected
        /\ op.txn.kind = "remove" <=> op.kind = "remove"
    BY <1>6, <1>inv DEF Begin, CanBegin, OpPlan, Inv, TypeInv, OpShape
  <2>2. disk.final[op.txn.plugin] = op.txn.expected
    BY <1>6, <2>1, <1>inv DEF Begin, Inv, OthersDurable
  <2>3. /\ records'[op.txn.plugin] = op.txn.next /\ journal' = op.txn
        /\ live' = live /\ disk' = disk
    BY <1>6, <1>inv DEF Begin, Inv, TypeInv, TypeOK
  <2>4. op.txn.kind # "remove" =>
          live.hidden[op.txn.token] = op.txn.target /\ disk.hidden[op.txn.token] = op.txn.target
    BY <1>6, <2>1, <1>inv DEF Begin, OpPlan
  <2>5. JournalRecoverable'
    BY <2>1, <2>2, <2>3, <2>4 DEF JournalRecoverable
  <2>6. JournalInv'
    BY <2>1, <2>2, <2>3 DEF JournalInv, WellFormed
  <2>7. OthersDurable'
    BY <2>1, <2>3 DEF Inv, OthersDurable
  <2>8. OpInv'
    BY <1>6, <2>1, <2>2, <2>3, <1>inv
       DEF Begin, Advance, OpInv, OpJournal, OpPlan, OpProgress, Committed, Canonical
  <2> QED
    BY <2>5, <2>6, <2>7, <2>8 DEF StoreInv
<1>7. CASE BeginFails
  <2>1. OpInv'
    BY <1>7, <1>inv, IdleOwesNothing
       DEF BeginFails, Advance, OpInv, OpJournal, OpPlan, OpProgress
  <2> QED
    BY <1>7, <2>1, StoresKept DEF BeginFails
<1> QED
  BY <1>1, <1>2, <1>3, <1>4, <1>5, <1>6, <1>7 DEF Preparation

\* The running operation keeps its footing while only these are touched.
LEMMA OpKept ==
  Inv /\ UNCHANGED <<op, journal, live, disk, phase, revoked>> => OpInv'
BY DEF Inv, OpInv, OpJournal, OpPlan, OpProgress, JournalSteps, InstallSteps, RemoveSteps,
   DurableSteps, Committed, Verifies, Canonical

\* Records change outside an operation only while no transaction is pending.
LEMMA RecordChangeSafe ==
  Inv /\ journal = None /\ UNCHANGED <<journal, live, disk, phase, revoked, op>>
    => StoreInv' /\ OpInv'
<1> SUFFICES ASSUME Inv, journal = None, UNCHANGED <<journal, live, disk, phase, revoked, op>>
             PROVE  StoreInv' /\ OpInv'
  OBVIOUS
<1>1. StoreInv'
  BY DEF Inv, StoreInv, JournalRecoverable, JournalInv, OthersDurable
<1> QED
  BY <1>1, OpKept

LEMMA StepRecordChanges == Inv /\ RecordChanges => StoreInv' /\ OpInv'
<1> SUFFICES ASSUME Inv, RecordChanges PROVE StoreInv' /\ OpInv'
  OBVIOUS
<1>1. ASSUME NEW p \in Plugins, NEW e \in BOOLEAN, SelectToggle(p, e) PROVE StoreInv' /\ OpInv'
  BY <1>1, StoresKept, OpKept DEF SelectToggle
<1>2. ASSUME NEW p \in Plugins, NEW e \in BOOLEAN, SetEnabled(p, e) PROVE StoreInv' /\ OpInv'
  BY <1>2, RecordChangeSafe DEF SetEnabled, Unlocked
<1>3. CASE ScheduleToggle
  BY <1>3, RecordChangeSafe DEF ScheduleToggle
<1>4. CASE ToggleRefused
  BY <1>4, StoresKept, OpKept DEF ToggleRefused
<1>5. ASSUME NEW b \in Builds, NEW e \in BOOLEAN, ScheduleOther(b, e) PROVE StoreInv' /\ OpInv'
  BY <1>5, RecordChangeSafe DEF ScheduleOther, Unlocked
<1>6. ASSUME NEW p \in Plugins, DropRecord(p) PROVE StoreInv' /\ OpInv'
  BY <1>6, RecordChangeSafe DEF DropRecord, Unlocked
<1> QED
  BY <1>1, <1>2, <1>3, <1>4, <1>5, <1>6 DEF RecordChanges

LEMMA StepEnvironment == Inv /\ Environment => StoreInv' /\ OpInv'
<1> SUFFICES ASSUME Inv, Environment PROVE StoreInv' /\ OpInv'
  OBVIOUS
<1>1. CASE Launch
  <2>1. OpInv'
    BY <1>1 DEF Launch, Inv, OpInv, OpJournal, OpPlan, OpProgress, JournalSteps, InstallSteps,
                RemoveSteps, DurableSteps
  <2> QED
    BY <1>1, <2>1, StoresKept DEF Launch
<1>2. CASE Crash
  BY <1>2, StoresKept, IdleOwesNothing DEF Crash, Stop
<1>3. CASE PowerLoss
  BY <1>3, LossSafe, IdleOwesNothing DEF PowerLoss, Stop
<1>4. CASE WriteBack
  <2>1. OpInv'
    BY <1>4 DEF WriteBack, Inv, OpInv, OpJournal, OpPlan, OpProgress, JournalSteps, InstallSteps,
                RemoveSteps, DurableSteps, Committed, Verifies, Canonical
  <2> QED
    BY <1>4, <2>1, SyncSafe DEF WriteBack
<1>5. ASSUME NEW t \in Tokens, LoseHidden(t) PROVE StoreInv' /\ OpInv'
  <2>1. op.pc = "idle"
    BY <1>5 DEF LoseHidden, Inv, OpJournal
  <2>2. OpInv'
    BY <1>5, <2>1 DEF LoseHidden, OpInv, OpJournal, OpPlan, OpProgress, JournalSteps,
                      InstallSteps, RemoveSteps, DurableSteps
  <2>3. StoreInv'
    BY <1>5, HiddenSafe DEF LoseHidden
  <2> QED
    BY <2>2, <2>3
<1>6. ASSUME NEW b \in Builds, Revoke(b) PROVE StoreInv' /\ OpInv'
  <2>1. op.pc = "idle"
    BY <1>6 DEF Revoke, Inv, OpJournal
  <2>2. OpInv'
    BY <1>6, <2>1 DEF Revoke, OpInv, OpJournal, OpPlan, OpProgress, JournalSteps,
                      InstallSteps, RemoveSteps, DurableSteps
  <2> QED
    BY <1>6, <2>2, StoresKept DEF Revoke
<1> QED
  BY <1>1, <1>2, <1>3, <1>4, <1>5, <1>6 DEF Environment

\* A user action or a reconciliation begins by looking for a journal.
LEMMA StepStart ==
  ASSUME Inv, NEW kind, NEW build, Start(kind, build), phase # "down"
  PROVE  StoreInv' /\ OpInv'
<1>1. OpInv'
  BY DEF Start, OpInv, OpJournal, OpPlan, OpProgress, JournalSteps, InstallSteps,
         RemoveSteps, DurableSteps
<1> QED
  BY <1>1, StoresKept DEF Start

LEMMA InvInit == Init => Inv
<1> SUFFICES ASSUME Init PROVE Inv
  OBVIOUS
<1>1. OpJournal /\ OpPlan /\ OpProgress
  BY DEF Init, Idle, OpJournal, OpPlan, OpProgress, JournalSteps, InstallSteps,
         RemoveSteps, DurableSteps
<1> QED
  BY <1>1, TypeInit DEF Init, Inv, JournalRecoverable, JournalInv, OthersDurable

LEMMA InvStep == Inv /\ [Next]_vars => Inv'
<1> SUFFICES ASSUME Inv, [Next]_vars PROVE Inv'
  OBVIOUS
<1>1. TypeInv'
  BY TypeStep DEF Inv
<1>2. StoreInv' /\ OpInv'
  <2>1. CASE UserStarts
    BY <2>1, StepStart DEF UserStarts, StartInstall, StartRemove
  <2>2. CASE StartReconcile
    BY <2>2, StepStart DEF StartReconcile
  <2>3. CASE GiveUp
    BY <2>3, StoresKept, IdleOwesNothing DEF GiveUp
  <2>4. CASE UNCHANGED vars
    BY <2>4, StoresKept, OpKept DEF vars
  <2> QED
    BY <2>1, <2>2, <2>3, <2>4, StepReconciliation, StepPublication, StepPreparation,
       StepRecordChanges, StepEnvironment DEF Next
<1> QED
  BY <1>1, <1>2 DEF Inv, StoreInv, OpInv

\* The stores and the running operation always agree on how far a transaction is.
THEOREM Invariance == Spec => []Inv
<1> QED
  BY InvInit, InvStep, PTL DEF Spec

-----------------------------------------------------------------------------
(* Safety.                                                                 *)

\* A process death or power loss at any point of a transaction leaves the new
\* record beside the whole old or the whole new build.
THEOREM JournalRecoverableHolds == Spec => []JournalRecoverable
<1>1. Inv => JournalRecoverable
  BY DEF Inv
<1> QED
  BY <1>1, Invariance, PTL

\* With no journal pending a power loss undoes nothing at a canonical path.
THEOREM ClosedIsDurableHolds == Spec => []ClosedIsDurable
<1>1. Inv => ClosedIsDurable
  BY DEF Inv, TypeInv, TypeOK, Tree, OthersDurable, ClosedIsDurable
<1> QED
  BY <1>1, Invariance, PTL

\* Only Finish and Abort close a journal.
LEMMA OnlyTheseClose ==
  ASSUME Inv, [Next]_vars, journal # None, journal' = None
  PROVE  Finish \/ Abort
<1>1. ASSUME Reconciliation PROVE Finish \/ Abort
  BY <1>1 DEF Reconciliation, PendingNone, PendingFound, RecoverCommitted, DrainStaging, DrainSync,
              RecoverPublish, RecoverAbandon, RecoverRefuses, Discard, DiscardDone
<1>2. ~Publication
  BY DEF Publication, PublishAlready, PublishRename, PublishSync, Sweep, PublishFails,
         RetireRename, RetireResume, RetireSync, Erase, EraseSync, RetireFails, Settle
<1>3. ~Preparation
  BY DEF Preparation, CheckPasses, CheckRefuses, PrepareCopy, PrepareDone, PrepareFails,
         Begin, CanBegin, BeginFails
<1>4. ~UserStarts /\ ~StartReconcile /\ ~GiveUp
  BY DEF UserStarts, StartInstall, StartRemove, StartReconcile, Start, GiveUp
<1>5. ~RecordChanges
  BY DEF RecordChanges, SelectToggle, SetEnabled, ScheduleToggle, ToggleRefused,
         ScheduleOther, DropRecord
<1>6. ~Environment
  BY DEF Environment, Launch, Crash, PowerLoss, WriteBack, LoseHidden, Revoke
<1> QED
  BY <1>1, <1>2, <1>3, <1>4, <1>5, <1>6 DEF Next, vars

\* Closing the journal leaves on disk what the surviving record says.
THEOREM CloseMatchesDiskHolds == Spec => CloseMatchesDisk
<1> DEFINE Settled ==
      journal # None /\ journal' = None =>
        LET p == journal.plugin IN
        \/ /\ records'[p] = journal.next
           /\ disk.final[p] = journal.target
           /\ journal.kind = "remove" => disk.hidden[journal.token] = None
        \/ /\ records'[p] = journal.previous
           /\ disk.final[p] = journal.expected
<1>1. Inv /\ [Next]_vars => Settled
  <2> SUFFICES ASSUME Inv, [Next]_vars, journal # None, journal' = None PROVE Settled
    OBVIOUS
  <2>1. Finish \/ Abort
    BY OnlyTheseClose
  <2>2. op.pc \in JournalSteps
    BY <2>1 DEF Finish, Abort, JournalSteps
  <2>3. CASE Finish
    BY <2>2, <2>3, InHand DEF Finish, CanClose, Inv, OpProgress, DurableSteps
  <2>4. CASE Abort
    <3>1. records \in [Plugins -> Record \cup {None}] /\ journal.plugin \in Plugins
      BY <2>2, InHand DEF Inv, TypeInv, TypeOK
    <3>2. records'[journal.plugin] = journal.previous
      BY <2>4, <3>1 DEF Abort
    <3> QED
      BY <2>2, <2>4, <3>2, InHand DEF Abort, Inv, OpProgress
  <2> QED
    BY <2>1, <2>3, <2>4
<1> QED
  BY <1>1, Invariance, PTL DEF Spec, CloseMatchesDisk

\* What reaches the disk at a canonical path was visible to the running system.
LEMMA DiskFollowsLive ==
  ASSUME Inv, [Next]_vars
  PROVE  disk'.final \in {disk.final, live.final}
<1>1. CASE Reconciliation
  BY <1>1 DEF Reconciliation, PendingNone, PendingFound, RecoverCommitted, DrainStaging, DrainSync,
              RecoverPublish, RecoverAbandon, RecoverRefuses, Finish, Abort, Discard, DiscardDone
<1>2. CASE Publication
  BY <1>2 DEF Publication, PublishAlready, PublishRename, PublishSync, Sweep, PublishFails,
         RetireRename, RetireResume, RetireSync, Erase, EraseSync, RetireFails, Settle, PutHidden
<1>3. CASE Preparation
  BY <1>3 DEF Preparation, CheckPasses, CheckRefuses, PrepareCopy, PrepareDone, PrepareFails,
         Begin, BeginFails, PutHidden
<1>4. CASE UserStarts \/ StartReconcile \/ GiveUp
  BY <1>4 DEF UserStarts, StartInstall, StartRemove, StartReconcile, Start, GiveUp
<1>5. CASE RecordChanges
  BY <1>5 DEF RecordChanges, SelectToggle, SetEnabled, ScheduleToggle, ToggleRefused,
         ScheduleOther, DropRecord
<1>6. CASE Environment
  BY <1>6 DEF Environment, Launch, Crash, PowerLoss, WriteBack, LoseHidden, Revoke, PutHidden
<1>7. CASE UNCHANGED vars
  BY <1>7 DEF vars
<1> QED
  BY <1>1, <1>2, <1>3, <1>4, <1>5, <1>6, <1>7 DEF Next

\* A durable canonical build is only ever replaced by a higher release sequence.
THEOREM NoDowngradeHolds == Spec => NoDowngrade
<1> DEFINE Upgrade(p) ==
      LET old == disk.final[p]  new == disk'.final[p] IN
      old \in Builds /\ new \in Builds /\ new # old => Sequence[new] > Sequence[old]
<1>1. Inv /\ [Next]_vars => \A p \in Plugins : Upgrade(p)
  <2> SUFFICES ASSUME Inv, [Next]_vars, NEW p \in Plugins,
                      disk.final[p] \in Builds, disk'.final[p] \in Builds,
                      disk'.final[p] # disk.final[p]
               PROVE  Sequence[disk'.final[p]] > Sequence[disk.final[p]]
    OBVIOUS
  <2>1. disk'.final[p] = live.final[p] /\ live.final[p] # disk.final[p]
    BY DiskFollowsLive
  <2>2. journal # None /\ journal.plugin = p
    BY <2>1 DEF Inv, OthersDurable
  <2>3. /\ live.final[p] \in {journal.expected, journal.target}
        /\ disk.final[p] \in {journal.expected, journal.target}
        /\ disk.final[p] = journal.target => live.final[p] = journal.target
        /\ WellFormed(journal)
    BY <2>2 DEF Inv, JournalRecoverable, JournalInv
  <2>4. disk.final[p] = journal.expected /\ disk'.final[p] = journal.target
    BY <2>1, <2>3
  <2> QED
    BY <2>3, <2>4 DEF WellFormed
<1> QED
  BY <1>1, Invariance, PTL DEF Spec, NoDowngrade

-----------------------------------------------------------------------------
(* The transaction implements PluginInstall, and only a stale enable       *)
(* switch splits a record from its bytes.                                  *)

\* What a transaction's records have to do with its builds.
Sound(T) ==
  /\ Agrees(T.previous, T.expected)
  /\ T.kind = "remove" => T.next = None
  /\ T.kind # "remove" =>
       /\ Owner[T.target] = T.plugin
       /\ T.next = [digest |-> T.target, source |-> "appData",
                    enabled |-> IF T.previous = None THEN TRUE ELSE T.previous.enabled]

Sounds ==
  /\ journal # None => Sound(journal)
  /\ op.pc \in {"prepare", "begin"} => Sound(op.txn)

LinkInv == Inv /\ Sounds

-----------------------------------------------------------------------------
(* Every transaction is sound.                                             *)

LEMMA PlannedSound ==
  ASSUME Inv, NEW t \in Tokens, op.pc = "check", Allowed
  PROVE  Sound(Planned(t))
<1>1. op.build \in Builds /\ op.kind \in {"install", "remove"}
  BY DEF Inv, TypeInv, OpShape
<1>2. Agrees(records[Selected], Installed)
  BY DEF Allowed, InstallAllowed, RemoveAllowed
<1>3. /\ Planned(t).plugin = Selected /\ Planned(t).expected = Installed
      /\ Planned(t).previous = records[Selected]
      /\ Planned(t).kind = IF op.kind = "remove" THEN "remove"
                           ELSE IF Installed = None THEN "install" ELSE "update"
      /\ Planned(t).target = IF op.kind = "remove" THEN None ELSE op.build
      /\ Planned(t).next =
           IF op.kind = "remove" THEN None
           ELSE [digest |-> op.build, source |-> "appData",
                 enabled |-> IF records[Selected] = None THEN TRUE
                             ELSE records[Selected].enabled]
  BY DEF Planned
<1> DEFINE P == Planned(t)
<1>4. P.kind = "remove" <=> op.kind = "remove"
  BY <1>3
<1> HIDE DEF P
<1>5. Agrees(P.previous, P.expected)
  BY <1>2, <1>3 DEF P
<1>6. P.kind = "remove" => P.next = None
  BY <1>3, <1>4 DEF P
<1>7. ASSUME P.kind # "remove"
      PROVE  /\ Owner[P.target] = P.plugin
             /\ P.next = [digest |-> P.target, source |-> "appData",
                          enabled |-> IF P.previous = None THEN TRUE ELSE P.previous.enabled]
  <2>1. P.target = op.build /\ P.previous = records[Selected] /\ P.plugin = Owner[op.build]
    BY <1>3, <1>4, <1>7 DEF P, Selected
  <2>2. P.next = [digest |-> op.build, source |-> "appData",
                  enabled |-> IF records[Selected] = None THEN TRUE
                              ELSE records[Selected].enabled]
    BY <1>3, <1>4, <1>7 DEF P
  <2> QED
    BY <2>1, <2>2
<1> QED
  BY <1>5, <1>6, <1>7 DEF Sound, P

\* Only a check plans a transaction and only Begin journals it.
LEMMA SoundStep == LinkInv /\ [Next]_vars => Sounds'
<1> SUFFICES ASSUME LinkInv, [Next]_vars PROVE Sounds'
  OBVIOUS
<1>0. UNCHANGED <<journal, op>> \/ (journal' \in {journal, None}
        /\ (op'.pc \notin {"prepare", "begin"} \/ (op.pc = "prepare" /\ op'.txn = op.txn)))
        => Sounds'
  BY DEF LinkInv, Sounds
<1>1. ASSUME Reconciliation PROVE Sounds'
  BY <1>0, <1>1 DEF Reconciliation, PendingNone, PendingFound, RecoverCommitted, DrainStaging,
     DrainSync, RecoverPublish, RecoverAbandon, RecoverRefuses, Finish, Abort, Discard, DiscardDone,
     Goto, Advance, Closed, Idle
<1>2. ASSUME Publication PROVE Sounds'
  BY <1>0, <1>2 DEF Publication, PublishAlready, PublishRename, PublishSync, Sweep, PublishFails,
     RetireRename, RetireResume, RetireSync, Erase, EraseSync, RetireFails, Settle,
     Retired, Goto, Advance, Idle
<1>3. ASSUME Preparation PROVE Sounds'
  <2>1. ASSUME NEW t \in Tokens, CheckPasses(t) PROVE Sounds'
    <3>1. Sound(Planned(t))
      BY <2>1, PlannedSound DEF CheckPasses, LinkInv
    <3>2. journal' = journal /\ op'.txn = Planned(t)
      BY <2>1 DEF CheckPasses, Advance
    <3> QED
      BY <3>1, <3>2 DEF LinkInv, Sounds
  <2>2. ASSUME CheckRefuses \/ PrepareCopy \/ PrepareDone \/ PrepareFails \/ BeginFails
        PROVE  Sounds'
    BY <1>0, <2>2 DEF CheckRefuses, PrepareCopy, PrepareDone, PrepareFails, BeginFails,
       Goto, Advance, Idle
  <2>3. ASSUME Begin PROVE Sounds'
    <3>1. journal' = op.txn /\ op'.pc \notin {"prepare", "begin"} /\ Sound(op.txn)
      BY <2>3 DEF Begin, Advance, LinkInv, Sounds
    <3> QED
      BY <3>1 DEF Sounds
  <2> QED
    BY <1>3, <2>1, <2>2, <2>3 DEF Preparation
<1>4. ASSUME UserStarts \/ StartReconcile \/ GiveUp PROVE Sounds'
  BY <1>0, <1>4 DEF UserStarts, StartInstall, StartRemove, StartReconcile, Start, GiveUp, Idle
<1>5. ASSUME RecordChanges PROVE Sounds'
  BY <1>0, <1>5 DEF RecordChanges, SelectToggle, SetEnabled, ScheduleToggle, ToggleRefused,
     ScheduleOther, DropRecord
<1>6. ASSUME Environment PROVE Sounds'
  BY <1>0, <1>6 DEF Environment, Launch, Crash, PowerLoss, Stop, WriteBack, LoseHidden, Revoke, Idle
<1> QED
  BY <1>0, <1>1, <1>2, <1>3, <1>4, <1>5, <1>6 DEF Next, vars

\* Every transaction, planned or journaled, agrees with the record it replaces.
THEOREM LinkInvariance == Spec => []LinkInv
<1>1. Init => Sounds
  BY DEF Init, Sounds, Idle
<1>2. LinkInv /\ [Next]_vars => LinkInv'
  BY SoundStep, InvStep DEF LinkInv
<1> QED
  BY <1>1, <1>2, InvInit, PTL DEF Spec, LinkInv

-----------------------------------------------------------------------------
(* Refinement.                                                             *)

\* The abstract record: the previous one until the bytes on disk are the target's.
Covered(p) == journal # None /\ journal.plugin = p /\ disk.final[p] # journal.target
Governing == [p \in Plugins |-> IF Covered(p) THEN journal.previous ELSE records[p]]

LEMMA SameOutside ==
  ASSUME UNCHANGED <<records, journal, pick>>, disk'.final = disk.final
  PROVE  UNCHANGED Abstract!vars
<1>1. Governing' = Governing
  BY DEF Governing, Covered
<1> QED
  BY <1>1 DEF Abstract!vars, Governing, Covered

\* The directory reaches the disk: the one place that changes is the journal's,
\* and its record takes effect with it.
LEMMA SyncInstalls ==
  ASSUME LinkInv, UNCHANGED <<records, journal, pick>>,
         disk'.final = live.final, disk'.final # disk.final
  PROVE  Abstract!Next
<1> DEFINE p == journal.plugin
           T == journal.target
<1>1. /\ disk.final \in [Plugins -> Content] /\ live.final \in [Plugins -> Content]
      /\ records \in [Plugins -> Record \cup {None}]
  BY DEF LinkInv, Inv, TypeInv, TypeOK, Tree
<1>2. journal # None
  BY <1>1 DEF LinkInv, Inv, OthersDurable
<1>3. /\ journal \in Transaction /\ p \in Plugins
      /\ journal.kind \in {"install", "update", "remove"}
      /\ journal.expected \in Builds \cup {None}
  BY <1>2, NoneIsNoTransaction DEF LinkInv, Inv, TypeInv, TypeOK
<1>4. \A q \in Plugins : q # p => live.final[q] = disk.final[q]
  BY <1>2 DEF LinkInv, Inv, OthersDurable
<1>5. /\ disk.final[p] = journal.expected /\ live.final[p] = T
      /\ journal.expected # T /\ WellFormed(journal) /\ Sound(journal)
      /\ records[p] = journal.next
  BY <1>1, <1>2, <1>3, <1>4 DEF LinkInv, Sounds, Inv, JournalRecoverable, JournalInv
<1>6. disk'.final = [disk.final EXCEPT ![p] = T]
  BY <1>1, <1>3, <1>4, <1>5
<1>7. /\ Governing[p] = journal.previous
      /\ Governing' = [Governing EXCEPT ![p] = journal.next]
  BY <1>1, <1>2, <1>3, <1>5, <1>6 DEF Governing, Covered
<1>8. \/ Governing[p] = None
      \/ /\ Governing[p] # None
         /\ Governing[p].source = "appData" /\ Governing[p].digest = journal.expected
  BY <1>5, <1>7 DEF Sound, Agrees
<1>9. Governing[p] # None =>
        Governing[p] = Abstract!AppData(journal.expected, Governing[p].enabled)
  <2>1. Governing[p] \in Record \cup {None}
    BY <1>3, <1>7 DEF Transaction
  <2> QED
    BY <2>1, <1>8 DEF Record, Abstract!AppData
<1>10. CASE journal.kind = "remove"
  <2>1. T = None /\ journal.next = None /\ journal.expected # None
    BY <1>5, <1>10, NoneAssumption DEF WellFormed, Sound
  <2>2. Abstract!Remove(p)
    BY <1>5, <1>6, <1>7, <1>9, <2>1 DEF Abstract!Remove, Governing, Covered
  <2>3. \E q \in Plugins : Abstract!Remove(q)
    BY <1>3, <2>2 DEF Abstract!Remove
  <2> QED
    BY <2>3 DEF Abstract!Next
<1>11. CASE journal.kind # "remove"
  <2>1. T \in Builds /\ Owner[T] = p
    BY <1>5, <1>11 DEF WellFormed, Sound
  <2> DEFINE keep == IF Governing[p] = None THEN TRUE ELSE Governing[p].enabled
  <2>2. journal.next = Abstract!AppData(T, keep)
    BY <1>5, <1>7, <1>11 DEF Sound, Abstract!AppData
  <2>3. disk.final[p] \in {None, T} \/ Sequence[T] > Sequence[disk.final[p]]
    BY <1>3, <1>5, <2>1 DEF WellFormed
  <2>4. Governing[p] = None \/ Governing[p] = Abstract!AppData(disk.final[p], keep)
    BY <1>5, <1>9
  <2>5. Abstract!Install(T)
    BY <1>6, <1>7, <2>1, <2>2, <2>3, <2>4 DEF Abstract!Install, Governing, Covered
  <2>6. \E b \in Builds : Abstract!Install(b)
    BY <2>1, <2>5 DEF Abstract!Install
  <2> QED
    BY <2>6 DEF Abstract!Next
<1> QED
  BY <1>10, <1>11

\* Writing the journal with the record changes nothing outside, unless the
\* selected build is the installed one: then its record takes effect at once.
LEMMA BeginRefines == LinkInv /\ Begin => [Abstract!Next]_(Abstract!vars)
<1> SUFFICES ASSUME LinkInv, Begin PROVE [Abstract!Next]_(Abstract!vars)
  OBVIOUS
<1> DEFINE T == op.txn
           p == op.txn.plugin
<1>1. /\ journal = None /\ journal' = T /\ T # None
      /\ records' = [records EXCEPT ![p] = T.next] /\ records[p] = T.previous
      /\ UNCHANGED <<disk, pick>>
  BY NoneIsNoTransaction DEF Begin, CanBegin, LinkInv, Inv, TypeInv, OpShape
<1>2. /\ T \in Transaction /\ p \in Plugins /\ WellFormed(T) /\ Sound(T)
      /\ T.previous \in Record \cup {None}
      /\ records \in [Plugins -> Record \cup {None}]
  <2>1. WellFormed(T) /\ Sound(T)
    BY DEF Begin, LinkInv, Inv, OpPlan, Sounds
  <2> QED
    BY <2>1 DEF WellFormed, Transaction, LinkInv, Inv, TypeInv, TypeOK
<1>3. disk.final[p] = T.expected
  BY <1>1, <1>2 DEF Begin, LinkInv, Inv, OpPlan, OthersDurable
<1>4. Governing = records
  BY <1>1, <1>2 DEF Governing, Covered
<1>5. CASE T.expected # T.target
  <2>1. Governing' = records
    BY <1>1, <1>2, <1>3, <1>5 DEF Governing, Covered
  <2> QED
    BY <1>1, <1>4, <2>1 DEF Abstract!vars, Governing, Covered
<1>6. CASE T.expected = T.target
  <2>1. /\ T.kind # "remove" /\ T.target \in Builds /\ Owner[T.target] = p
    BY <1>2, <1>6, NoneAssumption DEF WellFormed, Sound
  <2>2. Governing' = [Governing EXCEPT ![p] = T.next]
    BY <1>1, <1>2, <1>3, <1>4, <1>6 DEF Governing, Covered
  <2>3. Governing[p] = T.previous
    BY <1>1, <1>4
  <2> DEFINE keep == IF Governing[p] = None THEN TRUE ELSE Governing[p].enabled
  <2>4. T.next = Abstract!AppData(T.target, keep)
    BY <1>2, <2>1, <2>3 DEF Sound, Abstract!AppData
  <2>5. Governing[p] = None \/ Governing[p] = Abstract!AppData(disk.final[p], keep)
    BY <1>2, <1>3, <2>3 DEF Sound, Agrees, Record, Abstract!AppData
  <2>6. disk'.final = [disk.final EXCEPT ![p] = T.target]
    BY <1>1, <1>2, <1>3, <1>6 DEF LinkInv, Inv, TypeInv, TypeOK, Tree
  <2>7. PICK b \in Builds : b = T.target
    BY <2>1
  <2>8. /\ UNCHANGED pick /\ disk.final[Owner[b]] = b
        /\ disk'.final = [disk.final EXCEPT ![Owner[b]] = b]
    BY <1>1, <1>3, <1>6, <2>1, <2>6, <2>7
  <2>9. Governing' = [Governing EXCEPT ![Owner[b]] = Abstract!AppData(b, keep)]
    BY <2>1, <2>2, <2>4, <2>7
  <2>10. Governing[Owner[b]] = None \/ Governing[Owner[b]] = Abstract!AppData(b, keep)
    BY <1>3, <1>6, <2>1, <2>5, <2>7
  <2>11. keep = IF Governing[Owner[b]] = None THEN TRUE ELSE Governing[Owner[b]].enabled
    BY <2>1, <2>7
  <2> HIDE DEF keep
  <2>12. Abstract!Install(b)
    BY <2>8, <2>9, <2>10, <2>11 DEF Abstract!Install, Governing, Covered
  <2> QED
    BY <2>12 DEF Abstract!Next
<1> QED
  BY <1>5, <1>6

\* Closing a finished transaction changes nothing outside, and one that is rolled
\* back had not changed anything, or drops the record it had made.
LEMMA CloseRefines == LinkInv /\ (Finish \/ Abort) => [Abstract!Next]_(Abstract!vars)
<1> SUFFICES ASSUME LinkInv, Finish \/ Abort PROVE [Abstract!Next]_(Abstract!vars)
  OBVIOUS
<1> DEFINE p == journal.plugin
<1>0. Inv /\ op.pc \in JournalSteps
  BY DEF Finish, Abort, JournalSteps, LinkInv
<1>1. /\ journal # None /\ journal = op.txn /\ WellFormed(journal) /\ Sound(journal)
      /\ p \in Plugins /\ records \in [Plugins -> Record \cup {None}]
      /\ records[p] = journal.next /\ journal.previous \in Record \cup {None}
  BY <1>0, InHand, NoneIsNoTransaction
     DEF LinkInv, Sounds, Inv, JournalRecoverable, TypeInv, TypeOK
<1>2. journal' = None /\ UNCHANGED <<disk, pick>>
  BY DEF Finish, Abort
<1>3. CASE Finish
  <2>1. disk.final[p] = journal.target /\ records' = records
    BY <1>0, <1>1, <1>3 DEF Finish, Inv, OpProgress, DurableSteps
  <2>2. Governing' = Governing
    BY <1>1, <1>2, <2>1 DEF Governing, Covered
  <2> QED
    BY <1>2, <2>2 DEF Abstract!vars, Governing, Covered
<1>4. CASE Abort
  <2>1. /\ disk.final[p] = journal.expected /\ journal.kind # "remove"
        /\ records' = [records EXCEPT ![p] = journal.previous]
    BY <1>0, <1>1, <1>4 DEF Abort, Inv, OpProgress, OpJournal, InstallSteps
  <2>2. Governing' = [Governing EXCEPT ![p] = journal.previous]
    BY <1>1, <1>2, <2>1 DEF Governing, Covered
  <2>3. CASE journal.expected # journal.target
    <3>1. Governing' = Governing
      BY <1>1, <2>1, <2>2, <2>3 DEF Governing, Covered
    <3> QED
      BY <1>2, <3>1 DEF Abstract!vars, Governing, Covered
  <2>4. CASE journal.expected = journal.target /\ journal.previous = None
    <3>1. Abstract!Drop(p)
      BY <1>2, <2>2, <2>4 DEF Abstract!Drop, Governing, Covered
    <3>2. \E q \in Plugins : Abstract!Drop(q)
      BY <1>1, <3>1 DEF Abstract!Drop
    <3> QED
      BY <3>2 DEF Abstract!Next
  <2>5. CASE journal.expected = journal.target /\ journal.previous # None
    <3>1. journal.previous = journal.next
      BY <1>1, <2>1, <2>5 DEF Sound, Agrees, Record
    <3>2. Governing' = Governing
      BY <1>1, <2>1, <2>2, <2>5, <3>1 DEF Governing, Covered
    <3> QED
      BY <1>2, <3>2 DEF Abstract!vars, Governing, Covered
  <2> QED
    BY <2>3, <2>4, <2>5
<1> QED
  BY <1>3, <1>4

\* The enable switches are those of the abstract specification.
LEMMA SwitchesRefine == LinkInv /\ RecordChanges => [Abstract!Next]_(Abstract!vars)
<1> SUFFICES ASSUME LinkInv, RecordChanges PROVE [Abstract!Next]_(Abstract!vars)
  OBVIOUS
<1>1. records \in [Plugins -> Record \cup {None}] /\ pick \in Pick \cup {None}
  BY DEF LinkInv, Inv, TypeInv, TypeOK
<1>2. UNCHANGED <<journal, disk>>
  BY DEF RecordChanges, SelectToggle, SetEnabled, ScheduleToggle, ToggleRefused,
         ScheduleOther, DropRecord
<1>3. journal = None => Governing = records /\ Governing' = records'
  <2>1. records' \in [Plugins -> Record \cup {None}]
    BY TypeStep DEF LinkInv, Inv, Next, TypeInv, TypeOK
  <2> QED
    BY <1>1, <1>2, <2>1 DEF Governing, Covered
<1>4. records' = records => Governing' = Governing
  BY <1>2 DEF Governing, Covered
<1>5. ASSUME NEW p \in Plugins, NEW enabled \in BOOLEAN, SelectToggle(p, enabled)
      PROVE  Abstract!Next
  <2>1. live.final[p] \in Builds
    BY <1>5 DEF SelectToggle, Verifies
  <2>2. Abstract!Choose(p, live.final[p], enabled)
    BY <1>2, <1>4, <1>5 DEF SelectToggle, Abstract!Choose, Governing, Covered
  <2> QED
    BY <2>1, <2>2 DEF Abstract!Next
<1>6. ASSUME NEW p \in Plugins, NEW enabled \in BOOLEAN, SetEnabled(p, enabled)
      PROVE  Abstract!Next
  <2>1. /\ journal = None /\ records[p] # None /\ UNCHANGED pick
        /\ records' = [records EXCEPT ![p] =
             [digest |-> @.digest, source |-> @.source, enabled |-> enabled]]
    BY <1>6 DEF SetEnabled, Unlocked
  <2>2. records[p] \in Record
    BY <1>1, <2>1
  <2>3. [records[p] EXCEPT !.enabled = enabled] =
          [digest |-> records[p].digest, source |-> records[p].source, enabled |-> enabled]
    BY <2>2 DEF Record
  <2>4. Governing' = [Governing EXCEPT ![p] = [Governing[p] EXCEPT !.enabled = enabled]]
    BY <1>3, <2>1, <2>3
  <2>5. Abstract!Enable(p, enabled)
    BY <1>2, <1>3, <2>1, <2>4 DEF Abstract!Enable, Governing, Covered
  <2> QED
    BY <2>5 DEF Abstract!Next
<1>7. ASSUME ScheduleToggle PROVE Abstract!Next
  <2>1. Abstract!Store
    BY <1>2, <1>3, <1>7 DEF ScheduleToggle, Abstract!Store, Abstract!AppData, Governing, Covered
  <2> QED
    BY <2>1 DEF Abstract!Next
<1>8. ASSUME ToggleRefused PROVE Abstract!Next
  <2>1. Abstract!Forget
    BY <1>2, <1>4, <1>8 DEF ToggleRefused, Abstract!Forget, Governing, Covered
  <2> QED
    BY <2>1 DEF Abstract!Next
<1>9. ASSUME NEW b \in Builds, NEW enabled \in BOOLEAN, ScheduleOther(b, enabled)
      PROVE  Abstract!Next
  <2>1. Abstract!StoreOther(b, enabled)
    BY <1>2, <1>3, <1>9 DEF ScheduleOther, Unlocked, Abstract!StoreOther, Governing, Covered
  <2> QED
    BY <2>1 DEF Abstract!Next
<1>10. ASSUME NEW p \in Plugins, DropRecord(p) PROVE Abstract!Next
  <2>1. Abstract!Drop(p)
    BY <1>2, <1>3, <1>10 DEF DropRecord, Unlocked, Abstract!Drop, Governing, Covered
  <2> QED
    BY <2>1 DEF Abstract!Next
<1> QED
  BY <1>5, <1>6, <1>7, <1>8, <1>9, <1>10 DEF RecordChanges

\* A death forgets the switch under way.
LEMMA DeathRefines == LinkInv /\ (Crash \/ PowerLoss) => [Abstract!Next]_(Abstract!vars)
<1> SUFFICES ASSUME LinkInv, Crash \/ PowerLoss PROVE [Abstract!Next]_(Abstract!vars)
  OBVIOUS
<1>1. UNCHANGED <<records, journal, disk>> /\ pick' = None
  BY DEF Crash, PowerLoss, Stop
<1>2. Governing' = Governing
  BY <1>1 DEF Governing, Covered
<1>3. CASE pick = None
  BY <1>1, <1>2, <1>3 DEF Abstract!vars, Governing, Covered
<1>4. CASE pick # None
  <2>1. Abstract!Forget
    BY <1>1, <1>2, <1>4 DEF Abstract!Forget, Governing, Covered
  <2> QED
    BY <2>1 DEF Abstract!Next
<1> QED
  BY <1>3, <1>4

\* Every other step leaves the records, the journal and the switch alone.
LEMMA OthersKeep ==
  ASSUME [Next]_vars, ~Begin, ~Finish, ~Abort, ~RecordChanges, ~Crash, ~PowerLoss
  PROVE  UNCHANGED <<records, journal, pick>>
<1>1. CASE Reconciliation
  BY <1>1 DEF Reconciliation, PendingNone, PendingFound, RecoverCommitted, DrainStaging, DrainSync,
              RecoverPublish, RecoverAbandon, RecoverRefuses, Discard, DiscardDone
<1>2. CASE Publication
  BY <1>2 DEF Publication, PublishAlready, PublishRename, PublishSync, Sweep, PublishFails,
         RetireRename, RetireResume, RetireSync, Erase, EraseSync, RetireFails, Settle
<1>3. CASE Preparation
  BY <1>3 DEF Preparation, CheckPasses, CheckRefuses, PrepareCopy, PrepareDone, PrepareFails, BeginFails
<1>4. CASE UserStarts \/ StartReconcile \/ GiveUp
  BY <1>4 DEF UserStarts, StartInstall, StartRemove, StartReconcile, Start, GiveUp
<1>5. CASE Environment
  BY <1>5 DEF Environment, Launch, WriteBack, LoseHidden, Revoke
<1>6. CASE UNCHANGED vars
  BY <1>6 DEF vars
<1> QED
  BY <1>1, <1>2, <1>3, <1>4, <1>5, <1>6 DEF Next

\* The bytes a restart finds and the record it finds them under change together,
\* in one step, as PluginInstall says, through every fault and interruption.
THEOREM ImplementsInstallHolds == Spec => ImplementsInstall
<1>1. Init => Abstract!Init
  BY DEF Init, Abstract!Init
<1>2. LinkInv /\ [Next]_vars => [Abstract!Next]_(Abstract!vars)
  <2> SUFFICES ASSUME LinkInv, [Next]_vars PROVE [Abstract!Next]_(Abstract!vars)
    OBVIOUS
  <2>1. CASE Begin \/ Finish \/ Abort \/ RecordChanges \/ Crash \/ PowerLoss
    BY <2>1, BeginRefines, CloseRefines, SwitchesRefine, DeathRefines
  <2>2. CASE ~(Begin \/ Finish \/ Abort \/ RecordChanges \/ Crash \/ PowerLoss)
    <3>1. UNCHANGED <<records, journal, pick>>
      BY <2>2, OthersKeep
    <3>2. disk'.final \in {disk.final, live.final}
      BY DiskFollowsLive DEF LinkInv
    <3> QED
      BY <3>1, <3>2, SameOutside, SyncInstalls
  <2> QED
    BY <2>1, <2>2
<1> QED
  BY <1>1, <1>2, LinkInvariance, PTL DEF Spec, ImplementsInstall, Abstract!Spec

-----------------------------------------------------------------------------
(* Records and bytes part only by a stale switch.                          *)

\* A canonical place changes in the running system only under its journal.
LEMMA PlacesStay ==
  ASSUME LinkInv, [Next]_vars, NEW p \in Plugins, journal # None => journal.plugin # p
  PROVE  live'.final[p] = live.final[p]
<1>1. live \in Tree /\ live.final[p] = disk.final[p]
  BY DEF LinkInv, Inv, TypeInv, TypeOK, OthersDurable
<1>2. CASE PublishRename \/ RetireRename
  <2>1. journal = op.txn /\ journal # None
    BY <1>2, InHand DEF PublishRename, RetireRename, JournalSteps, LinkInv
  <2>2. op.txn.plugin # p
    BY <2>1
  <2> QED
    BY <1>1, <1>2, <2>2 DEF PublishRename, RetireRename, PutBoth, Tree
<1>3. CASE Reconciliation
  BY <1>3 DEF Reconciliation, PendingNone, PendingFound, RecoverCommitted, DrainStaging, DrainSync,
     RecoverPublish, RecoverAbandon, RecoverRefuses, Finish, Abort, Discard, DiscardDone, PutHidden
<1>4. CASE Publication
  BY <1>2, <1>4 DEF Publication, PublishAlready, PublishSync, Sweep, PublishFails,
     RetireResume, RetireSync, Erase, EraseSync, RetireFails, Settle, PutHidden
<1>5. CASE Preparation
  BY <1>5 DEF Preparation, CheckPasses, CheckRefuses, PrepareCopy, PrepareDone, PrepareFails,
     Begin, BeginFails, PutHidden
<1>6. CASE UserStarts \/ StartReconcile \/ GiveUp
  BY <1>6 DEF UserStarts, StartInstall, StartRemove, StartReconcile, Start, GiveUp
<1>7. CASE RecordChanges
  BY <1>7 DEF RecordChanges, SelectToggle, SetEnabled, ScheduleToggle, ToggleRefused,
     ScheduleOther, DropRecord
<1>8. CASE Environment
  BY <1>1, <1>8 DEF Environment, Launch, Crash, PowerLoss, WriteBack, LoseHidden, Revoke, PutHidden
<1>9. CASE UNCHANGED vars
  BY <1>9 DEF vars
<1> QED
  BY <1>3, <1>4, <1>5, <1>6, <1>7, <1>8, <1>9 DEF Next

\* A record that takes no lock to change parts from the bytes by a stale digest only.
LEMMA SwitchSplits ==
  ASSUME LinkInv, RecordChanges, NEW p \in Plugins, ~Split(p), Split(p)'
  PROVE  pick # None /\ pick.plugin = p /\ pick.digest # live.final[p]
<1>1. records \in [Plugins -> Record \cup {None}] /\ pick \in Pick \cup {None}
  BY DEF LinkInv, Inv, TypeInv, TypeOK
<1>2. UNCHANGED <<journal, live>>
  BY DEF RecordChanges, SelectToggle, SetEnabled, ScheduleToggle, ToggleRefused,
         ScheduleOther, DropRecord
<1>3. records'[p] # records[p]
  BY <1>2 DEF Split
<1>4. ASSUME ScheduleToggle PROVE pick # None /\ pick.plugin = p /\ pick.digest # live.final[p]
  <2>1. pick # None /\ pick.plugin = p
    BY <1>1, <1>3, <1>4 DEF ScheduleToggle
  <2>2. records'[p].digest = pick.digest
    BY <1>1, <1>4, <2>1 DEF ScheduleToggle
  <2> QED
    BY <1>2, <2>1, <2>2 DEF Split
<1>5. ASSUME NEW q \in Plugins, NEW enabled \in BOOLEAN, SetEnabled(q, enabled) PROVE FALSE
  <2>1. /\ q = p /\ records[p] # None
        /\ records'[p].digest = records[p].digest /\ records'[p].source = records[p].source
    BY <1>1, <1>3, <1>5 DEF SetEnabled
  <2> QED
    BY <1>2, <2>1 DEF Split
<1>6. ASSUME NEW b \in Builds, NEW enabled \in BOOLEAN, ScheduleOther(b, enabled) PROVE FALSE
  <2>1. records'[p].source = "other"
    BY <1>1, <1>3, <1>6 DEF ScheduleOther
  <2> QED
    BY <2>1 DEF Split
<1>7. ASSUME NEW q \in Plugins, DropRecord(q) PROVE FALSE
  <2>1. records'[p] = None
    BY <1>1, <1>3, <1>7 DEF DropRecord
  <2> QED
    BY <2>1 DEF Split
<1>8. ~ToggleRefused /\ \A q \in Plugins, enabled \in BOOLEAN : ~SelectToggle(q, enabled)
  BY <1>3 DEF ToggleRefused, SelectToggle
<1> QED
  BY <1>4, <1>5, <1>6, <1>7, <1>8 DEF RecordChanges

\* Closing a transaction leaves its record in agreement with its bytes.
LEMMA CloseAgrees ==
  ASSUME LinkInv, Finish \/ Abort, NEW p \in Plugins, ~Split(p)
  PROVE  ~Split(p)'
<1>0. Inv /\ op.pc \in JournalSteps
  BY DEF Finish, Abort, JournalSteps, LinkInv
<1>1. /\ journal # None /\ journal = op.txn /\ Sound(journal)
      /\ journal.plugin \in Plugins /\ records \in [Plugins -> Record \cup {None}]
      /\ records[journal.plugin] = journal.next
  BY <1>0, InHand DEF LinkInv, Sounds, Inv, JournalRecoverable, TypeInv, TypeOK
<1>2. UNCHANGED live
  BY DEF Finish, Abort
<1>3. CASE p # journal.plugin
  <2>1. records'[p] = records[p]
    BY <1>1, <1>3 DEF Finish, Abort
  <2> QED
    BY <1>2, <1>3, <2>1 DEF Split
<1>4. CASE p = journal.plugin /\ Finish
  <2>1. live.final[p] = journal.target /\ records'[p] = journal.next
    BY <1>0, <1>1, <1>4 DEF Finish, Inv, OpProgress, DurableSteps
  <2> QED
    BY <1>1, <1>2, <2>1 DEF Split, Sound
<1>5. CASE p = journal.plugin /\ Abort
  <2>1. live.final[p] = journal.expected /\ records'[p] = journal.previous
    BY <1>0, <1>1, <1>5 DEF Abort, Inv, OpProgress
  <2> QED
    BY <1>1, <1>2, <2>1 DEF Split, Sound, Agrees
<1> QED
  BY <1>3, <1>4, <1>5

\* A record comes to disagree with the bytes beside it only by an enable switch that stores a
\* digest read before the worker published other bytes.
THEOREM OnlyStaleToggleSplitsHolds == Spec => OnlyStaleToggleSplits
<1> DEFINE Stale(p) == /\ pick # None /\ pick.plugin = p
                       /\ pick.digest # live.final[p]
<1>1. LinkInv /\ [Next]_vars => \A p \in Plugins : ~Split(p) /\ Split(p)' => Stale(p)
  <2> SUFFICES ASSUME LinkInv, [Next]_vars, NEW p \in Plugins, ~Split(p), Split(p)'
               PROVE  Stale(p)
    OBVIOUS
  <2>1. CASE RecordChanges
    BY <2>1, SwitchSplits
  <2>2. CASE Finish \/ Abort
    BY <2>2, CloseAgrees
  <2>3. CASE Begin
    <3>1. /\ journal = None /\ journal' = op.txn /\ op.txn # None /\ op.txn.plugin \in Plugins
          /\ records \in [Plugins -> Record \cup {None}]
      BY <2>3, NoneIsNoTransaction
         DEF Begin, CanBegin, LinkInv, Inv, TypeInv, TypeOK, OpShape, OpPlan, WellFormed
    <3>2. op.txn.plugin # p
      BY <3>1 DEF Split
    <3>3. records'[p] = records[p] /\ UNCHANGED live
      BY <2>3, <3>1, <3>2 DEF Begin
    <3> QED
      BY <3>1, <3>3 DEF Split
  <2>4. CASE ~(RecordChanges \/ Finish \/ Abort \/ Begin)
    <3>1. UNCHANGED <<records, journal>>
      BY <2>4, OthersKeep DEF Crash, PowerLoss
    <3>2. live'.final[p] = live.final[p]
      BY <3>1, PlacesStay DEF Split
    <3> QED
      BY <3>1, <3>2 DEF Split
  <2> QED
    BY <2>1, <2>2, <2>3, <2>4
<1> QED
  BY <1>1, LinkInvariance, PTL DEF Spec, OnlyStaleToggleSplits
=============================================================================

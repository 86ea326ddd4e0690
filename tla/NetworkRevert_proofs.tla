------------------------ MODULE NetworkRevert_proofs ------------------------
(***************************************************************************)
(* Proofs about NetworkRevert, for any set of configurations and any       *)
(* number of applies.  What the scheduler says of itself holds whatever    *)
(* happens; what it does to the interface depends on the mishaps allowed.  *)
(***************************************************************************)
EXTENDS NetworkRevert, TLAPS

\* What may go wrong in a behaviour is decided when it starts.
LEMMA AllowedIsRigid == [Next]_vars => allowed' = allowed
<1> SUFFICES ASSUME [Next]_vars PROVE allowed' = allowed
  OBVIOUS
<1>1. CASE ApplySteps
  BY <1>1 DEF ApplySteps, Snapshot, SaveBackup, Modify, Activate
<1>2. CASE RevertSteps
  BY <1>2 DEF RevertSteps, RevertModify, RevertActivate, Fallback
<1> QED
  BY <1>1, <1>2 DEF Next, Confirm, Fire, StartRevert, LoadBackup, Crash, vars

\* What the scheduler's own fields obey at every place the lock holder can be.
FieldsInv ==
  /\ TypeOK
  /\ TimerMatchesStatus
  /\ pc \in {"modify", "activate"} => applies \in TimerIds /\ target \in Configs
  /\ pc \in {"activate", "revert_activate"} => profile = target

\* What holds in every environment holds at first.
LEMMA InitFieldsInv == Init => FieldsInv
<1> SUFFICES ASSUME Init PROVE FieldsInv
  OBVIOUS
<1>1. TypeOK
  <2>1. permanent \in BOOLEAN
    BY Zenon DEF Init
  <2> QED
    BY <2>1, ConfigsAssumption, BoundsAssumption
    DEF Init, TypeOK, Addresses, Reverting, TimerIds
<1>2. TimerMatchesStatus
  BY DEF Init, TimerMatchesStatus
<1> QED
  BY <1>1, <1>2 DEF Init, FieldsInv

\* Every step keeps what holds in every environment.
LEMMA StepFieldsInv == FieldsInv /\ [Next]_vars => FieldsInv'
<1> SUFFICES ASSUME FieldsInv, [Next]_vars PROVE FieldsInv'
  OBVIOUS
<1> USE ConfigsAssumption, BoundsAssumption
    DEF FieldsInv, TypeOK, TimerMatchesStatus, Pending, Reverting, TimerIds,
        Addresses, net, fields, counts, observers, Fault, FileError, Escapes
<1>0. allowed' = allowed
  BY AllowedIsRigid
<1> USE <1>0
<1>1. ASSUME NEW c \in Configs, Snapshot(c) PROVE FieldsInv'
  <2>1. permanent' \in BOOLEAN
    BY <1>1, Zenon DEF Snapshot, SaveBackup
  <2> QED
    BY <1>1, <2>1 DEF Snapshot, SaveBackup, LockFree
<1>2. CASE Modify
  BY <1>2 DEF Modify, AfterFailedMod
<1>3. CASE Activate
  <2>1. live' \in Addresses /\ faults' \in 0..MaxFaults
    BY <1>3 DEF Activate, AfterFailedUp
  <2>2. CASE Arm
    <3>1. timers' \in [TimerIds -> {"new", "armed", "fired", "gone"}]
      BY <1>3, <2>2 DEF Activate, Arm, Cancelled
    <3>2. timers'[applies] = "armed" /\ timer' = applies /\ candidate' = target
      BY <1>3, <2>2 DEF Activate, Arm, Cancelled
    <3> QED
      BY <1>3, <2>1, <3>1, <3>2 DEF Activate
  <2>3. CASE UNCHANGED fields
    BY <1>3, <2>1, <2>3 DEF Activate
  <2> QED
    BY <1>3, <2>2, <2>3 DEF Activate
<1>4. CASE Confirm
  <2>1. permanent' \in BOOLEAN
    BY <1>4, Zenon DEF Confirm
  <2> QED
    BY <1>4, <2>1 DEF Confirm, LockFree, Cancelled
<1>5. ASSUME NEW t \in TimerIds, Fire(t) PROVE FieldsInv'
  BY <1>5 DEF Fire
<1>6. ASSUME NEW t \in TimerIds, StartRevert(t) PROVE FieldsInv'
  BY <1>6 DEF StartRevert, LoadBackup
<1>7. CASE RevertModify
  BY <1>7 DEF RevertModify, AfterFailedMod
<1>8. CASE RevertActivate
  <2>1. live' \in Addresses /\ faults' \in 0..MaxFaults
    BY <1>8 DEF RevertActivate, AfterFailedUp
  <2>2. CASE EndRevert
    BY <1>8, <2>1, <2>2 DEF RevertActivate, EndRevert
  <2>3. CASE pc' = "fallback" /\ UNCHANGED <<fields, target>>
    BY <1>8, <2>1, <2>3 DEF RevertActivate
  <2> QED
    BY <1>8, <2>2, <2>3 DEF RevertActivate
<1>9. CASE Fallback
  BY <1>9 DEF Fallback, EndRevert
<1>10. CASE Crash
  BY <1>10 DEF Crash
<1>11. CASE UNCHANGED vars
  BY <1>11 DEF vars
<1> QED
  BY <1>1, <1>2, <1>3, <1>4, <1>5, <1>6, <1>7, <1>8, <1>9, <1>10, <1>11
  DEF Next, ApplySteps, RevertSteps

\* The fields of the scheduler and its timers agree, in every environment.
THEOREM FieldsInvariance == Spec => []FieldsInv
  BY InitFieldsInv, StepFieldsInv, PTL DEF Spec

\* The types of the scheduler's fields, the files and the interface.
THEOREM TypeCorrect == Spec => []TypeOK
<1>1. FieldsInv => TypeOK
  BY DEF FieldsInv
<1> QED
  BY FieldsInvariance, <1>1, PTL

\* Whatever commands fail and whatever overlaps or races, a recorded timer is one
\* that will still act, so status() reports no revert that cannot come, unless the
\* carrier or the backup cannot be read when the revert needs it: then its thread
\* ends without a word.
THEOREM StatusIsTrue == Spec => []TimerMatchesStatus
<1>1. FieldsInv => TimerMatchesStatus
  BY DEF FieldsInv
<1> QED
  BY FieldsInvariance, <1>1, PTL

-----------------------------------------------------------------------------

\* Where the trusted address is at each place: it is live until the candidate
\* is up; from then on it is in the backup, and then in the revert's hands.
Places ==
  /\ live \in Configs /\ trusted \in Configs
  /\ pc \in {"modify", "activate"} =>
       live = trusted /\ backup = trusted /\ timer = 0
  /\ pc \in Reverting =>
       pc # "fallback" /\ target = trusted /\ backup = trusted /\ timer # 0
  /\ \A t \in TimerIds : Pending(t) => t = timer /\ pc \notin Reverting
  /\ \A t \in TimerIds : timers[t] = "fired" => pc = "free"
  /\ timer # 0 => candidate = live /\ backup = trusted
  /\ pc = "free" /\ timer = 0 => live = trusted

\* The places are known when nothing goes wrong.
NetInv == FieldsInv /\ (allowed = {} => Places)

\* The trusted address is live at first.
LEMMA InitNetInv == Init => NetInv
<1> SUFFICES ASSUME Init PROVE NetInv
  OBVIOUS
<1>1. FieldsInv
  BY InitFieldsInv
<1> QED
  BY <1>1 DEF Init, NetInv, Places, Pending, Reverting

\* Without a mishap the trusted address is never lost.
LEMMA StepNetInv == NetInv /\ [Next]_vars => NetInv'
<1> SUFFICES ASSUME NetInv, [Next]_vars, allowed = {} PROVE FieldsInv' /\ Places'
  BY AllowedIsRigid, StepFieldsInv DEF NetInv
<1>0. FieldsInv /\ FieldsInv'
  BY StepFieldsInv DEF NetInv
<1>p. Places
  BY DEF NetInv
<1>f. ~Fault /\ ~FileError /\ ~Crash
  BY DEF Fault, FileError, Crash
<1> USE ConfigsAssumption, BoundsAssumption, <1>0, <1>p
    DEF Places, FieldsInv, TypeOK, TimerMatchesStatus, Pending, Reverting,
        TimerIds, Addresses, net, fields, counts, observers
<1>1. ASSUME NEW c \in Configs, Snapshot(c) PROVE Places'
  BY <1>1, <1>f DEF Snapshot, SaveBackup, LockFree
<1>2. CASE Modify
  BY <1>2, <1>f DEF Modify, Escapes
<1>3. CASE Activate
  BY <1>3, <1>f DEF Activate, Arm, Cancelled
<1>4. CASE Confirm
  <2>1. ASSUME NEW t \in TimerIds
        PROVE  timers'[t] \notin {"armed", "fired"}
    BY <1>4, <2>1 DEF Confirm, LockFree, Cancelled
  <2> QED
    BY <1>4, <2>1 DEF Confirm, LockFree
<1>5. ASSUME NEW t \in TimerIds, Fire(t) PROVE Places'
  BY <1>5 DEF Fire
<1>6. ASSUME NEW t \in TimerIds, StartRevert(t) PROVE Places'
  BY <1>6, <1>f DEF StartRevert, LoadBackup
<1>7. CASE RevertModify
  BY <1>7, <1>f DEF RevertModify, Escapes
<1>8. CASE RevertActivate
  <2>1. live' = profile /\ EndRevert
    BY <1>8, <1>f DEF RevertActivate
  <2>2. ASSUME NEW t \in TimerIds
        PROVE  ~Pending(t)'
    BY <1>8, <2>1 DEF RevertActivate, EndRevert
  <2> QED
    BY <1>8, <2>1, <2>2 DEF RevertActivate, EndRevert
<1>9. CASE Fallback
  BY <1>9 DEF Fallback
<1>10. CASE UNCHANGED vars
  BY <1>10 DEF vars
<1> QED
  BY <1>1, <1>2, <1>3, <1>4, <1>5, <1>6, <1>7, <1>8, <1>9, <1>10, <1>f
  DEF Next, ApplySteps, RevertSteps

\* When nothing goes wrong, an address nobody confirmed always has its revert
\* scheduled or running, and that revert restores the trusted address.
THEOREM SafetyNetHolds == Spec => []SafetyNet
<1>1. NetInv => SafetyNet
  BY DEF NetInv, Places, FieldsInv, SafetyNet, TypeOK, TimerMatchesStatus, Reverting, Pending
<1> QED
  BY InitNetInv, StepNetInv, <1>1, PTL DEF Spec

-----------------------------------------------------------------------------

\* What the confirmation needs: no timer that fires while the lock is held and
\* no command that fails.  Changes may overlap and the process may restart.
Quiet == "race" \notin allowed /\ "fault" \notin allowed

\* A confirmed change has no timer left, and the profile the next activation
\* would use is the address that is live.  That is so while the change is pending,
\* too, whether its revert is still to come or has died before it changed anything.
Settled ==
  /\ \A t \in TimerIds : Pending(t) => t = timer /\ pc \notin Reverting
  /\ \A t \in TimerIds : timers[t] = "fired" => pc = "free"
  /\ timer # 0 /\ pc \in {"free", "modify", "revert_modify"} => profile = live
  /\ permanent => pc = "free" /\ timer = 0 /\ profile = live

PermanentInv == FieldsInv /\ (Quiet => Settled)

\* Nothing is confirmed at first.
LEMMA InitPermanentInv == Init => PermanentInv
<1> SUFFICES ASSUME Init PROVE PermanentInv
  OBVIOUS
<1>1. FieldsInv
  BY InitFieldsInv
<1> QED
  BY <1>1 DEF Init, PermanentInv, Settled, Pending

\* Every step keeps the confirmed address in its places.
LEMMA StepPermanentInv == PermanentInv /\ [Next]_vars => PermanentInv'
<1> SUFFICES ASSUME PermanentInv, [Next]_vars, Quiet PROVE FieldsInv' /\ Settled'
  BY AllowedIsRigid, StepFieldsInv DEF PermanentInv, Quiet
<1>0. FieldsInv /\ FieldsInv'
  BY StepFieldsInv DEF PermanentInv
<1>p. Settled
  BY DEF PermanentInv
<1>f. ~Fault
  BY DEF Quiet, Fault
<1> USE ConfigsAssumption, BoundsAssumption, <1>0, <1>p
    DEF Settled, FieldsInv, TypeOK, TimerMatchesStatus, Pending, Reverting,
        TimerIds, Addresses, net, fields, counts, observers
<1>1. ASSUME NEW c \in Configs, Snapshot(c) PROVE Settled'
  BY <1>1, <1>f DEF Snapshot, SaveBackup, LockFree, Quiet
<1>2. CASE Modify
  BY <1>2, <1>f DEF Modify, Escapes
<1>3. CASE Activate
  BY <1>3, <1>f DEF Activate, Arm, Cancelled
<1>4. CASE Confirm
  <2>1. ASSUME NEW t \in TimerIds
        PROVE  timers'[t] \notin {"armed", "fired"}
    BY <1>4, <2>1 DEF Confirm, LockFree, Cancelled, Quiet
  <2> QED
    BY <1>4, <2>1 DEF Confirm, LockFree
<1>5. ASSUME NEW t \in TimerIds, Fire(t) PROVE Settled'
  BY <1>5 DEF Fire, Quiet
<1>6. ASSUME NEW t \in TimerIds, StartRevert(t) PROVE Settled'
  BY <1>6 DEF StartRevert, LoadBackup, Escapes
<1>7. CASE RevertModify
  BY <1>7, <1>f DEF RevertModify, Escapes
<1>8. CASE RevertActivate
  BY <1>8, <1>f DEF RevertActivate, EndRevert
<1>9. CASE Fallback
  BY <1>9, <1>f DEF Fallback, EndRevert
<1>10. CASE Crash
  BY <1>10 DEF Crash
<1>11. CASE UNCHANGED vars
  BY <1>11 DEF vars
<1> QED
  BY <1>1, <1>2, <1>3, <1>4, <1>5, <1>6, <1>7, <1>8, <1>9, <1>10, <1>11
  DEF Next, ApplySteps, RevertSteps

\* "Change is permanent" is true of a quiet behaviour, over restarts too.
THEOREM PermanentHolds == Spec => ConfirmIsPermanent
<1> DEFINE Stays ==
      ("race" \notin allowed /\ "fault" \notin allowed /\ permanent /\ permanent')
        => live' = live
<1>1. PermanentInv /\ [Next]_vars => [Stays]_vars
  <2> SUFFICES ASSUME PermanentInv, Next, Quiet, permanent, permanent' PROVE live' = live
    BY DEF Quiet
  <2>1. pc = "free" /\ timer = 0 /\ profile = live /\ live # Dhcp
    BY ConfigsAssumption DEF PermanentInv, Settled, FieldsInv, TypeOK, Addresses
  <2> QED
    BY <2>1 DEF Next, ApplySteps, RevertSteps, Snapshot, SaveBackup, Modify, Activate, Confirm,
       Fire, StartRevert, LoadBackup, RevertModify, RevertActivate, Fallback, Crash, net
<1> QED
  BY InitPermanentInv, StepPermanentInv, <1>1, PTL DEF Spec, ConfirmIsPermanent

-----------------------------------------------------------------------------
(* The change as one *)

\* An interface that has its first address has no other on trial.
LEMMA InitTrial == Init => Trial!Init
  BY DEF Init, Trial!Init

\* When nothing goes wrong, the activation puts an address on trial, the
\* confirmation keeps it, the activation at the end of a revert puts the kept one
\* back, and no other step is seen.
LEMMA StepTrial == NetInv /\ [Next]_vars => [Trial!Next]_(Trial!vars)
<1> SUFFICES ASSUME NetInv, Next, ~UNCHANGED Trial!vars PROVE Trial!Next
  BY DEF vars, net, fields, observers, Trial!vars
<1> SUFFICES ASSUME allowed = {} PROVE Trial!Change
  BY AllowedIsRigid DEF Trial!Next
<1>1. FieldsInv /\ Places /\ ~Fault /\ ~FileError /\ allowed' = allowed
  BY AllowedIsRigid DEF NetInv, Fault, FileError
<1> USE <1>1 DEF Trial!vars, fields
<1>2. ASSUME NEW c \in Configs, Snapshot(c) PROVE FALSE
  BY <1>2 DEF Snapshot
<1>3. CASE Modify
  BY <1>3 DEF Modify, observers
<1>4. CASE Activate
  <2>1. /\ timer = 0 /\ target \in Configs /\ live' = target
        /\ timer' = applies /\ applies # 0 /\ trusted' = trusted
    BY <1>4 DEF Activate, Arm, FieldsInv, Places, TimerIds, observers
  <2>2. Trial!Try(target)
    BY <2>1 DEF Trial!Try
  <2> QED
    BY <2>1, <2>2 DEF Trial!Change
<1>5. CASE Confirm
  <2>1. timer # 0 /\ timer' = 0 /\ trusted' = live /\ live' = live
    BY <1>5 DEF Confirm, Places, net
  <2> QED
    BY <2>1 DEF Trial!Change, Trial!Keep
<1>6. ASSUME NEW t \in TimerIds, Fire(t) \/ StartRevert(t) PROVE FALSE
  BY <1>6 DEF Fire, StartRevert, net, observers
<1>7. CASE RevertModify
  BY <1>7 DEF RevertModify, observers
<1>8. CASE RevertActivate
  <2>1. live' = trusted /\ timer' = 0 /\ trusted' = trusted
    BY <1>8 DEF RevertActivate, EndRevert, FieldsInv, Places, Reverting, observers
  <2>2. timer # 0
    BY <1>8 DEF RevertActivate, Places, Reverting
  <2> QED
    BY <2>1, <2>2 DEF Trial!Change, Trial!PutBack
<1>9. ~Fallback /\ ~Crash
  BY DEF Fallback, Crash, Places, Reverting
<1> QED
  BY <1>2, <1>3, <1>4, <1>5, <1>6, <1>7, <1>8, <1>9 DEF Next, ApplySteps, RevertSteps

\* Without a mishap the commands, timers and files of a change are an
\* implementation of AddressTrial: an address is kept or put back as a whole.
THEOREM ChangeIsOne == Spec => ImplementsTrial
  BY InitTrial, InitNetInv, StepNetInv, StepTrial, PTL DEF Spec, ImplementsTrial, Trial!Spec

=============================================================================

---------------------------- MODULE NetworkRevert ----------------------------
(***************************************************************************)
(* core/network_config.py: an administrator changes the address of the     *)
(* fieldbus interface, and RevertScheduler puts the old address back       *)
(* unless the change is confirmed in time.                                 *)
(*                                                                         *)
(* Every method of the scheduler holds its lock from end to end, over      *)
(* several external commands.  pc is that lock and the place its holder    *)
(* has reached; "free" means nobody holds it.  A threading.Timer that has  *)
(* fired waits for the lock, and cancel() does nothing to it any more.     *)
(*                                                                         *)
(* NetworkManager keeps a profile (what the next activation will use) and  *)
(* the kernel has a live address; the backup is a file.  These survive the *)
(* process; timers and the scheduler's fields do not.                      *)
(*                                                                         *)
(* `allowed` says what may go wrong in a behaviour, once for all of it, so *)
(* that a property can name the conditions it needs.                       *)
(***************************************************************************)
EXTENDS Integers

CONSTANTS
  Configs,      \* static configurations (address, prefix, gateway)
  NoConfig,     \* no address, no backup file, no candidate
  Dhcp,         \* a profile whose ipv4.method is auto
  MaxApplies,   \* bound: calls of apply_with_revert, each with its Timer
  MaxFaults,    \* bound: external commands and file operations that fail
  MaxCrashes,   \* bound: restarts of the process or the machine
  Environments  \* the values of `allowed` that are looked at

\* "overlap": an admin may apply while an earlier change is pending.
\* "race": a fired timer may have to wait for the lock.
\* "fault": external commands may fail.  "crash": restarts.
\* "no_address": the interface may have no address to begin with.
\* "file_error": the backup, or the carrier of the interface, may not be readable.
Mishaps == {"overlap", "race", "fault", "crash", "no_address", "file_error"}

ASSUME ConfigsAssumption ==
  /\ NoConfig \notin Configs
  /\ Dhcp \notin Configs \cup {NoConfig}
ASSUME BoundsAssumption ==
  MaxApplies \in Nat /\ MaxFaults \in Nat /\ MaxCrashes \in Nat
ASSUME EnvironmentsAssumption == Environments \subseteq SUBSET Mishaps

VARIABLES
  live,        \* the address the kernel reports (ip addr show)
  profile,     \* what the NetworkManager connection says
  backup,      \* the file BACKUP_PATH
  timer,       \* self._timer: 0 for None, else the number of the apply
  candidate,   \* self._pending_candidate
  timers,      \* every Timer object made: its life, whoever still refers to it
  pc,          \* the lock, and where its holder is
  target,      \* the argument of the apply_config that is running
  applies, faults, crashes,  \* counted against the bounds
  allowed,     \* environment: the mishaps of this behaviour; it never changes
  trusted,     \* observer: the last configuration confirmed, or the first one
  permanent    \* observer: confirm() said "permanent", and no apply since

net == <<live, profile, backup>>
fields == <<timer, candidate, timers>>
observers == <<trusted, permanent>>
counts == <<applies, faults, crashes>>
vars == <<net, fields, pc, target, counts, allowed, observers>>

TimerIds == 1..MaxApplies
Addresses == Configs \cup {NoConfig}
Reverting == {"revert_modify", "revert_activate", "fallback"}

TypeOK ==
  /\ live \in Addresses
  /\ profile \in Addresses \cup {Dhcp}
  /\ backup \in Addresses
  /\ timer \in 0..MaxApplies
  /\ candidate \in Addresses
  /\ timers \in [TimerIds -> {"new", "armed", "fired", "gone"}]
  /\ pc \in {"free", "modify", "activate"} \cup Reverting
  /\ target \in Addresses
  /\ applies \in 0..MaxApplies
  /\ faults \in 0..MaxFaults
  /\ crashes \in 0..MaxCrashes
  /\ allowed \in Environments
  /\ trusted \in Addresses
  /\ permanent \in BOOLEAN

Init ==
  /\ allowed \in Environments
  /\ live \in IF "no_address" \in allowed THEN Addresses ELSE Configs
  /\ profile \in {live, Dhcp}
  /\ backup = NoConfig
  /\ timer = 0
  /\ candidate = NoConfig
  /\ timers = [t \in TimerIds |-> "new"]
  /\ pc = "free"
  /\ target = NoConfig
  /\ applies = 0 /\ faults = 0 /\ crashes = 0
  /\ trusted = live
  /\ permanent = FALSE

-----------------------------------------------------------------------------

\* Somebody other than a fired timer gets the lock.
LockFree == pc = "free" /\ ("race" \in allowed \/ \A t \in TimerIds : timers[t] # "fired")

\* A command that fails is a NetworkConfigError (_run), and so is a missing cable.
Fault == "fault" \in allowed /\ faults < MaxFaults /\ faults' = faults + 1

\* A file that is there and cannot be read or written is an OSError, which is no
\* NetworkConfigError.  The carrier of an interface that is down is such a file.
FileError == "file_error" \in allowed /\ faults < MaxFaults /\ faults' = faults + 1

\* An exception that nobody catches: the lock is given back, and nothing else.
Escapes == pc' = "free" /\ target' = NoConfig

\* Timer.cancel(): only a timer that has not fired yet is stopped.
Cancelled(t) ==
  IF t # 0 /\ timers[t] = "armed" THEN [timers EXCEPT ![t] = "gone"] ELSE timers

\* What a failed `con up` (or one that timed out) may leave on the interface.
AfterFailedUp == {live, NoConfig, profile} \cap Addresses

-----------------------------------------------------------------------------
(* apply_with_revert *)

\* Both are atomic: written to a temporary file and renamed.  What cannot be parsed
\* is no backup.
SaveBackup(c) == backup' = c
LoadBackup == backup

\* The live address is saved as the backup.  When it cannot be read (there is
\* none, or the command failed) the stale backup is removed and the apply
\* goes on.  When the file can be neither written nor removed, the request ends.
Snapshot(c) ==
  /\ LockFree
  /\ "overlap" \in allowed \/ timer = 0
  /\ applies < MaxApplies
  /\ applies' = applies + 1
  /\ \/ /\ \/ SaveBackup(live) /\ UNCHANGED faults
           \/ backup' = NoConfig /\ Fault
        /\ pc' = "modify" /\ target' = c
     \/ FileError /\ UNCHANGED <<backup, pc, target>>
  /\ permanent' = FALSE
  /\ UNCHANGED <<live, profile, fields, crashes, trusted, allowed>>

\* What a `con mod` that failed, or was too late to say that it worked, may leave.
AfterFailedMod(p) == {profile, p}

\* apply_config, up to `con mod`: no cable, no connection or a failed command
\* raise, and the request ends with the backup already replaced.
Modify ==
  /\ pc = "modify"
  /\ \/ profile' = target /\ pc' = "activate" /\ UNCHANGED <<target, faults>>
     \/ Fault /\ Escapes /\ profile' \in AfterFailedMod(target)
     \/ FileError /\ Escapes /\ UNCHANGED profile
  /\ UNCHANGED <<live, backup, fields, applies, crashes, observers, allowed>>

\* The old timer is cancelled, and a new one started.
Arm ==
  /\ candidate' = target
  /\ timer' = applies
  /\ timers' = [Cancelled(timer) EXCEPT ![applies] = "armed"]

ActivateSwapped ==        \* mutant: the revert is scheduled in the error path instead
  /\ pc = "activate"
  /\ \/ /\ live' = profile
        /\ UNCHANGED <<fields, faults>>
     \/ /\ Fault
        /\ live' \in AfterFailedUp
        /\ Arm
  /\ pc' = "free"
  /\ target' = NoConfig
  /\ UNCHANGED <<profile, backup, applies, crashes, observers, allowed>>

\* `con up`.  Only when it worked is the revert scheduled.
Activate ==
  /\ pc = "activate"
  /\ \/ /\ live' = profile
        /\ Arm
        /\ UNCHANGED faults
     \/ /\ Fault
        /\ live' \in AfterFailedUp
        /\ UNCHANGED fields
  /\ pc' = "free"
  /\ target' = NoConfig
  /\ UNCHANGED <<profile, backup, applies, crashes, observers, allowed>>

-----------------------------------------------------------------------------
(* confirm *)

ConfirmForgetsCancel ==   \* mutant: the fields are cleared, the timer lives on
  /\ LockFree
  /\ timer # 0
  /\ timer' = 0
  /\ candidate' = NoConfig
  /\ trusted' = candidate
  /\ permanent' = TRUE
  /\ UNCHANGED <<net, timers, pc, target, counts, allowed>>

\* With no timer the answer is "Nothing pending to confirm" and nothing changes.
Confirm ==
  /\ LockFree
  /\ timer # 0
  /\ timers' = Cancelled(timer)
  /\ timer' = 0
  /\ candidate' = NoConfig
  /\ trusted' = candidate
  /\ permanent' = TRUE
  /\ UNCHANGED <<net, pc, target, counts, allowed>>

-----------------------------------------------------------------------------
(* _do_revert, on the timer's own thread *)

\* The delay is over.  All timers have the same delay: the oldest fires first.
Fire(t) ==
  /\ timers[t] = "armed"
  /\ \A u \in TimerIds : u < t => timers[u] # "armed"
  /\ "race" \in allowed \/ pc = "free"
  /\ timers' = [timers EXCEPT ![t] = "fired"]
  /\ UNCHANGED <<net, timer, candidate, pc, target, counts, observers, allowed>>

\* The fired timer gets the lock and reads the backup.  If it is there and cannot
\* be read, the timer's thread ends and the fields stay as they are.
StartRevert(t) ==
  /\ timers[t] = "fired"
  /\ pc = "free"
  /\ timers' = [timers EXCEPT ![t] = "gone"]
  /\ \/ /\ target' = LoadBackup
        /\ pc' = IF LoadBackup = NoConfig THEN "fallback" ELSE "revert_modify"
        /\ UNCHANGED faults
     \/ backup # NoConfig /\ FileError /\ Escapes
  /\ UNCHANGED <<net, timer, candidate, applies, crashes, observers, allowed>>

\* apply_config again.  Only a NetworkConfigError leads to the fallback: an OSError
\* of the carrier ends the thread, and the fields stay as they are.
RevertModify ==
  /\ pc = "revert_modify"
  /\ \/ profile' = target /\ pc' = "revert_activate" /\ UNCHANGED <<target, faults>>
     \/ /\ Fault /\ profile' \in AfterFailedMod(target)
        /\ pc' = "fallback" /\ UNCHANGED target
     \/ FileError /\ Escapes /\ UNCHANGED profile
  /\ UNCHANGED <<live, backup, fields, applies, crashes, observers, allowed>>

\* The three fields are cleared, whichever timer they stood for.
EndRevert ==
  /\ pc' = "free"
  /\ target' = NoConfig
  /\ timer' = 0
  /\ candidate' = NoConfig
  /\ UNCHANGED timers

RevertActivate ==
  /\ pc = "revert_activate"
  /\ \/ live' = profile /\ EndRevert /\ UNCHANGED faults
     \/ /\ Fault
        /\ live' \in AfterFailedUp
        /\ pc' = "fallback"
        /\ UNCHANGED <<fields, target>>
  /\ UNCHANGED <<profile, backup, applies, crashes, observers, allowed>>

FallbackGivesUp ==        \* mutant: when the fallback fails too, the fields are left
  /\ pc = "fallback"
  /\ \/ profile' = Dhcp /\ EndRevert /\ UNCHANGED faults
     \/ /\ Fault
        /\ pc' = "free" /\ target' = NoConfig
        /\ UNCHANGED <<profile, fields>>
  /\ UNCHANGED <<live, backup, applies, crashes, observers, allowed>>

\* revert_to_dhcp: `con mod` without `con up`, and its result is not looked at.
Fallback ==
  /\ pc = "fallback"
  /\ \/ profile' = Dhcp /\ UNCHANGED faults
     \/ Fault /\ UNCHANGED profile
  /\ EndRevert
  /\ UNCHANGED <<live, backup, applies, crashes, observers, allowed>>

-----------------------------------------------------------------------------

\* The process is restarted, or the machine: then the interface comes up with
\* its profile.  Nothing at start-up looks at the backup.
Crash ==
  /\ "crash" \in allowed
  /\ crashes < MaxCrashes
  /\ crashes' = crashes + 1
  /\ live' \in {live, IF profile = Dhcp THEN NoConfig ELSE profile}
  /\ timer' = 0
  /\ candidate' = NoConfig
  /\ timers' = [t \in TimerIds |-> IF timers[t] = "new" THEN "new" ELSE "gone"]
  /\ pc' = "free"
  /\ target' = NoConfig
  /\ UNCHANGED <<profile, backup, applies, faults, observers, allowed>>

ApplySteps == (\E c \in Configs : Snapshot(c)) \/ Modify \/ Activate
RevertSteps == RevertModify \/ RevertActivate \/ Fallback

Next ==
  \/ ApplySteps
  \/ Confirm
  \/ \E t \in TimerIds : Fire(t) \/ StartRevert(t)
  \/ RevertSteps
  \/ Crash

Spec == Init /\ [][Next]_vars

\* Commands end (each has a timeout), delays end, and a waiting timer gets the
\* lock: StartRevert can be disabled by another holder for a while, again and
\* again, but a lock is granted in the end (strong fairness).
Fairness ==
  /\ WF_vars(Modify) /\ WF_vars(Activate)
  /\ WF_vars(RevertSteps)
  /\ \A t \in TimerIds : SF_vars(Fire(t)) /\ SF_vars(StartRevert(t))

FairSpec == Spec /\ Fairness

-----------------------------------------------------------------------------
(* Properties *)

Pending(t) == timers[t] \in {"armed", "fired"}

\* status() never promises a revert that cannot come, as long as the files can be
\* read: a recorded timer is one that is still armed or waiting for the lock (or the
\* very revert that is about to clear it).  In any case there is a candidate exactly
\* when there is a timer.
TimerMatchesStatus ==
  /\ timer # 0 /\ "file_error" \notin allowed => Pending(timer) \/ pc \in Reverting
  /\ timer = 0 <=> candidate = NoConfig

\* What "auto-reverts bad IP changes unless confirmed" needs: while the live
\* address is one nobody confirmed, its revert is scheduled or running, and
\* the backup it will put back is the last address that was trusted.  Every
\* mishap can break it, which is why it asks for a behaviour without any.
SafetyNet ==
  (allowed = {} /\ live # trusted) =>
    /\ backup = trusted
    /\ \/ timer # 0 /\ Pending(timer)
       \/ pc \in Reverting /\ target = trusted

\* "Network config confirmed - change is permanent" (network_routes.py): after
\* that answer the live address does not change until the next apply, though
\* changes overlap, the process restarts and reverts die, if no command fails and no
\* timer waits for the lock.
ConfirmIsPermanent ==
  [][ ("race" \notin allowed /\ "fault" \notin allowed /\ permanent /\ permanent')
        => live' = live ]_vars

\* The change as the administrator sees it: on trial from the activation to the
\* confirmation or the end of the revert.
Trial ==
  INSTANCE AddressTrial WITH
    Addresses <- Configs, address <- live, kept <- trusted,
    onTrial <- timer # 0, orderly <- allowed = {}

\* "auto-reverts bad IP changes unless confirmed": without a mishap the commands,
\* the timer and the files make one change of one address, which is confirmed or
\* put back as a whole, and what is confirmed is what the interface has
\* (network_config.py:230-330).
ImplementsTrial == Trial!Spec

\* A pending change does not stay pending, though commands, the revert and its
\* fallback fail and changes overlap: it is confirmed or its timer acts, as long as
\* the files can be read.
PendingResolves == (timer # 0 /\ "file_error" \notin allowed) ~> timer = 0

\* An address that was not confirmed goes away, or becomes confirmed, when
\* nothing goes wrong.
UnconfirmedReverts == (allowed = {} /\ live # trusted) ~> live = trusted

-----------------------------------------------------------------------------
(* What the code's own text says, and the code does not do *)

\* "Network config confirmed - change is permanent" (network_routes.py), whatever
\* happens.
ConfirmedStays == [][permanent /\ permanent' => live' = live]_vars

=============================================================================

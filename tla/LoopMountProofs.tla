-------------------------- MODULE LoopMountProofs ---------------------------
(***************************************************************************)
(* However many scripts there are, the loop device is never taken from its *)
(* owner and never left to nobody; what a script mounts is its file, and a *)
(* type that could mount it is passed over only if mount(2) refuses it.    *)
(***************************************************************************)
EXTENDS LoopMount, TLAPS

States ==
  LosetupSteps \cup {"idle", "attached", "guessed", "trying", "mounted", "unmounted",
                     "killed", "left"}

(* Why: an owner excludes all others, because the device is bound to one   *)
(* file; and the device stays bound without an owner only for a process    *)
(* that has it open, so the last one to close it frees it.                 *)
DeviceInv ==
  /\ DeviceTypeOK
  /\ at \in [Scripts -> States]
  /\ \A s \in Scripts : at[s] \in LosetupSteps => Runs(s)
  /\ DeviceHasItsOwner

LEMMA DeviceInvInit == LoopMountInit => DeviceInv
  BY LosetupAssumption
     DEF LoopMountInit, LosetupInit, DeviceInv, DeviceTypeOK, DeviceHasItsOwner,
         States, LosetupSteps, Owns, Leaves

(* An end of use that leaves every owner where it was, or killed: the last *)
(* one frees a device that is to be freed.                                 *)
LEMMA ClosesKeeps ==
  ASSUME DeviceInv, NEW h \in {"process", "mount"} \X Scripts, Closes(h),
         at' \in [Scripts -> States],
         \A t \in Scripts : at'[t] \in LosetupSteps => at'[t] = at[t] /\ h # <<"process", t>>,
         \A t \in Scripts : Owns(t)' => Owns(t) /\ (at[t] \in LosetupSteps => at'[t] = at[t]),
         \A t \in Scripts : Owns(t) \/ Leaves(t) => Owns(t)' \/ Leaves(t)'
  PROVE  DeviceInv'
<1> USE LosetupAssumption
<1>1. /\ holders' = holders \ {h}
      /\ \/ UNCHANGED <<backing, lo_name, autoclear>> /\ (autoclear => holders' # {})
         \/ autoclear /\ backing' = NoFile /\ lo_name' = NoFile /\ autoclear' = FALSE
  BY DEF DeviceInv, DeviceTypeOK, Closes, Free
<1>2. DeviceTypeOK'
  BY <1>1 DEF DeviceInv, DeviceTypeOK
<1>3. \A t \in Scripts : at'[t] \in LosetupSteps => Runs(t)'
  BY <1>1 DEF DeviceInv, Runs
<1>4. DeviceHasItsOwner'
  <2>1. CASE UNCHANGED <<backing, lo_name, autoclear>> /\ (autoclear => holders' # {})
    <3>1. \A t \in Scripts : Owns(t)' => backing' = t /\ ~autoclear'
      BY <2>1 DEF DeviceInv, DeviceHasItsOwner
    <3>2. \A t \in Scripts : Owns(t)' /\ at'[t] \notin LosetupSteps => lo_name' = t
      BY <2>1 DEF DeviceInv, DeviceHasItsOwner
    <3>3. backing' # NoFile =>
            Owns(backing)' \/ Leaves(backing)' \/ (autoclear' /\ holders' # {})
      BY <2>1 DEF DeviceInv, DeviceTypeOK, DeviceHasItsOwner, Owns, Leaves
    <3> QED
      BY <3>1, <3>2, <3>3 DEF DeviceHasItsOwner
  <2>2. CASE autoclear /\ backing' = NoFile /\ lo_name' = NoFile /\ autoclear' = FALSE
    <3>1. \A t \in Scripts : ~Owns(t)'
      BY <2>2 DEF DeviceInv, DeviceHasItsOwner
    <3> QED
      BY <2>2, <3>1 DEF DeviceHasItsOwner
  <2> QED
    BY <1>1, <2>1, <2>2
<1> QED
  BY <1>2, <1>3, <1>4 DEF DeviceInv

LEMMA ClearKeeps ==
  ASSUME DeviceInv, NEW s \in Scripts, Owns(s), Runs(s), LOOP_CLR_FD(s)
  PROVE  /\ DeviceTypeOK'
         /\ holders' = holders
         /\ \/ backing' = NoFile /\ lo_name' = NoFile /\ autoclear' = FALSE
            \/ backing' = backing /\ lo_name' = lo_name /\ autoclear' = TRUE /\ holders' # {}
         /\ \A t \in Scripts : Owns(t) => t = s
  BY LosetupAssumption
     DEF DeviceInv, DeviceTypeOK, LOOP_CLR_FD, Free, DeviceHasItsOwner, Runs

LEMMA DeviceInvStep == DeviceInv /\ [LoopMountNext]_loopMountVars => DeviceInv'
<1> SUFFICES ASSUME DeviceInv, [LoopMountNext]_loopMountVars
             PROVE  DeviceInv'
  OBVIOUS
<1> USE LosetupAssumption
<1>1. ASSUME NEW s \in Scripts, Attach(s) \/ Detach(s)
      PROVE  DeviceInv'
  BY <1>1 DEF Attach, Detach, Starts, Goes, Opens, DeviceInv, DeviceTypeOK,
              DeviceHasItsOwner, States, LosetupSteps, Owns, Leaves, Runs
<1>2. ASSUME NEW s \in Scripts,
             \/ StatusUnused(s) \/ StatusUsed(s) \/ SetFdFails(s) \/ SetStatusFails(s)
             \/ UndoFails(s) \/ DetachFails(s) \/ ClearFdFails(s)
      PROVE  DeviceInv'
  BY <1>2 DEF StatusUnused, StatusUsed, SetFdFails, SetStatusFails, UndoFails,
              DetachFails, ClearFdFails, Goes, deviceVars, DeviceInv, DeviceTypeOK, DeviceHasItsOwner, States, LosetupSteps, Owns, Leaves, Runs
<1>3. ASSUME NEW s \in Scripts, LOOP_SET_FD(s)
      PROVE  DeviceInv'
  BY <1>3 DEF LOOP_SET_FD, Goes, DeviceInv, DeviceTypeOK, DeviceHasItsOwner, States,
              LosetupSteps, Owns, Leaves, Runs
<1>4. ASSUME NEW s \in Scripts, SetStatus(s)
      PROVE  DeviceInv'
  BY <1>4 DEF SetStatus, Goes, DeviceInv, DeviceTypeOK, DeviceHasItsOwner, States,
              LosetupSteps, Owns, Leaves, Runs
<1>5. ASSUME NEW s \in Scripts, Undo(s) \/ ClearFd(s)
      PROVE  DeviceInv'
  <2>1. /\ at[s] \in LosetupSteps /\ Owns(s)
        /\ LOOP_CLR_FD(s) /\ at' = [at EXCEPT ![s] = "idle"]
    BY <1>5 DEF Undo, ClearFd, Goes, LosetupSteps, Owns
  <2> QED
    BY <2>1, ClearKeeps
       DEF DeviceInv, DeviceHasItsOwner, States, LosetupSteps, Owns, Leaves, Runs
<1>6. ASSUME NEW s \in Scripts, Close(s)
      PROVE  DeviceInv'
  <2>1. <<"process", s>> \in {"process", "mount"} \X Scripts /\ Closes(<<"process", s>>)
    BY <1>6 DEF Close
  <2>2. at' = at /\ at[s] \notin LosetupSteps /\ at \in [Scripts -> States]
    BY <1>6 DEF Close, DeviceInv
  <2> QED
    BY <2>1, <2>2, ClosesKeeps DEF Owns, Leaves
<1>7. ASSUME NEW s \in Scripts, Kill(s)
      PROVE  DeviceInv'
  <2>1. <<"process", s>> \in {"process", "mount"} \X Scripts /\ Closes(<<"process", s>>)
    BY <1>7 DEF Kill
  <2>2. at' = [at EXCEPT ![s] = "killed"] /\ at \in [Scripts -> States]
    BY <1>7 DEF Kill, Goes, DeviceInv
  <2>3. at' \in [Scripts -> States] /\ "killed" \notin LosetupSteps
    BY <2>2 DEF States, LosetupSteps
  <2> QED
    BY <2>1, <2>2, <2>3, ClosesKeeps DEF Owns, Leaves
<1>8. ASSUME NEW s \in Scripts,
             \/ Guess(s) \/ GuessFails(s) \/ TryFails(s) \/ Skip(s)
             \/ MountFails(s) \/ ListFails(s) \/ UnmountFails(s)
      PROVE  DeviceInv'
  BY <1>8 DEF Guess, GuessFails, TryFails, Skip, MountFails, ListFails, UnmountFails,
              Mounting, MountEnds, losetupVars, Goes, deviceVars, DeviceInv, DeviceTypeOK, DeviceHasItsOwner, States, LosetupSteps, Owns, Leaves, Runs
<1>9. ASSUME NEW s \in Scripts, TryMounts(s)
      PROVE  DeviceInv'
  BY <1>9 DEF TryMounts, Tries, Mounting, MountEnds, Opens, Goes, DeviceInv,
              DeviceTypeOK, DeviceHasItsOwner, States, LosetupSteps, Owns, Leaves, Runs
<1>10. ASSUME NEW s \in Scripts, Unmount(s)
       PROVE  DeviceInv'
  <2>1. at[s] = "mounted" /\ at' = [at EXCEPT ![s] = "unmounted"]
    BY <1>10 DEF Unmount, Goes
  <2>2. CASE Closes(<<"mount", s>>)
    <3>1. at \in [Scripts -> States] /\ at' \in [Scripts -> States]
      BY <2>1 DEF DeviceInv, States
    <3>2. <<"mount", s>> \in {"process", "mount"} \X Scripts
          /\ \A t \in Scripts : <<"mount", s>> # <<"process", t>>
      OBVIOUS
    <3> QED
      BY <2>1, <2>2, <3>1, <3>2, ClosesKeeps DEF LosetupSteps, Owns, Leaves
  <2>3. CASE UNCHANGED deviceVars
    BY <2>1, <2>3 DEF deviceVars, DeviceInv, DeviceTypeOK, DeviceHasItsOwner, States,
                      LosetupSteps, Owns, Leaves, Runs
  <2> QED
    BY <1>10, <2>2, <2>3 DEF Unmount
<1>11. ASSUME NEW s \in Scripts, LastFileClosed(s)
       PROVE  DeviceInv'
  <2>1. <<"mount", s>> \in {"process", "mount"} \X Scripts
        /\ \A t \in Scripts : <<"mount", s>> # <<"process", t>>
    OBVIOUS
  <2>2. at' = at /\ at \in [Scripts -> States] /\ Closes(<<"mount", s>>)
    BY <1>11 DEF LastFileClosed, DeviceInv
  <2> QED
    BY <2>1, <2>2, ClosesKeeps DEF Owns, Leaves
<1>12. CASE UNCHANGED loopMountVars
  BY <1>12 DEF loopMountVars, losetupVars, deviceVars, DeviceInv, DeviceTypeOK,
               DeviceHasItsOwner, Owns, Leaves, Runs
<1> QED
  BY <1>1, <1>2, <1>3, <1>4, <1>5, <1>6, <1>7, <1>8, <1>9, <1>10, <1>11, <1>12
     DEF LoopMountNext, Losetup, LosetupStep, Mount

(* The device is its owner's, under its name, until it detaches it, and    *)
(* never left bound to nobody's file except by a script that was killed or *)
(* failed to unmount or to clear it, however the system calls of all       *)
(* scripts interleave (losetup.c:48-70, 97-105, mount.c:312-333,           *)
(* umount.c:20).                                                           *)
THEOREM DevicesHaveTheirOwner == LoopMountSafety => []DeviceHasItsOwner
<1>1. DeviceInv => DeviceHasItsOwner
  BY DEF DeviceInv
<1> QED
  BY <1>1, DeviceInvInit, DeviceInvStep, PTL DEF LoopMountSafety
-----------------------------------------------------------------------------
Types(s) == DeviceTypes \cap Mountable[Image[s]]

(* The first k entries of /proc/filesystems have been tried in vain.       *)
HasTried(s, k) ==
  /\ Len(tries[s]) = Len(Filesystems) - k
  /\ \A j \in 1..Len(tries[s]) : tries[s][j] = Filesystems[k + j]
  /\ \A i \in 1..k : Filesystems[i].nodev \/ Filesystems[i].name \in refused[s]

HasTriedAGuess(s) ==
  \E i \in Matches(Image[s]) :
    \/ tries[s] = <<Entry(g_file_systems[i].name)>>
    \/ tries[s] = <<>> /\ g_file_systems[i].name \in refused[s]

(* Why: who tries owns the device, so that all of its tries are on its own *)
(* image; the entries that brute force has left are those behind the ones  *)
(* that it skipped or mount(2) refused, and a guess is the one entry.      *)
TryInv(s) ==
  /\ tries[s] # <<>> \/ refused[s] # {} => Mounting(s)
  /\ at[s] = "guessed" => HasTriedAGuess(s)
  /\ at[s] = "trying" => \E k \in 0..Len(Filesystems) : HasTried(s, k)
  /\ at[s] = "mounted" => Types(s) # {}

MountTypeOK ==
  /\ tries \in [Scripts -> Seq(Entries)]
  /\ refused \in [Scripts -> SUBSET TypeNames]

LoopMountInv ==
  /\ DeviceInv
  /\ MountTypeOK
  /\ \A s \in Scripts : TryInv(s)

(* The first match is one: the guess is what some magic number says.       *)
LEMMA GuessIsAMatch ==
  ASSUME NEW image, Matches(image) # {}
  PROVE  \E i \in Matches(image) : _guess_type(image) = g_file_systems[i].name
<1> DEFINE first == CHOOSE i \in Matches(image) : \A j \in Matches(image) : i <= j
<1>1. Matches(image) \subseteq 1..3
  BY DEF Matches, g_file_systems
<1>2. \E i \in Matches(image) : \A j \in Matches(image) : i <= j
  <2>1. CASE 1 \in Matches(image)
    BY <2>1, <1>1
  <2>2. CASE 1 \notin Matches(image) /\ 2 \in Matches(image)
    BY <2>2, <1>1
  <2>3. CASE 1 \notin Matches(image) /\ 2 \notin Matches(image)
    BY <2>3, <1>1
  <2> QED
    BY <2>1, <2>2, <2>3
<1>3. first \in Matches(image)
  BY <1>2
<1>4. _guess_type(image) = g_file_systems[first].name
  BY DEF _guess_type
<1> HIDE DEF first
<1> QED
  BY <1>3, <1>4

(* What is tried is a registered type or a guess, and is mounted only if   *)
(* it is a type that needs a device and can mount the owner's image.       *)
LEMMA EntriesAreTyped ==
  /\ Filesystems \in Seq(Entries)
  /\ \A i \in DOMAIN g_file_systems : <<Entry(g_file_systems[i].name)>> \in Seq(Entries)
<1>1. Filesystems \in Seq(Entries)
  BY LoopMountAssumption DEF Entries
<1>2. \A i \in DOMAIN g_file_systems : Entry(g_file_systems[i].name) \in Entries
  BY DEF Entries
<1>3. \A e \in Entries : <<e>> \in Seq(Entries)
  OBVIOUS
<1> HIDE DEF Entries
<1> QED
  BY <1>1, <1>2, <1>3

LEMMA SuccessIsMountable ==
  ASSUME NEW s \in Scripts, backing = s, NEW entry \in Entries,
         IsTried(entry), CanMount(entry.name)
  PROVE  Types(s) # {}
<1>1. entry.name \notin NodevTypes
  <2>1. ~entry.nodev
    BY DEF IsTried
  <2>2. CASE \E i \in DOMAIN Filesystems : entry = Filesystems[i]
    <3>1. entry.name \in DeviceTypes
      BY <2>1, <2>2 DEF DeviceTypes
    <3> QED
      BY <3>1, LoopMountAssumption
  <2>3. CASE \E i \in DOMAIN g_file_systems : entry = Entry(g_file_systems[i].name)
    BY <2>3, LoopMountAssumption DEF Entry
  <2> QED
    BY <2>2, <2>3 DEF Entries
<1> QED
  BY <1>1 DEF CanMount, Types

LEMMA LoopMountInvInit == LoopMountInit => LoopMountInv
<1> SUFFICES ASSUME LoopMountInit
             PROVE  LoopMountInv
  OBVIOUS
<1>1. DeviceInv
  BY DeviceInvInit
<1>2. /\ tries = [s \in Scripts |-> <<>>] /\ refused = [s \in Scripts |-> {}]
      /\ \A s \in Scripts : at[s] = "idle"
  BY DEF LoopMountInit, LosetupInit
<1>3. \A s \in Scripts : TryInv(s)
  BY <1>2 DEF TryInv
<1>4. MountTypeOK
  BY <1>2 DEF MountTypeOK
<1> QED
  BY <1>1, <1>3, <1>4 DEF LoopMountInv

(* Scripts that mount(8) does not run for, or not on.                      *)
LEMMA TryInvUntouched ==
  ASSUME NEW t \in Scripts, TryInv(t), tries'[t] = tries[t], refused'[t] = refused[t],
         \/ at'[t] = at[t]
         \/ ~Mounting(t) /\ at'[t] \notin {"guessed", "trying", "mounted"}
  PROVE  TryInv(t)'
  BY DEF TryInv, Mounting, HasTried, HasTriedAGuess, Types

LEMMA LosetupKeepsTries ==
  ASSUME LoopMountInv, NEW s \in Scripts, UNCHANGED mountVars,
         Attach(s) \/ Kill(s) \/ LosetupStep(s)
  PROVE  \A t \in Scripts : TryInv(t)'
<1>1. at \in [Scripts -> States] /\ tries' = tries /\ refused' = refused
  BY DEF LoopMountInv, DeviceInv, mountVars
<1>2. /\ ~Mounting(s) \/ UNCHANGED at
      /\ \/ UNCHANGED at
         \/ \E next \in LosetupSteps \cup {"idle", "attached", "killed", "left"} :
              Goes(s, next)
  BY DEF Attach, Kill, LosetupStep, StatusUnused, StatusUsed, LOOP_SET_FD, SetFdFails,
         SetStatus, SetStatusFails, Undo, UndoFails, Detach, DetachFails, ClearFd,
         ClearFdFails, Close, Starts, Mounting, LosetupSteps
<1>3. \A t \in Scripts :
        \/ at'[t] = at[t]
        \/ ~Mounting(t) /\ at'[t] \notin {"guessed", "trying", "mounted"}
  BY <1>1, <1>2 DEF Goes, Mounting, LosetupSteps
<1> QED
  BY <1>1, <1>3, TryInvUntouched DEF LoopMountInv

LEMMA GuessStarts ==
  ASSUME LoopMountInv, NEW s \in Scripts, Guess(s) \/ GuessFails(s)
  PROVE  TryInv(s)' /\ tries'[s] \in Seq(Entries) /\ refused'[s] = refused[s]
<1>1. refused'[s] = refused[s]
  BY DEF Guess, GuessFails
<1>2. CASE Guess(s)
  <2>1. backing = s /\ Matches(Image[s]) # {}
    BY <1>2 DEF Guess, LoopMountInv, DeviceInv, DeviceHasItsOwner, Owns
  <2>2. at'[s] = "guessed" /\ tries'[s] = <<Entry(_guess_type(Image[s]))>>
    BY <1>2, <2>1 DEF Guess, Goes, LoopMountInv, DeviceInv, MountTypeOK
  <2>3. PICK i \in Matches(Image[s]) : _guess_type(Image[s]) = g_file_systems[i].name
    BY <2>1, GuessIsAMatch
  <2>4. tries'[s] \in Seq(Entries)
    BY <2>2, <2>3, EntriesAreTyped DEF Matches
  <2>5. HasTriedAGuess(s)'
    BY <2>2, <2>3 DEF HasTriedAGuess
  <2> QED
    BY <1>1, <2>2, <2>4, <2>5 DEF TryInv, Mounting
<1>3. CASE GuessFails(s)
  <2>1. at'[s] = "trying" /\ tries'[s] = Filesystems
    BY <1>3 DEF GuessFails, Goes, LoopMountInv, DeviceInv, MountTypeOK
  <2>2. Filesystems \in Seq(Entries)
    BY EntriesAreTyped
  <2>3. HasTried(s, 0)' /\ 0 \in 0..Len(Filesystems)
    BY <2>1, <2>2 DEF HasTried
  <2> QED
    BY <1>1, <2>1, <2>2, <2>3 DEF TryInv, Mounting
<1> QED
  BY <1>2, <1>3

LEMMA TryingGoesOn ==
  ASSUME LoopMountInv, NEW s \in Scripts, TryFails(s) \/ Skip(s)
  PROVE  TryInv(s)' /\ tries'[s] \in Seq(Entries) /\ refused'[s] \in SUBSET TypeNames
<1>1. /\ Mounting(s) /\ at'[s] = at[s]
      /\ tries[s] \in Seq(Entries) /\ tries[s] # <<>> /\ refused[s] \in SUBSET TypeNames
  BY DEF TryFails, Skip, Tries, losetupVars, LoopMountInv, MountTypeOK
<1>2. tries'[s] = Tail(tries[s])
  BY DEF TryFails, Skip, LoopMountInv, MountTypeOK
<1>3. Head(tries[s]) \in Entries /\ tries'[s] \in Seq(Entries)
  BY <1>1, <1>2
<1>4. /\ refused[s] \subseteq refused'[s] /\ refused'[s] \in SUBSET TypeNames
      /\ Head(tries[s]).nodev \/ Head(tries[s]).name \in refused'[s]
  <2>1. Head(tries[s]).name \in TypeNames
    BY <1>3 DEF TypeNames
  <2>2. \/ refused'[s] = refused[s] \cup {Head(tries[s]).name}
        \/ refused'[s] = refused[s] /\ Head(tries[s]).nodev
    BY DEF TryFails, Skip, IsTried, LoopMountInv, MountTypeOK
  <2> QED
    BY <1>1, <2>1, <2>2
<1>5. ASSUME NEW k \in 0..Len(Filesystems), HasTried(s, k)
      PROVE  \E l \in 0..Len(Filesystems) : HasTried(s, l)'
  <2>1. /\ k + 1 \in 0..Len(Filesystems) /\ Len(tries'[s]) = Len(Filesystems) - (k + 1)
        /\ Head(tries[s]) = Filesystems[k + 1]
    <3>1. /\ Len(tries[s]) \in Nat \ {0} /\ Head(tries[s]) = tries[s][1]
          /\ Len(tries'[s]) = Len(tries[s]) - 1
      BY <1>1, <1>2
    <3>2. Len(tries[s]) = Len(Filesystems) - k /\ tries[s][1] = Filesystems[k + 1]
      BY <3>1, <1>5 DEF HasTried
    <3>3. Len(Filesystems) \in Nat
      BY EntriesAreTyped
    <3> QED
      BY <3>1, <3>2, <3>3
  <2>2. \A j \in 1..Len(tries'[s]) : tries'[s][j] = Filesystems[(k + 1) + j]
    <3>1. TAKE j \in 1..Len(tries'[s])
    <3>2. tries'[s][j] = tries[s][j + 1] /\ j + 1 \in 1..Len(tries[s])
      BY <1>1, <1>2
    <3>3. tries[s][j + 1] = Filesystems[k + (j + 1)]
      BY <3>2, <1>5 DEF HasTried
    <3>4. k + (j + 1) = (k + 1) + j
      BY <3>2
    <3> QED
      BY <3>2, <3>3, <3>4
  <2>3. \A i \in 1..(k + 1) : Filesystems[i].nodev \/ Filesystems[i].name \in refused'[s]
    <3>1. TAKE i \in 1..(k + 1)
    <3>2. CASE i = k + 1
      BY <3>2, <1>4, <2>1
    <3>3. CASE i \in 1..k
      BY <3>3, <1>4, <1>5 DEF HasTried
    <3> QED
      BY <3>1, <3>2, <3>3
  <2>4. HasTried(s, k + 1)'
    BY <2>1, <2>2, <2>3 DEF HasTried
  <2> QED
    BY <2>1, <2>4
<1>6. ASSUME HasTriedAGuess(s)
      PROVE  HasTriedAGuess(s)'
  <2>1. PICK i \in Matches(Image[s]) : tries[s] = <<Entry(g_file_systems[i].name)>>
    BY <1>1, <1>6 DEF HasTriedAGuess
  <2>2. tries'[s] = <<>> /\ Head(tries[s]) = Entry(g_file_systems[i].name)
    BY <1>2, <2>1
  <2>3. g_file_systems[i].name \in refused'[s]
    BY <1>4, <2>2 DEF Entry
  <2> QED
    BY <2>2, <2>3 DEF HasTriedAGuess
<1>7. (at[s] = "trying" => \E k \in 0..Len(Filesystems) : HasTried(s, k)')
      /\ (at[s] = "guessed" => HasTriedAGuess(s)')
  BY <1>5, <1>6 DEF LoopMountInv, TryInv
<1> QED
  BY <1>1, <1>3, <1>4, <1>7 DEF TryInv, Mounting

LEMMA MountingEnds ==
  ASSUME LoopMountInv, NEW s \in Scripts, TryMounts(s) \/ MountFails(s) \/ ListFails(s)
  PROVE  TryInv(s)' /\ tries'[s] = <<>> /\ refused'[s] = {}
<1>1. tries'[s] = <<>> /\ refused'[s] = {}
  BY DEF TryMounts, MountFails, ListFails, MountEnds, LoopMountInv, MountTypeOK
<1>2. CASE TryMounts(s)
  <2>1. backing = s
    BY <1>2 DEF TryMounts, Tries, Mounting, LoopMountInv, DeviceInv, DeviceHasItsOwner, Owns
  <2>2. /\ Head(tries[s]) \in Entries /\ IsTried(Head(tries[s]))
        /\ CanMount(Head(tries[s]).name)
    BY <1>2 DEF TryMounts, Tries, LoopMountInv, MountTypeOK
  <2>3. Types(s) # {}
    BY <2>1, <2>2, SuccessIsMountable
  <2>4. at'[s] = "mounted"
    BY <1>2 DEF TryMounts, MountEnds, Goes, LoopMountInv, DeviceInv
  <2> QED
    BY <1>1, <2>3, <2>4 DEF TryInv, Types
<1>3. CASE MountFails(s) \/ ListFails(s)
  <2>1. at'[s] = "unmounted"
    BY <1>3 DEF MountFails, ListFails, MountEnds, Goes, LoopMountInv, DeviceInv
  <2> QED
    BY <1>1, <2>1 DEF TryInv
<1> QED
  BY <1>2, <1>3

(* A step of one mount(8) leaves what the others have tried alone.         *)
LEMMA MountIsOfOne ==
  ASSUME LoopMountInv, NEW s \in Scripts,
         \/ Guess(s) \/ GuessFails(s) \/ TryMounts(s) \/ TryFails(s) \/ Skip(s)
         \/ MountFails(s) \/ ListFails(s)
  PROVE  /\ tries' = [tries EXCEPT ![s] = tries'[s]]
         /\ refused' = [refused EXCEPT ![s] = refused'[s]]
         /\ \A t \in Scripts \ {s} : at'[t] = at[t]
<1>1. MountTypeOK /\ at \in [Scripts -> States]
  BY DEF LoopMountInv, DeviceInv
<1>2. CASE Guess(s) \/ GuessFails(s)
  BY <1>1, <1>2 DEF Guess, GuessFails, Goes, MountTypeOK
<1>3. CASE TryMounts(s) \/ MountFails(s) \/ ListFails(s)
  BY <1>1, <1>3 DEF TryMounts, MountFails, ListFails, MountEnds, Goes, MountTypeOK
<1>4. CASE TryFails(s) \/ Skip(s)
  BY <1>1, <1>4 DEF TryFails, Skip, losetupVars, MountTypeOK
<1> QED
  BY <1>2, <1>3, <1>4

LEMMA LoopMountInvStep == LoopMountInv /\ [LoopMountNext]_loopMountVars => LoopMountInv'
<1> SUFFICES ASSUME LoopMountInv, [LoopMountNext]_loopMountVars
             PROVE  LoopMountInv'
  OBVIOUS
<1>1. DeviceInv'
  BY DeviceInvStep DEF LoopMountInv
<1>2. ASSUME UNCHANGED mountVars
      PROVE  MountTypeOK'
  BY <1>2 DEF LoopMountInv, MountTypeOK, mountVars
<1>3. ASSUME NEW s \in Scripts, Attach(s) \/ Kill(s) \/ LosetupStep(s), UNCHANGED mountVars
      PROVE  LoopMountInv'
  BY <1>1, <1>2, <1>3, LosetupKeepsTries DEF LoopMountInv
<1>4. ASSUME NEW s \in Scripts,
             \/ Guess(s) \/ GuessFails(s) \/ TryMounts(s) \/ TryFails(s) \/ Skip(s)
             \/ MountFails(s) \/ ListFails(s)
      PROVE  LoopMountInv'
  <2>1. /\ TryInv(s)' /\ tries'[s] \in Seq(Entries) /\ refused'[s] \in SUBSET TypeNames
    <3>1. <<>> \in Seq(Entries) /\ refused[s] \in SUBSET TypeNames
      BY DEF LoopMountInv, MountTypeOK
    <3>2. CASE TryMounts(s) \/ MountFails(s) \/ ListFails(s)
      BY <3>1, <3>2, MountingEnds
    <3>3. CASE Guess(s) \/ GuessFails(s)
      BY <3>1, <3>3, GuessStarts
    <3> QED
      BY <1>4, <3>2, <3>3, TryingGoesOn
  <2>2. /\ tries' = [tries EXCEPT ![s] = tries'[s]]
        /\ refused' = [refused EXCEPT ![s] = refused'[s]]
        /\ \A t \in Scripts \ {s} : at'[t] = at[t]
    BY <1>4, MountIsOfOne
  <2>3. MountTypeOK'
    BY <2>1, <2>2 DEF LoopMountInv, MountTypeOK
  <2>4. \A t \in Scripts : TryInv(t)'
    BY <2>1, <2>2, TryInvUntouched DEF LoopMountInv, MountTypeOK
  <2> QED
    BY <1>1, <2>3, <2>4 DEF LoopMountInv
<1>5. ASSUME NEW s \in Scripts, Unmount(s) \/ UnmountFails(s) \/ LastFileClosed(s)
      PROVE  LoopMountInv'
  <2>1. /\ UNCHANGED mountVars
        /\ \A t \in Scripts : \/ at'[t] = at[t]
                              \/ at[t] = "mounted" /\ at'[t] \in {"unmounted", "left"}
    BY <1>5 DEF Unmount, UnmountFails, LastFileClosed, Goes, LoopMountInv, DeviceInv
  <2>2. \A t \in Scripts : TryInv(t)'
    BY <2>1, TryInvUntouched DEF LoopMountInv, Mounting, mountVars
  <2> QED
    BY <1>1, <1>2, <2>1, <2>2 DEF LoopMountInv
<1>6. CASE UNCHANGED loopMountVars
  <2>1. UNCHANGED mountVars /\ at' = at
    BY <1>6 DEF loopMountVars, losetupVars
  <2>2. \A t \in Scripts : TryInv(t)'
    BY <2>1, TryInvUntouched DEF LoopMountInv, mountVars
  <2> QED
    BY <1>1, <1>2, <2>1, <2>2 DEF LoopMountInv
<1> QED
  BY <1>3, <1>4, <1>5, <1>6 DEF LoopMountNext, Losetup, Mount

(* losetup, mount and umount are type-correct, and a mount has entries to  *)
(* try only while it tries them (mount.c:203-236).                         *)
THEOREM LoopMountTypeCorrect == LoopMountSafety => []LoopMountTypeOK
<1>1. LoopMountInv => LoopMountTypeOK
  BY DEF LoopMountInv, DeviceInv, MountTypeOK, TryInv, Mounting, LoopMountTypeOK, States
<1> QED
  BY <1>1, LoopMountInvInit, LoopMountInvStep, PTL DEF LoopMountSafety

(* For any list of registered types and any images: what is mounted has a  *)
(* registered type that needs a device; brute force that has read the      *)
(* whole list has had every type that can mount the image refused by       *)
(* mount(2), and after a guess it is the guess that mount(2) has refused   *)
(* (mount.c:203-236, 312-333).                                             *)
THEOREM MountsAreExplained == LoopMountSafety => []MountOutcomeHasACause
<1>1. ASSUME LoopMountInv
      PROVE  MountOutcomeHasACause
  <2>1. ASSUME NEW s \in Scripts, at[s] = "trying", tries[s] = <<>>
        PROVE  Types(s) \subseteq refused[s]
    <3>1. PICK k \in 0..Len(Filesystems) : HasTried(s, k)
      BY <1>1, <2>1 DEF LoopMountInv, TryInv
    <3>2. k = Len(Filesystems) /\ DOMAIN Filesystems = 1..k
      BY <2>1, <3>1, EntriesAreTyped DEF HasTried
    <3> QED
      BY <3>1, <3>2 DEF HasTried, Types, DeviceTypes
  <2>2. ASSUME NEW s \in Scripts, at[s] = "guessed", tries[s] = <<>>
        PROVE  \E i \in Matches(Image[s]) : g_file_systems[i].name \in refused[s]
    <3>1. \A i : tries[s] # <<Entry(g_file_systems[i].name)>>
      BY <2>2
    <3> QED
      BY <1>1, <2>2, <3>1 DEF LoopMountInv, TryInv, HasTriedAGuess
  <2> QED
    BY <1>1, <2>1, <2>2 DEF MountOutcomeHasACause, LoopMountInv, TryInv, Types
<1> QED
  BY <1>1, LoopMountInvInit, LoopMountInvStep, PTL DEF LoopMountSafety
=============================================================================

----------------------------- MODULE LoopMount ------------------------------
(***************************************************************************)
(* Scripts that attach an image to the loop device, mount it without       *)
(* saying its type, unmount it and detach it: losetup(8), mount(8) and     *)
(* umount(8) on one device.  umount is lazy: files that are open keep the  *)
(* file system, and so the device, in use.                                 *)
(***************************************************************************)
EXTENDS Losetup, Sequences

CONSTANTS
  Image,        \* what each script's file holds
  Filesystems,  \* /proc/filesystems, in order: a sequence of [name, nodev]
  Mountable     \* the file system types that can mount each image

VARIABLES
  tries,   \* the entries each mount(8) has yet to try
  refused  \* history: the types that mount(2) has refused to it

mountVars == <<tries, refused>>
loopMountVars == <<losetupVars, mountVars>>

(* What the magic numbers say of an image.  The ext4 one is in ext2 and    *)
(* ext3, too; the xfs one is compared in the machine's byte order, but is  *)
(* big-endian on the disk, so it matches nothing.                          *)
g_file_systems ==
  <<[name |-> "ext4", matches |-> {"ext2", "ext3", "ext4"}],
    [name |-> "xfs", matches |-> {}],
    [name |-> "squashfs", matches |-> {"squashfs"}]>>

Matches(image) == {i \in DOMAIN g_file_systems : image \in g_file_systems[i].matches}

Entry(type) == [name |-> type, nodev |-> FALSE]

(* The type that mount(8) guesses for an image that has a magic number.    *)
_guess_type(image) ==
  LET first == CHOOSE i \in Matches(image) : \A j \in Matches(image) : i <= j
  IN  g_file_systems[first].name

Entries ==
  {Filesystems[i] : i \in DOMAIN Filesystems}
    \cup {Entry(g_file_systems[i].name) : i \in DOMAIN g_file_systems}

TypeNames == {entry.name : entry \in Entries}

(* The registered types that need a device, and those that do not.         *)
DeviceTypes == {Filesystems[i].name : i \in {j \in DOMAIN Filesystems : ~Filesystems[j].nodev}}

NodevTypes == {Filesystems[i].name : i \in {j \in DOMAIN Filesystems : Filesystems[j].nodev}}

ASSUME LoopMountAssumption ==
  /\ Filesystems \in Seq([name : STRING, nodev : BOOLEAN])
  /\ DeviceTypes \cap NodevTypes = {}
  /\ \A i \in DOMAIN g_file_systems : g_file_systems[i].name \notin NodevTypes
  /\ DOMAIN Image = Scripts

LoopMountTypeOK ==
  /\ DeviceTypeOK
  /\ at \in [Scripts -> LosetupSteps \cup
               {"idle", "attached", "guessed", "trying", "mounted", "unmounted",
                "killed", "left"}]
  /\ tries \in [Scripts -> Seq(Entries)]
  /\ refused \in [Scripts -> SUBSET TypeNames]
  /\ \A s \in Scripts :
       tries[s] # <<>> \/ refused[s] # {} => at[s] \in {"guessed", "trying"}

LoopMountInit ==
  /\ LosetupInit
  /\ tries = [s \in Scripts |-> <<>>]
  /\ refused = [s \in Scripts |-> {}]

-----------------------------------------------------------------------------
(* mount DEVICE TARGET reads the magic numbers off the device.             *)
Guess(s) ==
  /\ at[s] = "attached" /\ ~Runs(s)
  /\ backing # NoFile /\ Matches(Image[backing]) # {}
  /\ tries' = [tries EXCEPT ![s] = <<Entry(_guess_type(Image[backing]))>>]
  /\ Goes(s, "guessed")
  /\ UNCHANGED <<deviceVars, refused>>

(* None of them matches, or the device cannot be opened or read as far as  *)
(* the one that does: brute force.                                         *)
GuessFails(s) ==
  /\ at[s] = "attached" /\ ~Runs(s)
  /\ tries' = [tries EXCEPT ![s] = Filesystems]
  /\ Goes(s, "trying")
  /\ UNCHANGED <<deviceVars, refused>>

(* mount(2): a type that needs no device ignores the one it is given.      *)
CanMount(type) ==
  \/ type \in NodevTypes
  \/ backing # NoFile /\ type \in DeviceTypes \cap Mountable[Image[backing]]

(* Some definitions have a faulty twin in front of them, which nothing     *)
(* uses: a bug the properties detect when it takes the definition's place. *)
IsTriedNodevToo(entry) == TRUE

(* Entries of types that need no device are skipped.                       *)
IsTried(entry) == ~entry.nodev

Mounting(s) == at[s] \in {"guessed", "trying"}

Tries(s) == Mounting(s) /\ tries[s] # <<>> /\ IsTried(Head(tries[s]))

MountEnds(s, next) ==
  /\ tries' = [tries EXCEPT ![s] = <<>>]
  /\ refused' = [refused EXCEPT ![s] = {}]
  /\ Goes(s, next)

TryMountsGoesOn(s) ==
  /\ Tries(s) /\ CanMount(Head(tries[s]).name)
  /\ Opens(<<"mount", s>>)
  /\ tries' = [tries EXCEPT ![s] = Tail(@)]
  /\ UNCHANGED refused
  /\ Goes(s, "mounted")

TryMounts(s) ==
  /\ Tries(s) /\ CanMount(Head(tries[s]).name)
  /\ Opens(<<"mount", s>>)
  /\ MountEnds(s, "mounted")

(* mount(2) refuses the type, or fails for another reason.                 *)
TryFails(s) ==
  /\ Tries(s)
  /\ refused' = [refused EXCEPT ![s] = @ \cup {Head(tries[s]).name}]
  /\ tries' = [tries EXCEPT ![s] = Tail(@)]
  /\ UNCHANGED losetupVars

Skip(s) ==
  /\ Mounting(s) /\ tries[s] # <<>> /\ ~IsTried(Head(tries[s]))
  /\ tries' = [tries EXCEPT ![s] = Tail(@)]
  /\ UNCHANGED <<losetupVars, refused>>

(* mount(8) fails: the script goes on to losetup -d.                       *)
MountFails(s) ==
  /\ Mounting(s) /\ tries[s] = <<>>
  /\ MountEnds(s, "unmounted")
  /\ UNCHANGED deviceVars

(* It also fails if /proc/filesystems cannot be opened or read to its end. *)
ListFails(s) ==
  /\ at[s] = "trying" /\ tries[s] # <<>>
  /\ MountEnds(s, "unmounted")
  /\ UNCHANGED deviceVars

(* umount TARGET, with MNT_DETACH: it succeeds whether or not files of the *)
(* file system are open.                                                   *)
Unmount(s) ==
  /\ at[s] = "mounted"
  /\ Goes(s, "unmounted")
  /\ UNCHANGED mountVars
  /\ \/ Closes(<<"mount", s>>)
     \/ UNCHANGED deviceVars

(* It fails: the script leaves everything as it is.                        *)
UnmountFails(s) ==
  /\ at[s] = "mounted"
  /\ Goes(s, "left")
  /\ UNCHANGED <<deviceVars, mountVars>>

(* The last of these files is closed.                                      *)
LastFileClosed(s) ==
  /\ <<"mount", s>> \in holders /\ at[s] # "mounted"
  /\ Closes(<<"mount", s>>)
  /\ UNCHANGED <<at, mountVars>>

Mount(s) ==
  \/ Guess(s) \/ GuessFails(s)
  \/ TryMounts(s) \/ TryFails(s) \/ Skip(s) \/ MountFails(s) \/ ListFails(s)
  \/ Unmount(s) \/ UnmountFails(s)

Losetup(s) == LosetupStep(s) /\ UNCHANGED mountVars

LoopMountNext ==
  \E s \in Scripts :
    \/ Attach(s) /\ UNCHANGED mountVars
    \/ Kill(s) /\ UNCHANGED mountVars
    \/ Losetup(s)
    \/ Mount(s)
    \/ LastFileClosed(s)

LoopMountSafety == LoopMountInit /\ [][LoopMountNext]_loopMountVars

(* A command that was started goes on, a script that has mounted something *)
(* unmounts it, and an open file is closed in the end.                     *)
LoopMountSpec ==
  /\ LoopMountSafety
  /\ \A s \in Scripts :
       /\ WF_loopMountVars(Losetup(s))
       /\ WF_loopMountVars(Mount(s))
       /\ WF_loopMountVars(LastFileClosed(s))

-----------------------------------------------------------------------------
(* What is mounted is the image, never a type that ignores the device; and *)
(* brute force that has read the whole list of types gives up only once    *)
(* mount(2) has refused every one that can mount the image.  There is no   *)
(* brute force after a guess: then it is enough that mount(2) refuses the  *)
(* type that a magic number says (mount.c:203-236, 312-333).               *)
MountOutcomeHasACause ==
  \A s \in Scripts :
    LET types == DeviceTypes \cap Mountable[Image[s]]
    IN  /\ at[s] = "mounted" => types # {}
        /\ at[s] = "trying" /\ tries[s] = <<>> =>
             types \subseteq refused[s]
        /\ at[s] = "guessed" /\ tries[s] = <<>> =>
             \E i \in Matches(Image[s]) : g_file_systems[i].name \in refused[s]

(* However the scripts fare, the device is free again and again, although  *)
(* umount and losetup -d return while it is still in use: unless the       *)
(* script it is bound for was killed or failed to unmount or to clear it,  *)
(* or there is always a losetup that has it open, even if only to find     *)
(* that it is used (losetup.c:49, 67-70, 97-105, umount.c:20).             *)
DeviceIsFreed ==
  \/ []<>(backing = NoFile \/ Leaves(backing))
  \/ <>[](\E s \in Scripts : Runs(s))
=============================================================================

------------------------------- MODULE Locality -------------------------------
(***************************************************************************)
(* nonlocal_filesystem_reason: from the mount table (Linux, macOS, BSD) or   *)
(* the drive type (Windows) to the refusal of a target that is not known to  *)
(* be on a local filesystem, while filesystems are mounted and unmounted.    *)
(*                                                                          *)
(* The mount points that contain the target are numbered by their depth;     *)
(* point 0 contains something else.  A filesystem type is the rank of its    *)
(* name in the alphabet, which is how the code compares them.               *)
(***************************************************************************)
EXTENDS Naturals, Sequences

CONSTANTS
  Depth,          \* mount points that can contain the target: 1..Depth
  LocalTypes, RemoteTypes, OtherTypes,
                  \* LOCAL_FILESYSTEMS, REMOTE_FILESYSTEMS and all other names
  MaxMounts,      \* bound: length of the mount table
  Overmounts      \* may a mount cover an older one that contains the target?

Types  == LocalTypes \cup RemoteTypes \cup OtherTypes
Points == 0..Depth

LocalityConstants ==
  /\ Depth \in Nat /\ MaxMounts \in Nat /\ Overmounts \in BOOLEAN
  /\ Types \subseteq Nat \ {0}
  /\ LocalTypes \cap (RemoteTypes \cup OtherTypes) = {}

VARIABLES
  platform, \* "mounts", "windows" or "unsupported"
  readable, \* can mountinfo be read, does mount succeed?
  mounts,   \* the mount table, oldest first: point and type
  drive     \* GetDriveType of the target's root

vars == <<platform, readable, mounts, drive>>

Entries == [point : Points, type : Types]
\* Types 0 to 6 of GetDriveType, and no drive in the path, or no answer.
Drives  == {"unknown", "no_root_dir", "removable", "fixed", "remote", "cdrom",
            "ramdisk", "none", "failed"}

Init ==
  /\ platform \in {"mounts", "windows", "unsupported"}
  /\ readable \in BOOLEAN
  /\ mounts = <<>>
  /\ drive \in IF platform = "windows" THEN Drives ELSE {"none"}

-----------------------------------------------------------------------------
(* Wrong variants, used to test that the properties notice them. *)

\* Takes any mount that contains the target.
AnyPoint(S) == LET e == CHOOSE e \in S : TRUE IN e.type

\* Refuses only what it knows to be remote.
NotRemote(t) == t \notin RemoteTypes

-----------------------------------------------------------------------------
(* The kernel *)

Covering == {i \in DOMAIN mounts : mounts[i].point > 0}

\* The newest mount that contains the target hides all older ones.
VisibleType == mounts[CHOOSE i \in Covering : \A j \in Covering : j <= i].type

\* Without overmounts, each mount on the way to the target is deeper than
\* those before it.
Hides(p) == p > 0 /\ \E i \in Covering : mounts[i].point >= p

Mount ==
  /\ Len(mounts) < MaxMounts
  /\ \E p \in Points, t \in Types :
       /\ Overmounts \/ ~Hides(p)
       /\ mounts' = Append(mounts, [point |-> p, type |-> t])
  /\ UNCHANGED <<platform, readable, drive>>

Unmount ==
  /\ mounts # <<>>
  /\ mounts' = SubSeq(mounts, 1, Len(mounts) - 1)
  /\ UNCHANGED <<platform, readable, drive>>

Next == platform = "mounts" /\ (Mount \/ Unmount)

Spec == Init /\ [][Next]_vars

-----------------------------------------------------------------------------
(* The answer *)

Matches == {mounts[i] : i \in Covering}

\* max of (depth, name): the deepest, and of two at one point the one whose
\* name comes last.
Deepest(S) ==
  LET e == CHOOSE e \in S :
             \A f \in S : f.point < e.point \/ (f.point = e.point /\ f.type <= e.type)
  IN  e.type

KnownLocal(t) == t \in LocalTypes
LocalDrive(t) == t \in {"removable", "fixed", "ramdisk"}

\* nonlocal_filesystem_reason returns None.
Allowed ==
  CASE platform = "mounts"  -> readable /\ Matches # {} /\ KnownLocal(Deepest(Matches))
    [] platform = "windows" -> LocalDrive(drive)
    [] OTHER -> FALSE

-----------------------------------------------------------------------------
(* Properties *)

\* The types; no table is kept where the code reads none.
TypeOK ==
  /\ mounts \in Seq(Entries) /\ Len(mounts) <= MaxMounts
  /\ drive \in Drives
  /\ Allowed => platform # "unsupported" /\ (platform = "mounts" => Matches # {})

\* A target is accepted only when the filesystem it is on is known to be
\* local: remote, unknown and unreadable evidence all refuse.
AcceptedIsLocal ==
  Allowed =>
    /\ platform = "mounts" => VisibleType \in LocalTypes
    /\ platform = "windows" => drive \notin {"remote", "none", "failed", "unknown", "no_root_dir"}

\* A target on a known local filesystem is refused only for want of evidence.
LocalIsAccepted ==
  platform = "mounts" /\ readable /\ Covering # {} /\ VisibleType \in LocalTypes
    => Allowed

=============================================================================

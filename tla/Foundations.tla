----------------------------- MODULE Foundations -----------------------------
(***************************************************************************)
(* The parts that several commands stand on: the artifact writes and reads,  *)
(* the process gate, the discovery of candidates and the locality of a       *)
(* target.  Each returns before the next is called and they share no state,   *)
(* so a behaviour is one of them at work; the variables of the other parts    *)
(* are Idle, and no artifact is written.                                     *)
(***************************************************************************)
EXTENDS ArtifactWrite, TLC

CONSTANTS
  Pids, Self, Databases, Selected, Platforms, ScanEvents,  \* ProcessScan
  Places, Home, Profile,                                   \* Discovery
  Depth, LocalTypes, RemoteTypes, OtherTypes, MaxMounts, Overmounts, \* Locality
  Idle

VARIABLES
  part,     \* what is at work
  platform,
  allowed, proc, events, kept, codexKept, noise, scanPc, targets, targetCodex, todo,
  cur, fds, scanned, codexSeen, open, partial, verdict,
  configuration, next, order, info,
  readable, mounts, drive

Scan == INSTANCE ProcessScanInv
  WITH pc <- scanPc, seen <- scanned, MaxEvents <- ScanEvents
Candidates == INSTANCE MCDiscovery WITH setting <- configuration
Mounts == INSTANCE Locality

ASSUME FoundationsConstants ==
  Scan!ScanConstants /\ Candidates!DiscoveryConstants /\ Mounts!LocalityConstants

-----------------------------------------------------------------------------
scanVars ==
  <<allowed, proc, events, kept, codexKept, noise, scanPc, targets, targetCodex, todo,
    cur, fds, scanned, codexSeen, open, partial, verdict>>
candidateVars == <<configuration, next, order, info>>
mountVars == <<readable, mounts, drive>>
allVars == <<part, vars, platform, scanVars, candidateVars, mountVars>>

NoWrite ==
  Init /\ ~nt /\ path = None /\ over = [w \in Writers |-> FALSE]

NoScan ==
  /\ allowed = Idle /\ proc = Idle /\ events = Idle /\ kept = Idle
  /\ codexKept = Idle /\ noise = Idle /\ scanPc = Idle /\ targets = Idle
  /\ targetCodex = Idle /\ todo = Idle /\ cur = Idle /\ fds = Idle
  /\ scanned = Idle /\ codexSeen = Idle /\ open = Idle /\ partial = Idle
  /\ verdict = Idle

NoDiscovery == configuration = Idle /\ next = Idle /\ order = Idle /\ info = Idle

NoMounts == readable = Idle /\ mounts = Idle /\ drive = Idle

FoundationsInit ==
  \/ part = "write" /\ Init /\ platform = Idle /\ NoScan /\ NoDiscovery /\ NoMounts
  \/ part = "gate" /\ Scan!Init /\ NoWrite /\ NoDiscovery /\ NoMounts
  \/ part = "discover" /\ Candidates!MCInit /\ platform = Idle
       /\ NoWrite /\ NoScan /\ NoMounts
  \/ part = "locality" /\ Mounts!Init /\ NoWrite /\ NoScan /\ NoDiscovery

Write ==
  /\ part = "write" /\ Next
  /\ UNCHANGED <<part, platform, scanVars, candidateVars, mountVars>>

GateScan ==
  /\ part = "gate" /\ Scan!Next
  /\ UNCHANGED <<part, vars, candidateVars, mountVars>>

Discover ==
  /\ part = "discover" /\ Candidates!Next
  /\ UNCHANGED <<part, vars, platform, scanVars, mountVars>>

MountTable ==
  /\ part = "locality" /\ Mounts!Next
  /\ UNCHANGED <<part, vars, scanVars, candidateVars>>

FoundationsNext == Write \/ GateScan \/ Discover \/ MountTable

FoundationsSpec == FoundationsInit /\ [][FoundationsNext]_allVars

\* Writers are interchangeable, and processes other than the doctor.
Symmetry == Permutations(Writers) \cup Permutations(Pids \ {Self})

-----------------------------------------------------------------------------
(* The properties of the parts; those of ArtifactWrite hold as they are.     *)

\* The types of what is at work.
PartsTypeOK ==
  /\ TypeOK
  /\ part = "gate" => Scan!TypeOK
  /\ part = "discover" => Candidates!TypeOK
  /\ part = "locality" => Mounts!TypeOK

\* The gate never clears a database that another process of this user holds.
HolderNeverMissed == part = "gate" => Scan!HolderNeverMissed

\* The gate never clears while a Codex of this user runs.
CodexNeverMissed == part = "gate" => Scan!CodexNeverMissed

\* The doctor's own handle alone never refuses the gate.
RefusalHasCause == part = "gate" => Scan!RefusalHasCause

\* configured_current goes to what the configuration in force selects.
CurrentIsWhatIsConfigured ==
  part = "discover" => Candidates!CurrentIsWhatIsConfigured

\* No candidate on the other side of the WSL boundary may be mutated.
CrossBoundaryRefused == part = "discover" => Candidates!CrossBoundaryRefused

\* A target is accepted only on a filesystem known to be local.
AcceptedIsLocal == part = "locality" => Mounts!AcceptedIsLocal

\* A target on a filesystem known to be local is refused for want of evidence only.
LocalIsAccepted == part = "locality" => Mounts!LocalIsAccepted

=============================================================================

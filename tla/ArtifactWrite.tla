---------------------------- MODULE ArtifactWrite ----------------------------
(***************************************************************************)
(* write_private_json and read_json_object: several processes write a JSON  *)
(* document to one path, some create-only (a plan, a prepared manifest, a    *)
(* rollback record, --output), some replacing it (a manifest that is         *)
(* sealed), while others read it, any step fails, a process is killed, or    *)
(* the machine loses power.                                                 *)
(*                                                                          *)
(* Each writer fills a temporary file of its own; the file is named after    *)
(* its writer.  The path names one of those files, the document that was     *)
(* there before, or nothing.  data is what a reader sees, synced what the    *)
(* disk keeps without power.  The directory itself is never fsynced, so a    *)
(* power loss may take the path back to what the disk last had (WriteBack).  *)
(***************************************************************************)
EXTENDS Naturals

CONSTANTS
  Writers,    \* processes that write to the path, each once
  Earlier,    \* the document at the path before any of them
  None,
  MaxLosses   \* bound: power losses

ASSUME ArtifactConstants ==
  /\ Earlier \notin Writers /\ None \notin Writers /\ Earlier # None
  /\ MaxLosses \in Nat

Files == Writers \cup {Earlier}
Data  == {"empty", "part", "whole"}
Pcs   == {"idle", "checked", "created", "flushed", "synced", "linked",
          "published", "cleaning", "done"}
Outcomes == {"none", "ok", "exists", "failed", "killed"}
Active   == Pcs \ {"idle", "done"}

VARIABLES
  nt,       \* Windows: no hard links, and rename does not replace
  over,     \* over[w]: w was called with overwrite=True
  pc, outcome,
  data,     \* data[f]: what file f holds
  synced,   \* synced[f]: what of it a power loss leaves
  temps,    \* writers whose temporary name exists
  path,     \* the file the path names, or None
  onDisk,   \* the file a power loss leaves there
  reading,  \* the file a reader has open, or None
  seen,     \* the last thing a reader decoded
  losses

setting == <<nt, over>>
disk    == <<data, synced, temps, path, onDisk>>
reader  == <<reading, seen>>
vars    == <<setting, pc, outcome, disk, reader, losses>>

Init ==
  /\ nt \in BOOLEAN /\ over \in [Writers -> BOOLEAN]
  /\ pc = [w \in Writers |-> "idle"]
  /\ outcome = [w \in Writers |-> "none"]
  /\ data = [f \in Files |-> IF f = Earlier THEN "whole" ELSE "empty"]
  /\ synced = data
  /\ temps = {}
  /\ path \in {None, Earlier} /\ onDisk = path
  /\ reading = None /\ seen = "none"
  /\ losses = 0

Step(w, from, to) == pc[w] = from /\ pc' = [pc EXCEPT ![w] = to]

-----------------------------------------------------------------------------
(* Wrong variants, used to test that the properties notice them. *)

\* Takes the document that is there for its own.
TakesOtherForOwn(w) ==
  /\ Step(w, "idle", "done")
  /\ path # None /\ ~over[w]
  /\ outcome' = [outcome EXCEPT ![w] = "ok"]
  /\ UNCHANGED <<setting, disk, reader, losses>>

\* Replaces by emptying the old file first.
EmptiesReplaced(w) ==
  /\ Step(w, "synced", "published") /\ over[w]
  /\ data' = IF path = None THEN data ELSE [data EXCEPT ![path] = "empty"]
  /\ path' = w /\ temps' = temps \ {w}
  /\ UNCHANGED <<setting, outcome, synced, onDisk, reader, losses>>

\* Leaves the flushed document to the cache.
SyncsNothing(w) == UNCHANGED synced

\* Links the document and leaves its temporary name behind.
KeepsTemp(w) ==
  /\ Step(w, "linked", "published")
  /\ UNCHANGED <<setting, outcome, disk, reader, losses>>

\* Cleans up what the path names instead of the temporary file.
RemovesTarget(w) == path' = None /\ UNCHANGED temps

-----------------------------------------------------------------------------
(* One writer *)

FindsNothing(w) ==
  /\ Step(w, "idle", "checked")
  /\ path = None \/ over[w]
  /\ UNCHANGED <<setting, outcome, disk, reader, losses>>

RefusesEarly(w) ==
  /\ Step(w, "idle", "done")
  /\ path # None /\ ~over[w]
  /\ outcome' = [outcome EXCEPT ![w] = "exists"]
  /\ UNCHANGED <<setting, disk, reader, losses>>

\* mkstemp: the name is new, the file is empty.
MakeTemp(w) ==
  /\ Step(w, "checked", "created")
  /\ temps' = temps \cup {w}
  /\ UNCHANGED <<setting, outcome, data, synced, path, onDisk, reader, losses>>

\* The document reaches the file in pieces.
WritePart(w) ==
  /\ pc[w] = "created" /\ data[w] = "empty"
  /\ data' = [data EXCEPT ![w] = "part"]
  /\ UNCHANGED <<setting, pc, outcome, synced, temps, path, onDisk, reader, losses>>

Flush(w) ==
  /\ Step(w, "created", "flushed")
  /\ data' = [data EXCEPT ![w] = "whole"]
  /\ UNCHANGED <<setting, outcome, synced, temps, path, onDisk, reader, losses>>

Fsync(w) == synced' = [synced EXCEPT ![w] = data[w]]

Sync(w) ==
  /\ Step(w, "flushed", "synced")
  /\ Fsync(w)
  /\ UNCHANGED <<setting, outcome, data, temps, path, onDisk, reader, losses>>

Ready(w) == pc[w] = "synced"
PathFree(w) == path = None

\* The document takes the path: replace, or a rename that refuses on Windows
\* when the path exists; the temporary name is gone with the same step.
Rename(w) ==
  /\ Ready(w)
  /\ over[w] \/ (nt /\ PathFree(w))
  /\ path' = w /\ temps' = temps \ {w}
  /\ pc' = [pc EXCEPT ![w] = "published"]
  /\ UNCHANGED <<setting, outcome, data, synced, onDisk, reader, losses>>

Link(w) ==
  /\ Ready(w)
  /\ ~over[w] /\ ~nt /\ PathFree(w)
  /\ path' = w
  /\ pc' = [pc EXCEPT ![w] = "linked"]
  /\ UNCHANGED <<setting, outcome, data, synced, temps, onDisk, reader, losses>>

RefusesLate(w) ==
  /\ Step(w, "synced", "cleaning")
  /\ ~over[w] /\ path # None
  /\ outcome' = [outcome EXCEPT ![w] = "exists"]
  /\ UNCHANGED <<setting, disk, reader, losses>>

UnlinkTemp(w) ==
  /\ Step(w, "linked", "published")
  /\ temps' = temps \ {w}
  /\ UNCHANGED <<setting, outcome, data, synced, path, onDisk, reader, losses>>

Return(w) ==
  /\ Step(w, "published", "done")
  /\ outcome' = [outcome EXCEPT ![w] = "ok"]
  /\ UNCHANGED <<setting, disk, reader, losses>>

\* Any call raises, also after the document is in place: the unlink of the
\* temporary name or the last chmod.
Fail(w) ==
  /\ pc[w] \in Active \ {"cleaning"}
  /\ pc' = [pc EXCEPT ![w] = "cleaning"]
  /\ outcome' = [outcome EXCEPT ![w] = "failed"]
  /\ UNCHANGED <<setting, disk, reader, losses>>

RemovesTemp(w) == temps' = temps \ {w} /\ UNCHANGED path

\* The handler removes the temporary name, or fails to and says nothing.
CleanUp(w) ==
  /\ Step(w, "cleaning", "done")
  /\ RemovesTemp(w) \/ UNCHANGED <<temps, path>>
  /\ UNCHANGED <<setting, outcome, data, synced, onDisk, reader, losses>>

Kill(w) ==
  /\ pc[w] \in Active
  /\ pc' = [pc EXCEPT ![w] = "done"]
  /\ outcome' = [outcome EXCEPT ![w] = "killed"]
  /\ UNCHANGED <<setting, disk, reader, losses>>

-----------------------------------------------------------------------------
(* read_json_object: what is opened is one file, whatever the path names by   *)
(* the time it is read.                                                     *)

Open ==
  /\ reading = None /\ path # None
  /\ reading' = path
  /\ UNCHANGED <<setting, pc, outcome, disk, seen, losses>>

Read ==
  /\ reading # None
  /\ seen' = data[reading]
  /\ reading' = None
  /\ UNCHANGED <<setting, pc, outcome, disk, losses>>

-----------------------------------------------------------------------------
(* The kernel and the power supply *)

WriteBack ==
  /\ onDisk' = path
  /\ UNCHANGED <<setting, pc, outcome, data, synced, temps, path, reader, losses>>

PowerLoss ==
  /\ losses < MaxLosses
  /\ losses' = losses + 1
  /\ path' = onDisk
  /\ data' = synced
  /\ pc' = [w \in Writers |-> IF pc[w] \in Active THEN "done" ELSE pc[w]]
  /\ outcome' = [w \in Writers |->
       IF pc[w] \in Active THEN "killed" ELSE outcome[w]]
  /\ reading' = None
  /\ UNCHANGED <<setting, synced, temps, onDisk, seen>>

WriterNext(w) ==
  \/ FindsNothing(w) \/ RefusesEarly(w) \/ MakeTemp(w) \/ WritePart(w)
  \/ Flush(w) \/ Sync(w) \/ Rename(w) \/ Link(w) \/ RefusesLate(w)
  \/ UnlinkTemp(w) \/ Return(w) \/ Fail(w) \/ CleanUp(w) \/ Kill(w)

Next ==
  \/ \E w \in Writers : WriterNext(w)
  \/ Open \/ Read \/ WriteBack \/ PowerLoss

Spec == Init /\ [][Next]_vars

-----------------------------------------------------------------------------
(* Properties *)

\* The types; and a writer that is not started, or has succeeded, has no
\* temporary name in the directory.
TypeOK ==
  /\ nt \in BOOLEAN /\ over \in [Writers -> BOOLEAN]
  /\ pc \in [Writers -> Pcs] /\ outcome \in [Writers -> Outcomes]
  /\ data \in [Files -> Data] /\ synced \in [Files -> Data]
  /\ temps \subseteq {w \in Writers : pc[w] \notin {"idle", "checked", "published"}
                                 /\ outcome[w] # "ok"}
  /\ path \in Files \cup {None} /\ onDisk \in Files \cup {None}
  /\ reading \in Files \cup {None} /\ seen \in Data \cup {"none"}
  /\ losses \in 0..MaxLosses

\* Whatever fails, is killed or loses power, the path names a complete
\* document or none, and so it will after the next power loss.
WholeDocument ==
  \A f \in Files :
    /\ path = f => data[f] = "whole" /\ synced[f] = "whole"
    /\ onDisk = f => synced[f] = "whole"

\* A reader never decodes an unfinished document, also when the path is
\* replaced between its open and its read.
ReadsWhole == seen \in {"none", "whole"}

\* Between two power losses at most one create-only writer succeeds, and none
\* where a document was already: the check and the link are separate, so two
\* writers can both find nothing there.
OneWinner ==
  losses = 0 =>
    \A w \in Writers : outcome[w] = "ok" /\ ~over[w] =>
      /\ onDisk # Earlier
      /\ \A v \in Writers \ {w} : outcome[v] = "ok" => over[v]

\* A document that has the path keeps it: only a writer that was asked to
\* replace it, or a power loss, takes it away, also while others fail.
DocumentKept ==
  [][path # None /\ path' # path =>
       losses' # losses \/ \E w \in Writers : over[w] /\ path' = w]_vars

=============================================================================

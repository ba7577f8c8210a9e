-------------------------------- MODULE Verify --------------------------------
(***************************************************************************)
(* The verify command with a rollback manifest.  It inspects the database,   *)
(* samples it, and then reads the manifest, the identity of the file at the  *)
(* path, the base schema and the trigger set, one after the other, while an  *)
(* apply or a rollback with the same manifest goes on, Codex upgrades, other *)
(* triggers come and go, and the file at the path is replaced.              *)
(***************************************************************************)
EXTENDS Naturals

CONSTANTS
  Files,       \* files that can be at the database path
  Mitigated,   \* the one the manifest was written for
  MaxEvents,   \* bound: what happens to the database during one verify
  SwapLate     \* may the file be replaced after its identity was read?

VerifyConstants ==
  Mitigated \in Files /\ MaxEvents \in Nat /\ SwapLate \in BOOLEAN

\* exact: the trigger of the manifest; other: that of the other mode; bad: a
\* doctor-named trigger that is altered or unexpected.  A trigger that is not
\* the doctor's changes the base schema, and is seen there.
Triggers == {"exact", "other", "bad"}
Contents == [base : BOOLEAN, trigs : SUBSET Triggers]
  \* base: is the base schema the one in the manifest?
Pcs == {"start", "inspected", "sampled", "loaded", "identified", "opened", "read",
        "done"}
Exits == {"none", "ok", "partial", "not_found", "artifact_error", "error"}
Statuses == {"prepared", "applied", "rolled_back"}

VARIABLES
  path,      \* the file at the path, or "nothing"
  db,        \* content of each file
  manifest,  \* its status on disk
  confirmed, \* ghost: its apply has verified the trigger after COMMIT
  given,     \* was --manifest passed?
  pc, conn, saw, exit,
  events

world == <<path, db, manifest, confirmed>>
vars  == <<world, given, pc, conn, saw, exit, events>>

Unseen == [inspection |-> "none", sample |-> "none", mismatch |-> FALSE,
           status |-> "prepared", file |-> FALSE, base |-> FALSE, trigs |-> {}]

Init ==
  /\ path \in {Mitigated, "nothing"}
  /\ manifest \in Statuses
  /\ db \in [Files -> Contents]
  /\ confirmed = (manifest # "prepared")
  /\ given \in BOOLEAN
  /\ pc = "start" /\ conn = Mitigated /\ saw = Unseen /\ exit = "none"
  /\ events = 0

Step(from, to) == pc = from /\ pc' = to
Finish(code) == pc' = "done" /\ exit' = code /\ UNCHANGED <<world, given, conn, events>>

-----------------------------------------------------------------------------
(* Wrong variants, used to test that the properties notice them. *)

\* Lets a prepared manifest be matched.
AnyStatus(s) == TRUE

\* Wants the trigger whatever became of the manifest.
ExpectsTrigger(s) == {"exact"}

\* Compares the path with the manifest's, not the file.
SamePath == path # "nothing"

\* Leaves the status of the last run behind.
KeepsStatus == [saw EXCEPT !.status = exit]

-----------------------------------------------------------------------------
(* The command *)

Inspection == IF "bad" \in db[path].trigs THEN "error" ELSE "ok"

Inspect ==
  /\ Step("start", "inspected") /\ path # "nothing"
  /\ saw' = [saw EXCEPT !.inspection = Inspection]
  /\ UNCHANGED <<world, given, conn, exit, events>>

NotFound == pc = "start" /\ path = "nothing" /\ Finish("not_found") /\ UNCHANGED saw

\* An unreadable database does not end the command: it is reported.
InspectFails ==
  /\ Step("start", "inspected") /\ path # "nothing"
  /\ \E s \in {"error", "partial"} : saw' = [saw EXCEPT !.inspection = s]
  /\ UNCHANGED <<world, given, conn, exit, events>>

\* The sample ends, and codex --version is asked; a version that cannot be
\* observed is no mismatch.
Sample ==
  /\ Step("inspected", "sampled")
  /\ \E s \in {"ok", "partial", "error"}, b \in BOOLEAN :
       saw' = [saw EXCEPT !.sample = s, !.mismatch = b /\ given]
  /\ UNCHANGED <<world, given, conn, exit, events>>

Loaded == [saw EXCEPT !.status = manifest]

LoadManifest ==
  /\ Step("sampled", "loaded") /\ given
  /\ saw' = Loaded
  /\ UNCHANGED <<world, given, conn, exit, events>>

LoadFails == pc = "sampled" /\ given /\ Finish("artifact_error") /\ UNCHANGED saw

WithoutManifest == pc = "sampled" /\ ~given /\ Finish("partial") /\ UNCHANGED saw

\* resolve(strict=True) raises when nothing is at the path.
SameFile == path = Mitigated

ReadIdentity ==
  /\ Step("loaded", "identified") /\ path # "nothing"
  /\ saw' = [saw EXCEPT !.file = SameFile]
  /\ UNCHANGED <<world, given, conn, exit, events>>

\* One read-only connection for the fingerprint and the triggers, but two
\* statements.
Connect ==
  /\ Step("identified", "opened") /\ path # "nothing"
  /\ conn' = path
  /\ saw' = [saw EXCEPT !.base = db[path].base]
  /\ UNCHANGED <<world, given, exit, events>>

ReadTriggers ==
  /\ Step("opened", "read")
  /\ saw' = [saw EXCEPT !.trigs = db[conn].trigs]
  /\ UNCHANGED <<world, given, conn, exit, events>>

Raises ==
  /\ pc \in {"loaded", "identified", "opened"}
  /\ Finish("error") /\ UNCHANGED saw

\* The trigger set a manifest of status s lets one expect.
Expected(s) == IF s = "applied" THEN {"exact"} ELSE {}

\* A prepared manifest leaves open whether its apply has committed.
Settled(s) == s # "prepared"

ManifestMatches ==
  /\ Settled(saw.status)
  /\ saw.file /\ saw.base
  /\ saw.trigs = Expected(saw.status)

ObservationsOk == saw.inspection = "ok" /\ saw.sample = "ok" /\ ~saw.mismatch

Report ==
  /\ pc = "read"
  /\ Finish(IF ObservationsOk /\ ManifestMatches THEN "ok" ELSE "partial")
  /\ UNCHANGED saw

-----------------------------------------------------------------------------
(* Everyone else *)

Happens ==
  /\ pc # "done" /\ events < MaxEvents
  /\ events' = events + 1
  /\ UNCHANGED <<given, pc, conn, saw, exit>>

\* An apply commits its trigger, then seals its manifest; a rollback removes
\* it, then seals; each may die in between.
ApplyCommits ==
  /\ Happens /\ manifest = "prepared" /\ path = Mitigated
  /\ db[path].trigs = {} /\ db[path].base
  /\ db' = [db EXCEPT ![path].trigs = {"exact"}]
  /\ UNCHANGED <<path, manifest, confirmed>>

ApplySeals ==
  /\ Happens /\ manifest = "prepared" /\ path = Mitigated
  /\ db[path].trigs = {"exact"} /\ db[path].base
  /\ manifest' = "applied" /\ confirmed' = TRUE
  /\ UNCHANGED <<path, db>>

RollbackCommits ==
  /\ Happens /\ path = Mitigated /\ db[path].base
  /\ db[path].trigs = {"exact"}
  /\ db' = [db EXCEPT ![path].trigs = {}]
  /\ UNCHANGED <<path, manifest, confirmed>>

RollbackSeals ==
  /\ Happens /\ path = Mitigated /\ db[path].base
  /\ db[path].trigs = {}
  /\ manifest' = "rolled_back"
  /\ confirmed' = TRUE
  /\ UNCHANGED <<path, db>>

Upgrade ==
  /\ Happens /\ path # "nothing"
  /\ \E b \in BOOLEAN, ts \in {{}, db[path].trigs} :
       db' = [db EXCEPT ![path] = [base |-> b, trigs |-> ts]]
  /\ UNCHANGED <<path, manifest, confirmed>>

TriggerComesOrGoes ==
  /\ Happens /\ path # "nothing"
  /\ \E t \in {"other", "bad"} :
       db' = [db EXCEPT ![path].trigs = IF t \in @ THEN @ \ {t} ELSE @ \cup {t}]
  /\ UNCHANGED <<path, manifest, confirmed>>

Replace ==
  /\ Happens
  /\ pc \in {"identified"} => SwapLate
  /\ path' \in (Files \cup {"nothing"}) \ {path}
  /\ UNCHANGED <<db, manifest, confirmed>>

Next ==
  \/ Inspect \/ NotFound \/ InspectFails \/ Sample \/ LoadManifest \/ LoadFails
  \/ WithoutManifest \/ ReadIdentity \/ Connect \/ ReadTriggers \/ Raises \/ Report
  \/ ApplyCommits \/ ApplySeals \/ RollbackCommits \/ RollbackSeals
  \/ Upgrade \/ TriggerComesOrGoes \/ Replace

Spec == Init /\ [][Next]_vars

-----------------------------------------------------------------------------
(* Properties *)

\* The types; a connection exists only on a file.
TypeOK ==
  /\ path \in Files \cup {"nothing"} /\ db \in [Files -> Contents]
  /\ manifest \in Statuses /\ confirmed \in BOOLEAN /\ given \in BOOLEAN
  /\ pc \in Pcs /\ conn \in Files /\ exit \in Exits /\ events \in 0..MaxEvents
  /\ saw.status \in Statuses /\ saw.trigs \subseteq Triggers

\* Exit 0 is about the file the manifest was written for: the triggers that
\* were compared are that file's, not those of another file at the same path.
OkBindsObject == exit = "ok" => conn = Mitigated

\* Exit 0 is never given for a manifest whose apply, or a rollback after it,
\* has not yet verified the database, not even one that commits while verify
\* is running.
OkWasConfirmed == exit = "ok" => confirmed

\* When nothing happens during verify and no read fails, exit 0 is given
\* exactly when the file, schema and complete trigger set are the manifest's.
Agrees ==
  /\ given /\ path = Mitigated /\ db[path].base
  /\ \/ manifest = "applied" /\ db[path].trigs = {"exact"}
     \/ manifest = "rolled_back" /\ db[path].trigs = {}

QuietVerdict ==
  pc = "done" /\ events = 0 =>
    /\ exit = "ok" => Agrees
    /\ exit = "partial" /\ Agrees =>
         saw.inspection # "ok" \/ saw.sample # "ok" \/ saw.mismatch

=============================================================================

------------------------- MODULE ArtifactWrite_proofs -------------------------
(***************************************************************************)
(* Proofs about ArtifactWrite for any set of writers and any number of power *)
(* losses: every property that MCArtifactWrite checks.                      *)
(***************************************************************************)
EXTENDS ArtifactWrite, TLAPS

USE ArtifactConstants
USE DEF Step

-----------------------------------------------------------------------------
(* The inductive invariant *)

\* A writer that succeeded is done.
SuccessIsEnd == \A w \in Writers : outcome[w] = "ok" => pc[w] = "done"

\* w's document is complete, in the cache and on the disk.
Durable(w) == data[w] = "whole" /\ synced[w] = "whole"

HadPath == {"linked", "published", "cleaning", "done"}

\* A document is complete from Flush on and durable from Sync on, and the path,
\* the disk's directory and the reader only name documents that are durable.
\* Nothing writes to those any more.
DocumentsDurable ==
  /\ Durable(Earlier)
  /\ \A w \in Writers :
       /\ pc[w] = "flushed" => data[w] = "whole"
       /\ pc[w] \in {"synced", "linked", "published"} => Durable(w)
       /\ w \in {path, onDisk, reading} => pc[w] \in HadPath /\ Durable(w)

\* w has taken the path, and not failed since.
Took(w) == outcome[w] = "ok" \/ pc[w] \in {"linked", "published"}

\* Until the power is lost the path is never freed, so only the first of the
\* create-only writers can take it, and only where there was nothing.
PathTakenOnce ==
  losses = 0 =>
    /\ path = None => onDisk = None
    /\ \A w \in Writers : Took(w) =>
         /\ path \in Writers
         /\ ~over[w] => /\ onDisk # Earlier
                        /\ \A v \in Writers \ {w} : Took(v) => over[v]

ArtifactInv ==
  TypeOK /\ SuccessIsEnd /\ DocumentsDurable /\ ReadsWhole /\ PathTakenOnce

-----------------------------------------------------------------------------
\* The writer's step that is not one of those which change the disk.
QuietStep(w) ==
  \/ FindsNothing(w) \/ RefusesEarly(w) \/ RefusesLate(w) \/ Return(w)
  \/ Fail(w) \/ Kill(w)

\* The initial state is well typed and satisfies the invariant.
LEMMA InitInv ==
  ASSUME Init PROVE ArtifactInv
<1>1. TypeOK
  BY DEF Init, TypeOK, Pcs, Outcomes, Files, Data
<1>2. SuccessIsEnd /\ ReadsWhole /\ PathTakenOnce
  BY DEF Init, SuccessIsEnd, ReadsWhole, PathTakenOnce, Took
<1>3. DocumentsDurable
  BY DEF Init, DocumentsDurable, Durable, Files
<1> QED
  BY <1>1, <1>2, <1>3 DEF ArtifactInv

\* Every step keeps the types, and no step succeeds twice.
LEMMA TypeStep ==
  ASSUME TypeOK, SuccessIsEnd, [Next]_vars
  PROVE  TypeOK' /\ SuccessIsEnd'
<1> USE DEF TypeOK, SuccessIsEnd, setting, disk, reader
<1>1. ASSUME NEW w \in Writers, QuietStep(w)
      PROVE  TypeOK' /\ SuccessIsEnd'
  <2> USE DEF Pcs, Outcomes, Active
  <2>1. CASE FindsNothing(w)
    BY <2>1 DEF FindsNothing
  <2>2. CASE RefusesEarly(w) \/ RefusesLate(w)
    BY <2>2 DEF RefusesEarly, RefusesLate
  <2>3. CASE Return(w)
    BY <2>3 DEF Return
  <2>4. CASE Fail(w)
    BY <2>4 DEF Fail
  <2>5. CASE Kill(w)
    BY <2>5 DEF Kill
  <2> QED
    BY <1>1, <2>1, <2>2, <2>3, <2>4, <2>5 DEF QuietStep
<1>2. ASSUME NEW w \in Writers,
             MakeTemp(w) \/ WritePart(w) \/ Flush(w) \/ Sync(w)
      PROVE  TypeOK' /\ SuccessIsEnd'
  <2> USE DEF Pcs
  <2>1. CASE MakeTemp(w)
    BY <2>1 DEF MakeTemp
  <2>2. CASE WritePart(w) \/ Flush(w)
    BY <2>2 DEF WritePart, Flush, Data, Files
  <2>3. CASE Sync(w)
    BY <2>3 DEF Sync, Fsync, Files
  <2> QED
    BY <1>2, <2>1, <2>2, <2>3
<1>3. ASSUME NEW w \in Writers,
             Rename(w) \/ Link(w) \/ UnlinkTemp(w) \/ CleanUp(w)
      PROVE  TypeOK' /\ SuccessIsEnd'
  BY <1>3 DEF Rename, Link, UnlinkTemp, CleanUp, RemovesTemp, Ready, Pcs, Files
<1>4. CASE Open \/ Read
  BY <1>4 DEF Open, Read
<1>5. CASE WriteBack
  BY <1>5 DEF WriteBack
<1>6. CASE PowerLoss
  BY <1>6 DEF PowerLoss, Pcs, Outcomes, Active
<1>7. CASE UNCHANGED vars
  BY <1>7 DEF vars
<1> QED
  BY <1>1, <1>2, <1>3, <1>4, <1>5, <1>6, <1>7 DEF Next, WriterNext, QuietStep

\* Every step keeps the named documents complete and durable.
LEMMA DurableStep ==
  ASSUME TypeOK, DocumentsDurable, ReadsWhole, [Next]_vars
  PROVE  DocumentsDurable' /\ ReadsWhole'
<1> USE DEF TypeOK, DocumentsDurable, Durable, HadPath, ReadsWhole, setting, disk, reader
<1>1. ASSUME NEW w \in Writers, QuietStep(w)
      PROVE  DocumentsDurable' /\ ReadsWhole'
  BY <1>1
  DEF QuietStep, FindsNothing, RefusesEarly, RefusesLate, Return, Fail, Kill, Active, Pcs
<1>2. ASSUME NEW w \in Writers, MakeTemp(w) \/ WritePart(w) \/ Flush(w)
      PROVE  DocumentsDurable' /\ ReadsWhole'
  BY <1>2 DEF MakeTemp, WritePart, Flush, Files
<1>3. ASSUME NEW w \in Writers, Sync(w)
      PROVE  DocumentsDurable' /\ ReadsWhole'
  BY <1>3 DEF Sync, Fsync, Files
<1>4. ASSUME NEW w \in Writers,
             Rename(w) \/ Link(w) \/ UnlinkTemp(w) \/ CleanUp(w)
      PROVE  DocumentsDurable' /\ ReadsWhole'
  BY <1>4 DEF Rename, Link, UnlinkTemp, CleanUp, RemovesTemp, Ready
<1>5. CASE Open
  BY <1>5 DEF Open
<1>6. CASE Read
  BY <1>6 DEF Read, Files
<1>7. CASE WriteBack
  BY <1>7 DEF WriteBack
<1>8. CASE PowerLoss
  BY <1>8 DEF PowerLoss, Active, Pcs
<1>9. CASE UNCHANGED vars
  BY <1>9 DEF vars
<1> QED
  BY <1>1, <1>2, <1>3, <1>4, <1>5, <1>6, <1>7, <1>8, <1>9
  DEF Next, WriterNext, QuietStep

\* While the power holds, every step leaves the path to the first create-only
\* writer.
LEMMA TakenOnceStep ==
  ASSUME TypeOK, SuccessIsEnd, PathTakenOnce, [Next]_vars
  PROVE  PathTakenOnce'
<1> USE DEF TypeOK, SuccessIsEnd, PathTakenOnce, Took, setting, disk, reader
<1>1. ASSUME NEW w \in Writers, QuietStep(w) \/ UnlinkTemp(w) \/ CleanUp(w)
      PROVE  PathTakenOnce'
  <2>1. UNCHANGED <<over, path, onDisk, losses>>
    BY <1>1
    DEF QuietStep, FindsNothing, RefusesEarly, RefusesLate, Return, Fail, Kill,
        UnlinkTemp, CleanUp, RemovesTemp
  <2>2. \A v \in Writers : Took(v)' => Took(v)
    BY <1>1
    DEF QuietStep, FindsNothing, RefusesEarly, RefusesLate, Return, Fail, Kill,
        UnlinkTemp, CleanUp, Pcs, Active, Outcomes
  <2> QED
    BY <2>1, <2>2
<1>2. ASSUME NEW w \in Writers, MakeTemp(w) \/ WritePart(w) \/ Flush(w) \/ Sync(w)
      PROVE  PathTakenOnce'
  BY <1>2 DEF MakeTemp, WritePart, Flush, Sync
<1>3. ASSUME NEW w \in Writers, Rename(w) \/ Link(w)
      PROVE  PathTakenOnce'
  <2>1. /\ path' = w /\ UNCHANGED <<over, onDisk, losses, outcome>>
        /\ over[w] \/ path = None
    BY <1>3 DEF Rename, Link, PathFree
  <2>2. \A v \in Writers \ {w} : Took(v)' => Took(v)
    BY <1>3 DEF Rename, Link
  <2> QED
    BY <2>1, <2>2
<1>4. CASE Open \/ Read \/ WriteBack
  BY <1>4 DEF Open, Read, WriteBack
<1>5. CASE PowerLoss
  BY <1>5 DEF PowerLoss
<1>6. CASE UNCHANGED vars
  BY <1>6 DEF vars
<1> QED
  BY <1>1, <1>2, <1>3, <1>4, <1>5, <1>6 DEF Next, WriterNext, QuietStep

\* The invariant holds in every reachable state.
THEOREM ArtifactInvariant == Spec => []ArtifactInv
<1>1. ArtifactInv /\ [Next]_vars => ArtifactInv'
  BY TypeStep, DurableStep, TakenOnceStep DEF ArtifactInv
<1> QED
  BY <1>1, InitInv, PTL DEF Spec

-----------------------------------------------------------------------------
(* The properties *)

\* Types; a writer that succeeded has no temporary name left.
THEOREM TypeCorrect == Spec => []TypeOK
<1>1. ArtifactInv => TypeOK
  BY DEF ArtifactInv
<1> QED
  BY <1>1, ArtifactInvariant, PTL

\* The path names a complete document or none, now and after a power loss.
THEOREM AlwaysWhole == Spec => []WholeDocument
<1>1. ArtifactInv => WholeDocument
  BY DEF ArtifactInv, DocumentsDurable, Durable, WholeDocument, Files
<1> QED
  BY <1>1, ArtifactInvariant, PTL

\* read_json_object never decodes an unfinished document.
THEOREM AlwaysReadsWhole == Spec => []ReadsWhole
<1>1. ArtifactInv => ReadsWhole
  BY DEF ArtifactInv
<1> QED
  BY <1>1, ArtifactInvariant, PTL

\* At most one create-only writer succeeds while the power holds.
THEOREM AtMostOneWinner == Spec => []OneWinner
<1>1. ArtifactInv => OneWinner
  BY DEF ArtifactInv, PathTakenOnce, Took, OneWinner
<1> QED
  BY <1>1, ArtifactInvariant, PTL

\* Only a replacing writer or a power loss takes a document's path away.
THEOREM PathIsKept == Spec => DocumentKept
<1> DEFINE Kept ==
      path # None /\ path' # path =>
        losses' # losses \/ \E w \in Writers : over[w] /\ path' = w
<1>1. TypeOK /\ [Next]_vars => [Kept]_vars
  <2> SUFFICES ASSUME TypeOK, [Next]_vars, path # None, path' # path
               PROVE  losses' # losses \/ \E w \in Writers : over[w] /\ path' = w
    OBVIOUS
  <2>1. PowerLoss \/ \E w \in Writers : Rename(w) \/ Link(w)
    BY DEF Next, WriterNext, FindsNothing, RefusesEarly, MakeTemp, WritePart, Flush,
           Sync, RefusesLate, UnlinkTemp, Return, Fail, CleanUp, RemovesTemp, Kill,
           Open, Read, WriteBack, vars, disk
  <2>2. CASE PowerLoss
    BY <2>2 DEF PowerLoss, TypeOK
  <2>3. CASE \E w \in Writers : Rename(w) \/ Link(w)
    BY <2>3 DEF Rename, Link, PathFree
  <2> QED
    BY <2>1, <2>2, <2>3
<1> QED
  BY <1>1, TypeCorrect, PTL DEF Spec, DocumentKept
=============================================================================

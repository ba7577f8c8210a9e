-------------------------- MODULE CommandLine_proofs --------------------------
(***************************************************************************)
(* Proofs about CommandLine for any number of failures, interrupts, kills    *)
(* and repetitions: whatever ends a command after its COMMIT, the operator    *)
(* is told the token of the manifest that is then on disk.                   *)
(*                                                                          *)
(* The argument follows the token.  While a library call runs it has the     *)
(* manifest's token in hand: up to the seal after COMMIT both of the tokens   *)
(* it holds are that one, and after the seal the second one is, so each of    *)
(* the sets that a recovery may offer contains it, whether or not a seal      *)
(* that raised has left its document behind.                                 *)
(***************************************************************************)
EXTENDS CommandLine, TLAPS

-----------------------------------------------------------------------------
(* The inductive invariant *)

Stages ==
  {"ended", "ap_start", "ap_prepared", "ap_committed", "ap_sealed", "rb_start", "rb_absent",
   "rb_present", "rb_committed", "rb_sealed", "handler"}

\* The ranges, with those of the library call's end.
CommandTypes ==
  /\ TypeOK /\ sealed \in Nat /\ mutated \in BOOLEAN
  /\ stage \in Stages /\ cmd \in {"none", "apply", "rollback"}
  /\ lib.kind \in {"result", "recovery", "error"} /\ lib.changed \in BOOLEAN
  /\ lib.tokens \subseteq 1..sealed
  /\ lib.error \in {0, EXIT_SAFETY_REFUSED, EXIT_STALE_OR_SCHEMA, EXIT_ARTIFACT, EXIT_SQLITE}

\* Before the library call, before its COMMIT, and after it.
BeforeCommit == {"ap_start", "ap_prepared", "rb_start", "rb_absent", "rb_present"}
AfterCommit == {"ap_committed", "ap_sealed", "rb_committed", "rb_sealed"}

StagesInOrder ==
  /\ stage # "ended" => exit = Running
  /\ cmd = "none" =>
       stage = "ended" /\ exit = Running /\ ~mutated /\ manifest.status = "none"
  /\ stage \in BeforeCommit => ~mutated
  /\ stage \in AfterCommit => mutated

\* The library call has the manifest's token in hand.
TokenInHand ==
  /\ stage \in {"ap_prepared", "ap_committed", "rb_start", "rb_present", "rb_committed"} =>
       manifest.token # 0 /\ held[1] = manifest.token /\ held[2] = manifest.token
  /\ stage \in {"ap_sealed", "rb_sealed"} =>
       manifest.token # 0 /\ held[1] # 0 /\ held[2] = manifest.token

\* What the handler is given says whether the command committed.
HandlerKnows ==
  stage = "handler" =>
    /\ mutated => lib.kind # "error" /\ lib.changed /\ manifest.token \in lib.tokens
    /\ lib.kind = "recovery" => lib.changed /\ (mutated \/ lib.ambiguous)
    /\ lib.kind = "result" /\ lib.changed => mutated

CommandInv ==
  /\ CommandTypes /\ StagesInOrder /\ TokenInHand /\ HandlerKnows
  /\ MutationIsTold /\ NineMeansCommitted

-----------------------------------------------------------------------------
(* How a library call may end *)

\* A refusal is an error with one of the four codes of _safety_exit, whatever
\* phrases its message has.
LEMMA RefusalIsError ==
  ASSUME NEW r
  PROVE  /\ Refused(r).kind = "error" /\ Refused(r).changed = FALSE
         /\ Refused(r).tokens = {} /\ Refused(r).ambiguous = FALSE
         /\ Refused(r).error
              \in {EXIT_SAFETY_REFUSED, EXIT_STALE_OR_SCHEMA, EXIT_ARTIFACT, EXIT_SQLITE}
<1>1. SafetyExit(r)
        \in {EXIT_SAFETY_REFUSED, EXIT_STALE_OR_SCHEMA, EXIT_ARTIFACT, EXIT_SQLITE}
  BY DEF SafetyExit
<1>2. QED  BY <1>1 DEF Refused, Error

\* Whichever set of tokens a recovery offers, it contains the token of the
\* manifest that the call leaves behind, and no token that was never taken.
LEMMA OfferHasToken ==
  ASSUME NEW m, NEW tokens, NEW n \in Nat,
         m.token \in {tokens[1], tokens[2]},
         tokens[1] \in 1..n, tokens[2] \in 1..n,
         NEW offer \in Offers(m, tokens)
  PROVE  m.token \in offer /\ offer \subseteq 1..n
BY DEF Offers, Candidates

\* The same of the step that ends a call in recovery.
LEMMA RecoveryKnows ==
  ASSUME NEW ambiguous \in BOOLEAN, NEW tokens, sealed' \in Nat,
         manifest'.token \in {tokens[1], tokens[2]},
         tokens[1] \in 1..(sealed'), tokens[2] \in 1..(sealed'),
         EndInRecovery(ambiguous, tokens)
  PROVE  /\ stage' = "handler" /\ lib'.kind = "recovery" /\ lib'.changed = TRUE
         /\ lib'.ambiguous = ambiguous /\ lib'.error = 0
         /\ lib'.tokens \subseteq 1..(sealed') /\ manifest'.token \in lib'.tokens
<1>1. PICK offer \in Offers(manifest', tokens) : Return(Recovery(ambiguous, offer))
  BY DEF EndInRecovery
<1>2. manifest'.token \in offer /\ offer \subseteq 1..(sealed')  BY OfferHasToken
<1>3. QED  BY <1>1, <1>2 DEF Return, Recovery

-----------------------------------------------------------------------------
(* The invariant holds at first and is kept *)

\* No command has run yet.
LEMMA InitCommand == Init => CommandInv
<1> SUFFICES ASSUME Init PROVE CommandInv
  OBVIOUS
<1>1. /\ lib.kind = "error" /\ lib.changed = FALSE /\ lib.tokens = {} /\ lib.error = 0
      /\ held[1] = 0 /\ held[2] = 0 /\ manifest.status = "none" /\ manifest.token = 0
  BY DEF Init, NoResult, Error
<1>2. TypeOK
  <2>1. exit \in Codes  BY DEF Init, Codes
  <2>2. told \subseteq 1..sealed /\ 0 \in 0..sealed  BY DEF Init
  <2>3. QED  BY <1>1, <2>1, <2>2 DEF Init, TypeOK
<1>3. CommandTypes  BY <1>1, <1>2 DEF Init, CommandTypes, Stages
<1>4. StagesInOrder /\ TokenInHand /\ HandlerKnows
  BY <1>1 DEF Init, StagesInOrder, BeforeCommit, AfterCommit, TokenInHand, HandlerKnows
<1>5. MutationIsTold /\ NineMeansCommitted
  BY DEF Init, MutationIsTold, NineMeansCommitted, Running, EXIT_RECOVERY_REQUIRED
<1>6. QED  BY <1>3, <1>4, <1>5 DEF CommandInv

\* While the library call runs nothing is asked of the exit code: what is left
\* of the invariant are the ranges, the order of the stages, and the token.
LEMMA CallGoesOn ==
  ASSUME CommandInv, stage # "ended" \/ exit' = Running, exit' \in {exit, Running},
         CommandTypes', StagesInOrder', TokenInHand', HandlerKnows', stage' # "ended"
  PROVE  CommandInv'
<1>1. exit' = Running  BY DEF CommandInv, StagesInOrder
<1>2. QED
  BY <1>1 DEF CommandInv, MutationIsTold, NineMeansCommitted, Running, EXIT_RECOVERY_REQUIRED

\* A step that leaves disk and call alone and hands the handler an end of the
\* call that says no more and no less than what is so.
LEMMA HandsOver ==
  ASSUME CommandInv, stage # "ended", UNCHANGED <<cmd, exit, told, confirm, repeats>>,
         stage' = "handler",
         trigger' \in BOOLEAN, record' \in BOOLEAN, sealed' \in Nat, sealed' >= sealed,
         mutated' \in BOOLEAN,
         manifest'.status \in {"none", "prepared", "applied", "rolled_back"},
         manifest'.token \in 0..(sealed'),
         (manifest'.token = 0) <=> (manifest'.status = "none"),
         held'[1] \in 0..(sealed'), held'[2] \in 0..(sealed'),
         lib'.kind \in {"result", "recovery", "error"}, lib'.changed \in BOOLEAN,
         lib'.tokens \subseteq 1..(sealed'),
         lib'.error \in {0, EXIT_SAFETY_REFUSED, EXIT_STALE_OR_SCHEMA, EXIT_ARTIFACT, EXIT_SQLITE},
         HandlerKnows'
  PROVE  CommandInv'
<1>1. CommandTypes'
  BY DEF CommandInv, CommandTypes, TypeOK, Stages
<1>2. StagesInOrder' /\ TokenInHand'
  BY DEF CommandInv, StagesInOrder, TokenInHand, BeforeCommit, AfterCommit
<1>3. QED  BY <1>1, <1>2, CallGoesOn

\* Sealing gives the manifest a token that is not 0, and the count a successor.
LEMMA SealTakesToken ==
  ASSUME sealed \in Nat, NEW status, Seal(status)
  PROVE  /\ manifest'.status = status /\ manifest'.token = sealed' /\ sealed' = sealed + 1
         /\ sealed' \in Nat /\ sealed' # 0
BY DEF Seal

\* So does a write that raises, or the manifest is the one from before.
LEMMA RaisingSeal ==
  ASSUME sealed \in Nat, NEW status, SealRaises(status)
  PROVE  /\ sealed' = sealed + 1 /\ sealed' \in Nat /\ sealed' # 0
         /\ \/ manifest' = manifest
            \/ manifest'.status = status /\ manifest'.token = sealed'
BY DEF SealRaises

\* The two commands begin.
LEMMA StartStep ==
  ASSUME CommandInv, StartApply \/ StartRollback
  PROVE  CommandInv'
<1> USE DEF CommandInv
<1>1. CASE StartApply
  <2>1. CommandTypes' /\ StagesInOrder' /\ TokenInHand' /\ HandlerKnows'
    BY <1>1 DEF StartApply, disk, call, CommandTypes, TypeOK, StagesInOrder, Stages, BeforeCommit,
                AfterCommit, TokenInHand, HandlerKnows
  <2>2. stage' # "ended" /\ exit' = Running
    BY <1>1 DEF StartApply, StagesInOrder
  <2>3. QED  BY <2>1, <2>2, CallGoesOn
<1>2. CASE StartRollback
  <2>1. manifest.token # 0  BY <1>2 DEF StartRollback, CommandTypes, TypeOK
  <2>2. lib'.kind = "error" /\ lib'.changed = FALSE /\ lib'.tokens = {} /\ lib'.error = 0
    BY <1>2 DEF StartRollback, NoResult, Error
  <2>3. held'[1] = manifest.token /\ held'[2] = manifest.token
    BY <1>2 DEF StartRollback
  <2>4. TypeOK'
    <3>1. confirm' \in 0..sealed  BY <1>2 DEF StartRollback, CommandTypes, TypeOK
    <3>2. exit' \in Codes  BY <1>2 DEF StartRollback, Codes
    <3>3. QED  BY <1>2, <2>3, <3>1, <3>2 DEF StartRollback, disk, CommandTypes, TypeOK
  <2>5. CommandTypes'
    BY <1>2, <2>2, <2>4 DEF StartRollback, disk, CommandTypes, Stages
  <2>6. StagesInOrder' /\ TokenInHand' /\ HandlerKnows'
    BY <1>2, <2>1, <2>3 DEF StartRollback, disk, StagesInOrder, BeforeCommit, AfterCommit,
                            TokenInHand, HandlerKnows
  <2>7. QED  BY <1>2, <2>5, <2>6, CallGoesOn DEF StartRollback
<1>3. QED  BY <1>1, <1>2

\* apply is refused, or finds its trigger there, before it has done anything.
\* So does rollback end when it is refused.
LEMMA RefusalStep ==
  ASSUME CommandInv,
         \/ AlreadyApplied \/ ApplyRefused \/ ApplyLockRefused
         \/ TokenMismatch \/ RollbackRefused \/ RollbackLockRefused
  PROVE  CommandInv'
<1>1. /\ stage \in BeforeCommit /\ stage' = "handler"
      /\ UNCHANGED <<trigger, manifest, record, sealed, cmd, confirm, repeats, held, mutated, told,
                     exit>>
      /\ \/ lib' = Result(FALSE, {})
         \/ \E r : lib' = Refused(r)
  <2>1. CASE AlreadyApplied
    BY <2>1 DEF AlreadyApplied, Return, BeforeCommit, disk, line, call
  <2>2. CASE ApplyRefused
    BY <2>2 DEF ApplyRefused, Return, BeforeCommit, disk, line, call
  <2>3. CASE ApplyLockRefused
    BY <2>3 DEF ApplyLockRefused, Return, BeforeCommit, disk, line, call
  <2>4. CASE TokenMismatch
    BY <2>4 DEF TokenMismatch, Return, BeforeCommit, disk, line, call
  <2>5. CASE RollbackRefused
    BY <2>5 DEF RollbackRefused, Return, BeforeCommit, disk, line, call
  <2>6. CASE RollbackLockRefused
    BY <2>6 DEF RollbackLockRefused, Return, BeforeCommit, disk, line, call
  <2>7. QED  BY <2>1, <2>2, <2>3, <2>4, <2>5, <2>6
<1>2. /\ lib'.kind \in {"result", "error"} /\ lib'.changed = FALSE /\ lib'.tokens = {}
      /\ lib'.error \in {0, EXIT_SAFETY_REFUSED, EXIT_STALE_OR_SCHEMA, EXIT_ARTIFACT, EXIT_SQLITE}
  <2>1. CASE lib' = Result(FALSE, {})
    BY <2>1 DEF Result
  <2>2. CASE \E r : lib' = Refused(r)
    BY <2>2, RefusalIsError
  <2>3. QED  BY <1>1, <2>1, <2>2
<1>3. stage # "ended" /\ mutated = FALSE
  BY <1>1 DEF CommandInv, CommandTypes, StagesInOrder, BeforeCommit
<1>4. HandlerKnows'  BY <1>1, <1>2, <1>3 DEF HandlerKnows
<1>5. /\ sealed \in Nat /\ trigger \in BOOLEAN /\ record \in BOOLEAN /\ mutated \in BOOLEAN
      /\ manifest.status \in {"none", "prepared", "applied", "rolled_back"}
      /\ manifest.token \in 0..sealed
      /\ (manifest.token = 0) <=> (manifest.status = "none")
      /\ held[1] \in 0..sealed /\ held[2] \in 0..sealed
  BY DEF CommandInv, CommandTypes, TypeOK
<1>6. sealed' \in Nat /\ sealed' >= sealed  BY <1>1, <1>5
<1>7. QED  BY <1>1, <1>2, <1>3, <1>4, <1>5, <1>6, HandsOver

\* The ranges of disk and call, and what holds of every stage of a call.
LEMMA CallRanges ==
  ASSUME CommandInv
  PROVE  /\ sealed \in Nat /\ trigger \in BOOLEAN /\ record \in BOOLEAN /\ mutated \in BOOLEAN
         /\ manifest.status \in {"none", "prepared", "applied", "rolled_back"}
         /\ manifest.token \in 0..sealed
         /\ (manifest.token = 0) <=> (manifest.status = "none")
         /\ held[1] \in 0..sealed /\ held[2] \in 0..sealed
         /\ stage \in BeforeCommit => mutated = FALSE
         /\ stage \in AfterCommit => mutated = TRUE
BY DEF CommandInv, CommandTypes, TypeOK, StagesInOrder

\* The call goes on to another stage: the disk and the tokens in hand keep
\* their ranges, and the handler is not reached.
LEMMA StaysInCall ==
  ASSUME CommandInv, stage \in BeforeCommit \cup AfterCommit,
         UNCHANGED <<cmd, exit, told, confirm, repeats, lib>>,
         stage' \in BeforeCommit \cup AfterCommit,
         stage' \in BeforeCommit => mutated' = FALSE,
         stage' \in AfterCommit => mutated' = TRUE,
         trigger' \in BOOLEAN, record' \in BOOLEAN, sealed' \in Nat, sealed' >= sealed,
         manifest'.status \in {"none", "prepared", "applied", "rolled_back"},
         manifest'.token \in 0..(sealed'),
         (manifest'.token = 0) <=> (manifest'.status = "none"),
         held'[1] \in 0..(sealed'), held'[2] \in 0..(sealed'),
         TokenInHand'
  PROVE  CommandInv'
<1>1. CommandTypes'
  <2>1. mutated' \in BOOLEAN  BY DEF BeforeCommit, AfterCommit
  <2>2. TypeOK'  BY DEF CommandInv, CommandTypes, TypeOK
  <2>3. QED  BY <2>1, <2>2 DEF CommandInv, CommandTypes, Stages, BeforeCommit, AfterCommit
<1>2. stage # "ended" /\ stage' # "ended" /\ stage' # "handler"
  BY DEF BeforeCommit, AfterCommit
<1>3. StagesInOrder' /\ HandlerKnows'
  BY <1>2 DEF CommandInv, StagesInOrder, HandlerKnows
<1>4. QED  BY <1>1, <1>2, <1>3, CallGoesOn

\* The steps that take a command on within its library call.
LEMMA CallStep ==
  ASSUME CommandInv,
         \/ Prepare \/ ApplyCommits \/ SealApplied
         \/ RollbackGoesOn \/ RollbackCommits \/ SealRolledBack
  PROVE  CommandInv'
<1>1. CASE Prepare
  <2>1. manifest'.status = "prepared" /\ manifest'.token = sealed' /\ sealed' = sealed + 1
    BY <1>1, CallRanges, SealTakesToken DEF Prepare
  <2>2. held'[1] = sealed' /\ held'[2] = sealed'  BY <1>1 DEF Prepare
  <2>3. sealed' \in Nat /\ sealed' >= sealed /\ sealed' # 0 /\ sealed' \in 0..(sealed')
    BY <2>1, CallRanges
  <2>4. mutated' = FALSE /\ trigger' \in BOOLEAN /\ record' \in BOOLEAN
    BY <1>1, CallRanges DEF Prepare, To, BeforeCommit
  <2>5. stage = "ap_start" /\ stage' = "ap_prepared"
        /\ UNCHANGED <<cmd, exit, told, confirm, repeats, lib>>
    BY <1>1 DEF Prepare, To, line
  <2>6. TokenInHand'  BY <2>1, <2>2, <2>3, <2>5 DEF TokenInHand
  <2>7. QED  BY <2>1, <2>2, <2>3, <2>4, <2>5, <2>6, StaysInCall DEF BeforeCommit, AfterCommit
<1>2. CASE ApplyCommits \/ RollbackCommits
  <2>1. \/ stage = "ap_prepared" /\ stage' = "ap_committed"
        \/ stage = "rb_present" /\ stage' = "rb_committed"
    BY <1>2 DEF ApplyCommits, RollbackCommits, To
  <2>2. UNCHANGED <<cmd, exit, told, confirm, repeats, lib, manifest, record, sealed, held>>
        /\ trigger' \in BOOLEAN /\ mutated' = TRUE
    BY <1>2 DEF ApplyCommits, RollbackCommits, line
  <2>3. TokenInHand'  BY <2>1, <2>2 DEF CommandInv, TokenInHand
  <2>4. sealed' >= sealed  BY <2>2, CallRanges
  <2>5. QED  BY <2>1, <2>2, <2>3, <2>4, CallRanges, StaysInCall DEF BeforeCommit, AfterCommit
<1>3. CASE SealApplied \/ SealRolledBack
  <2>1. manifest'.status \in {"applied", "rolled_back"} /\ manifest'.token = sealed'
        /\ sealed' = sealed + 1
    BY <1>3, CallRanges, SealTakesToken DEF SealApplied, SealRolledBack
  <2>2. held'[1] = held[1] /\ held'[2] = sealed'  BY <1>3 DEF SealApplied, SealRolledBack
  <2>3. \/ stage = "ap_committed" /\ stage' = "ap_sealed"
        \/ stage = "rb_committed" /\ stage' = "rb_sealed"
    BY <1>3 DEF SealApplied, SealRolledBack, To
  <2>4. UNCHANGED <<cmd, exit, told, confirm, repeats, lib, record, trigger, mutated>>
    BY <1>3 DEF SealApplied, SealRolledBack, line
  <2>5. sealed' \in Nat /\ sealed' >= sealed /\ sealed' # 0 /\ sealed' \in 0..(sealed')
        /\ held'[1] \in 0..(sealed') /\ held'[1] # 0
    <3>1. held[1] = manifest.token /\ manifest.token # 0
      BY <2>3 DEF CommandInv, TokenInHand
    <3>2. QED  BY <2>1, <2>2, <3>1, CallRanges
  <2>6. TokenInHand'  BY <2>1, <2>2, <2>3, <2>5 DEF TokenInHand
  <2>7. mutated = TRUE  BY <2>3, CallRanges DEF AfterCommit
  <2>8. QED
    BY <2>1, <2>2, <2>3, <2>4, <2>5, <2>6, <2>7, CallRanges, StaysInCall
       DEF BeforeCommit, AfterCommit
<1>4. CASE RollbackGoesOn
  <2>1. stage = "rb_start" /\ stage' \in {"rb_present", "rb_absent"}
    BY <1>4 DEF RollbackGoesOn
  <2>2. UNCHANGED <<trigger, manifest, record, sealed, cmd, exit, told, confirm, repeats, lib,
                    held, mutated>>
    BY <1>4 DEF RollbackGoesOn, disk, line, call
  <2>3. TokenInHand'  BY <2>1, <2>2 DEF CommandInv, TokenInHand
  <2>4. sealed' >= sealed /\ mutated = FALSE
    BY <2>1, <2>2, CallRanges DEF BeforeCommit
  <2>5. QED  BY <2>1, <2>2, <2>3, <2>4, CallRanges, StaysInCall DEF BeforeCommit, AfterCommit
<1>5. QED  BY <1>1, <1>2, <1>3, <1>4

\* The steps that end the call well, and those that end it before its COMMIT
\* with an error of a seal.
LEMMA CallEndsStep ==
  ASSUME CommandInv,
         Applied \/ WriteRecord \/ PrepareRaises \/ SealAbsent \/ SealAbsentRaises
  PROVE  CommandInv'
<1>1. CASE Applied \/ WriteRecord
  <2>1. stage \in {"ap_sealed", "rb_sealed"} /\ stage' = "handler"
        /\ lib' = Result(TRUE, {held[2]})
    BY <1>1 DEF Applied, WriteRecord, Return
  <2>2. UNCHANGED <<trigger, manifest, sealed, cmd, confirm, repeats, held, mutated, told, exit>>
        /\ record' \in BOOLEAN
    BY <1>1, CallRanges DEF Applied, WriteRecord, disk, line, call
  <2>3. held[2] = manifest.token /\ manifest.token # 0 /\ mutated = TRUE
    BY <2>1, CallRanges DEF CommandInv, TokenInHand, AfterCommit
  <2>4. lib'.kind = "result" /\ lib'.changed = TRUE /\ lib'.tokens = {manifest.token}
        /\ lib'.error = 0
    BY <2>1, <2>3 DEF Result
  <2>5. sealed' \in Nat /\ sealed' >= sealed /\ lib'.tokens \subseteq 1..(sealed')
    BY <2>2, <2>3, <2>4, CallRanges
  <2>6. HandlerKnows'  BY <2>2, <2>3, <2>4 DEF HandlerKnows
  <2>7. QED  BY <2>1, <2>2, <2>4, <2>5, <2>6, CallRanges, HandsOver
<1>2. CASE PrepareRaises \/ SealAbsent \/ SealAbsentRaises
  <2>1. stage \in BeforeCommit /\ stage # "ended" /\ stage' = "handler"
    BY <1>2 DEF PrepareRaises, SealAbsent, SealAbsentRaises, Return, BeforeCommit
  <2>2. lib' \in {Error(EXIT_ARTIFACT), Result(FALSE, {})}
    BY <1>2 DEF PrepareRaises, SealAbsent, SealAbsentRaises, Return
  <2>3. lib'.kind \in {"result", "error"} /\ lib'.changed = FALSE /\ lib'.tokens = {}
        /\ lib'.error \in {0, EXIT_ARTIFACT}
    BY <2>2 DEF Error, Result
  <2>4. UNCHANGED <<trigger, record, cmd, confirm, repeats, held, mutated, told, exit>>
    BY <1>2 DEF PrepareRaises, SealAbsent, SealAbsentRaises, line, call
  <2>5. mutated = FALSE  BY <2>1, CallRanges
  <2>6. sealed' = sealed + 1
        /\ \/ manifest' = manifest
           \/ manifest'.status \in {"prepared", "rolled_back"} /\ manifest'.token = sealed'
    BY <1>2, CallRanges, SealTakesToken, RaisingSeal
       DEF PrepareRaises, SealAbsent, SealAbsentRaises
  <2>7. /\ sealed' \in Nat /\ sealed' >= sealed
        /\ manifest'.status \in {"none", "prepared", "applied", "rolled_back"}
        /\ manifest'.token \in 0..(sealed')
        /\ (manifest'.token = 0) <=> (manifest'.status = "none")
        /\ held'[1] \in 0..(sealed') /\ held'[2] \in 0..(sealed')
    BY <2>4, <2>6, CallRanges
  <2>8. HandlerKnows'  BY <2>3, <2>4, <2>5 DEF HandlerKnows
  <2>9. QED  BY <2>1, <2>3, <2>4, <2>7, <2>8, CallRanges, HandsOver
<1>3. QED  BY <1>1, <1>2

\* The steps that end a call in recovery without a seal: COMMIT raises, or
\* something does after it.
LEMMA RecoveryStep ==
  ASSUME CommandInv,
         \/ ApplyCommitRaises \/ RollbackCommitRaises
         \/ ApplyLateFailure \/ RollbackLateFailure \/ WriteRecordRaises
  PROVE  CommandInv'
<1>1. CASE ApplyCommitRaises \/ RollbackCommitRaises
  <2>1. PICK from \in {"ap_prepared", "rb_present"}, effect \in BOOLEAN : CommitRaises(from, effect)
    BY <1>1 DEF ApplyCommitRaises, RollbackCommitRaises
  <2>2. stage \in BeforeCommit /\ stage # "ended"  BY <2>1 DEF CommitRaises, BeforeCommit
  <2>3. mutated = FALSE  BY <2>2, CallRanges
  <2>4. UNCHANGED <<manifest, record, sealed, cmd, confirm, repeats, held, told, exit>>
        /\ trigger' \in BOOLEAN /\ mutated' \in BOOLEAN
    BY <2>1, <2>3, CallRanges DEF CommitRaises, line
  <2>5. held[1] = manifest.token /\ held[2] = manifest.token /\ manifest.token # 0
    BY <2>1 DEF CommitRaises, CommandInv, TokenInHand
  <2>6. sealed' \in Nat /\ sealed' >= sealed
        /\ held[1] \in 1..(sealed') /\ held[2] \in 1..(sealed')
        /\ manifest'.token \in {held[1], held[2]}
    BY <2>4, <2>5, CallRanges
  <2>7. CASE ~mutated' /\ Return(Refused("refused_lock"))
    <3>1. stage' = "handler" /\ lib' = Refused("refused_lock")  BY <2>7 DEF Return
    <3>2. lib'.kind = "error" /\ lib'.changed = FALSE /\ lib'.tokens = {}
          /\ lib'.error
               \in {EXIT_SAFETY_REFUSED, EXIT_STALE_OR_SCHEMA, EXIT_ARTIFACT, EXIT_SQLITE}
      BY <3>1, RefusalIsError
    <3>3. HandlerKnows'  BY <2>7, <3>2 DEF HandlerKnows
    <3>4. QED  BY <2>2, <2>4, <2>6, <3>1, <3>2, <3>3, CallRanges, HandsOver
  <2>8. ASSUME NEW ambiguous \in BOOLEAN, EndInRecovery(ambiguous, held),
               mutated' \/ ambiguous
        PROVE  CommandInv'
    <3>1. /\ stage' = "handler" /\ lib'.kind = "recovery" /\ lib'.changed = TRUE
          /\ lib'.ambiguous = ambiguous /\ lib'.error = 0
          /\ lib'.tokens \subseteq 1..(sealed') /\ manifest'.token \in lib'.tokens
      BY <2>6, <2>8, RecoveryKnows
    <3>2. HandlerKnows'  BY <2>8, <3>1 DEF HandlerKnows
    <3>3. QED  BY <2>2, <2>4, <2>6, <3>1, <3>2, CallRanges, HandsOver
  <2>9. \/ ~mutated' /\ Return(Refused("refused_lock"))
        \/ mutated' /\ EndInRecovery(FALSE, held)
        \/ EndInRecovery(TRUE, held)
    BY <2>1 DEF CommitRaises
  <2>10. QED  BY <2>7, <2>8, <2>9
<1>2. CASE ApplyLateFailure \/ RollbackLateFailure \/ WriteRecordRaises
  <2>1. stage \in AfterCommit /\ stage # "ended"
    BY <1>2 DEF ApplyLateFailure, RollbackLateFailure, WriteRecordRaises, AfterCommit
  <2>2. mutated = TRUE  BY <2>1, CallRanges
  <2>3. UNCHANGED <<trigger, manifest, sealed, cmd, confirm, repeats, held, mutated, told, exit>>
        /\ record' \in BOOLEAN /\ EndInRecovery(FALSE, held)
    BY <1>2, CallRanges
       DEF ApplyLateFailure, RollbackLateFailure, WriteRecordRaises, disk, line, call
  <2>4. held[1] # 0 /\ held[2] # 0 /\ manifest.token = held[2]
    BY <2>1 DEF CommandInv, TokenInHand, AfterCommit
  <2>5. sealed' \in Nat /\ sealed' >= sealed
        /\ held[1] \in 1..(sealed') /\ held[2] \in 1..(sealed')
        /\ manifest'.token \in {held[1], held[2]}
    BY <2>3, <2>4, CallRanges
  <2>6. /\ stage' = "handler" /\ lib'.kind = "recovery" /\ lib'.changed = TRUE /\ lib'.error = 0
        /\ lib'.tokens \subseteq 1..(sealed') /\ manifest'.token \in lib'.tokens
    BY <2>3, <2>5, RecoveryKnows
  <2>7. HandlerKnows'  BY <2>2, <2>3, <2>6 DEF HandlerKnows
  <2>8. QED  BY <2>1, <2>2, <2>3, <2>5, <2>6, <2>7, CallRanges, HandsOver
<1>3. QED  BY <1>1, <1>2

\* A seal after COMMIT raises, its document left behind or not: what is then
\* offered are the manifest's token, or both that the call has in hand.
LEMMA SealRaisesStep ==
  ASSUME CommandInv, SealAppliedRaises \/ SealRolledBackRaises
  PROVE  CommandInv'
<1>1. stage \in {"ap_committed", "rb_committed"} /\ held' = <<held[1], sealed'>>
  BY DEF SealAppliedRaises, SealRolledBackRaises
<1>2. PICK status \in {"applied", "rolled_back"} : SealRaises(status)
  BY DEF SealAppliedRaises, SealRolledBackRaises
<1>3. /\ sealed' = sealed + 1
      /\ \/ manifest' = manifest
         \/ manifest'.status = status /\ manifest'.token = sealed'
  BY <1>2, CallRanges, RaisingSeal
<1>4. UNCHANGED <<trigger, record, cmd, confirm, repeats, mutated, told, exit>>
  BY DEF SealAppliedRaises, SealRolledBackRaises, line
<1>5. held[1] = manifest.token /\ manifest.token # 0 /\ mutated = TRUE /\ stage # "ended"
  BY <1>1, CallRanges DEF CommandInv, TokenInHand, AfterCommit
<1>6. /\ sealed' \in Nat /\ sealed' >= sealed
      /\ held'[1] \in 1..(sealed') /\ held'[2] \in 1..(sealed')
      /\ manifest'.token \in {held'[1], held'[2]}
      /\ manifest'.status \in {"none", "prepared", "applied", "rolled_back"}
      /\ manifest'.token \in 0..(sealed')
      /\ (manifest'.token = 0) <=> (manifest'.status = "none")
  BY <1>1, <1>3, <1>5, CallRanges
<1>7. /\ stage' = "handler" /\ lib'.kind = "recovery" /\ lib'.changed = TRUE /\ lib'.error = 0
      /\ lib'.tokens \subseteq 1..(sealed') /\ manifest'.token \in lib'.tokens
  <2>1. EndInRecovery(FALSE, held')  BY DEF SealAppliedRaises, SealRolledBackRaises
  <2>2. QED  BY <1>6, <2>1, RecoveryKnows
<1>8. HandlerKnows'  BY <1>4, <1>5, <1>7 DEF HandlerKnows
<1>9. trigger' \in BOOLEAN /\ record' \in BOOLEAN /\ mutated' \in BOOLEAN
  BY <1>4, CallRanges
<1>10. held'[1] \in 0..(sealed') /\ held'[2] \in 0..(sealed')
  BY <1>6
<1>11. UNCHANGED <<cmd, exit, told, confirm, repeats>>
  BY <1>4
<1>12. QED  BY <1>5, <1>6, <1>7, <1>8, <1>9, <1>10, <1>11, HandsOver

\* The process ends, and what it has shown and its exit code are in order.
LEMMA EndsInOrder ==
  ASSUME CommandInv, stage # "ended", stage' = "ended",
         UNCHANGED <<disk, line, call, lib>>,
         told' \subseteq 1..sealed, exit' \in Codes, MutationIsTold', NineMeansCommitted'
  PROVE  CommandInv'
<1>1. CommandTypes'
  BY DEF CommandInv, CommandTypes, TypeOK, Stages, disk, line, call
<1>2. StagesInOrder' /\ TokenInHand' /\ HandlerKnows'
  BY DEF CommandInv, StagesInOrder, TokenInHand, HandlerKnows, BeforeCommit, AfterCommit,
         disk, line, call
<1>3. QED  BY <1>1, <1>2 DEF CommandInv

\* The endings: the result is emitted, or not, or is interrupted; a recovery
\* is told; the error is; or the process is killed.
LEMMA EndingStep ==
  ASSUME CommandInv,
         \/ EmitsResult \/ OutputFails \/ OutputInterrupted \/ EmitsRecovery
         \/ RecoveryInterrupted \/ Fails \/ Kill
  PROVE  CommandInv'
<1> USE DEF Ends
<1>1. UNCHANGED <<disk, line, call, lib>> /\ stage # "ended" /\ stage' = "ended"
  <2>1. CASE EmitsResult \/ OutputInterrupted \/ EmitsRecovery \/ RecoveryInterrupted \/ Fails
             \/ Kill
    BY <2>1 DEF EmitsResult, OutputInterrupted, EmitsRecovery, RecoveryInterrupted, Fails, Kill
  <2>2. CASE OutputFails
    BY <2>2 DEF OutputFails, AfterOutputFailure
  <2>3. QED  BY <2>1, <2>2
<1>2. /\ told \subseteq 1..sealed /\ lib.tokens \subseteq 1..sealed
      /\ lib.error \in {0, EXIT_SAFETY_REFUSED, EXIT_STALE_OR_SCHEMA, EXIT_ARTIFACT, EXIT_SQLITE}
      /\ lib.changed \in BOOLEAN /\ cmd \in {"apply", "rollback"}
  BY <1>1 DEF CommandInv, CommandTypes, TypeOK, StagesInOrder
<1>3. manifest' = manifest /\ mutated' = mutated /\ lib' = lib /\ cmd' = cmd
  BY <1>1 DEF disk, call, line
<1>4. told' \in {told, lib.tokens, {}}
  BY DEF EmitsResult, OutputFails, AfterOutputFailure, OutputInterrupted, EmitsRecovery,
         RecoveryInterrupted, Fails, Kill
<1>5. told' \subseteq 1..sealed  BY <1>2, <1>4
<1> USE DEF Codes, Running, Killed, Uncaught, Interrupted, EXIT_OK, EXIT_NOT_FOUND,
            EXIT_SAFETY_REFUSED, EXIT_STALE_OR_SCHEMA, EXIT_ARTIFACT, EXIT_SQLITE,
            EXIT_RECOVERY_REQUIRED
<1>6. CASE EmitsResult
  <2>1. exit' = EXIT_OK /\ (cmd = "apply" => told' = lib.tokens)
    BY <1>6 DEF EmitsResult
  <2>2. mutated => manifest.token \in lib.tokens
    BY <1>6 DEF EmitsResult, CommandInv, HandlerKnows
  <2>3. MutationIsTold' /\ NineMeansCommitted'
    BY <1>2, <1>3, <2>1, <2>2 DEF MutationIsTold, NineMeansCommitted
  <2>4. QED  BY <1>1, <1>5, <2>1, <2>3, EndsInOrder
<1>7. CASE OutputFails
  <2>1. PICK printed \in BOOLEAN : AfterOutputFailure(printed)
    BY <1>7 DEF OutputFails
  <2>2. mutated => lib.changed /\ manifest.token \in lib.tokens
    BY <1>7 DEF OutputFails, CommandInv, HandlerKnows
  <2>3. lib.changed => mutated
    BY <1>7 DEF OutputFails, CommandInv, HandlerKnows
  <2>4. \/ exit' = EXIT_ARTIFACT /\ ~lib.changed
        \/ exit' = EXIT_RECOVERY_REQUIRED /\ lib.changed /\ told' = lib.tokens
        \/ exit' = Uncaught
    BY <2>1 DEF AfterOutputFailure
  <2>5. MutationIsTold' /\ NineMeansCommitted'
    BY <1>3, <2>2, <2>3, <2>4 DEF MutationIsTold, NineMeansCommitted
  <2>6. QED  BY <1>1, <1>5, <2>4, <2>5, EndsInOrder
<1>8. CASE OutputInterrupted
  <2>1. exit' = Interrupted /\ (lib.changed => told' = lib.tokens)
    BY <1>8 DEF OutputInterrupted
  <2>2. mutated => lib.changed /\ manifest.token \in lib.tokens
    BY <1>8 DEF OutputInterrupted, CommandInv, HandlerKnows
  <2>3. MutationIsTold' /\ NineMeansCommitted'
    BY <1>3, <2>1, <2>2 DEF MutationIsTold, NineMeansCommitted
  <2>4. QED  BY <1>1, <1>5, <2>1, <2>3, EndsInOrder
<1>9. CASE EmitsRecovery \/ RecoveryInterrupted
  <2>1. \/ exit' \in {EXIT_RECOVERY_REQUIRED, Interrupted} /\ told' = lib.tokens
        \/ exit' = Uncaught
    BY <1>9 DEF EmitsRecovery, RecoveryInterrupted
  <2>2. /\ mutated => manifest.token \in lib.tokens
        /\ mutated \/ lib.ambiguous
    BY <1>9 DEF EmitsRecovery, RecoveryInterrupted, CommandInv, HandlerKnows
  <2>3. MutationIsTold' /\ NineMeansCommitted'
    BY <1>3, <2>1, <2>2 DEF MutationIsTold, NineMeansCommitted
  <2>4. QED  BY <1>1, <1>5, <2>1, <2>3, EndsInOrder
<1>10. CASE Fails
  <2>1. exit' = lib.error  BY <1>10 DEF Fails
  <2>2. ~mutated  BY <1>10 DEF Fails, CommandInv, HandlerKnows
  <2>3. MutationIsTold' /\ NineMeansCommitted'
    BY <1>2, <1>3, <2>1, <2>2 DEF MutationIsTold, NineMeansCommitted
  <2>4. exit' \in Codes  BY <1>2, <2>1
  <2>5. QED  BY <1>1, <1>5, <2>3, <2>4, EndsInOrder
<1>11. CASE Kill
  <2>1. exit' = Killed  BY <1>11 DEF Kill
  <2>2. MutationIsTold' /\ NineMeansCommitted'
    BY <2>1 DEF MutationIsTold, NineMeansCommitted
  <2>3. QED  BY <1>1, <1>5, <2>1, <2>2, EndsInOrder
<1>12. QED  BY <1>6, <1>7, <1>8, <1>9, <1>10, <1>11

-----------------------------------------------------------------------------
(* The theorems *)

\* Every step of either command, and of the operator, keeps the invariant.
LEMMA CommandStep == CommandInv /\ [Next]_vars => CommandInv'
<1> SUFFICES ASSUME CommandInv, [Next]_vars PROVE CommandInv'
  OBVIOUS
<1>1. CASE UNCHANGED vars
  BY <1>1 DEF vars, disk, line, call, CommandInv, CommandTypes, TypeOK, StagesInOrder,
              TokenInHand, HandlerKnows, MutationIsTold, NineMeansCommitted
<1>2. CASE Progress
  BY <1>2, StartStep, RefusalStep, CallStep, CallEndsStep, EndingStep DEF Progress
<1>3. CASE Failures
  BY <1>3, RefusalStep, CallEndsStep, RecoveryStep, SealRaisesStep, EndingStep DEF Failures
<1>4. QED  BY <1>1, <1>2, <1>3 DEF Next

\* The invariant of the commands, whatever fails and however often the operator
\* repeats: while a call runs it has the manifest's token in hand, and what the
\* handler is given says whether the command committed.
THEOREM CommandInvariance == Spec => []CommandInv
<1>1. Init => CommandInv  BY InitCommand
<1>2. CommandInv /\ [Next]_vars => CommandInv'  BY CommandStep
<1>3. QED  BY <1>1, <1>2, PTL DEF Spec

\* The manifest's tokens are of those taken, and the exit codes are those that
\* cli.py names or a process ends with.
THEOREM CommandTypeOK == Spec => []TypeOK
<1>1. CommandInv => TypeOK  BY DEF CommandInv, CommandTypes
<1>2. QED  BY <1>1, CommandInvariance, PTL

\* A command whose COMMIT became durable ends with 0, 9 or the interrupt, and
\* unless it is a finished rollback it has shown the token that the manifest
\* now has, whichever step after COMMIT failed; only a kill or a dead standard
\* error ends it silently.
THEOREM CommitIsTold == Spec => []MutationIsTold
<1>1. CommandInv => MutationIsTold  BY DEF CommandInv
<1>2. QED  BY <1>1, CommandInvariance, PTL

\* Exit code 9 never ends a command that did not commit, unless COMMIT raised
\* and nothing could be seen of the database afterwards.
THEOREM NineIsCommitted == Spec => []NineMeansCommitted
<1>1. CommandInv => NineMeansCommitted  BY DEF CommandInv
<1>2. QED  BY <1>1, CommandInvariance, PTL
=============================================================================

-------------------------- MODULE AtomicWriteProofs --------------------------
(***************************************************************************)
(* writeFormatted implements one atomic replacement, for any contents and  *)
(* any number of saves by other programs.                                  *)
(***************************************************************************)
EXTENDS AtomicWrite, TLAPS

\* The target names its inode or the temporary file's, the latter only once it
\* is complete and on the medium.
TargetInv ==
    /\ dir["target"] \in {"orig", "tmp"}
    /\ settledDir["target"] \in {"orig", "tmp"}
    /\ (pc \in Calls \/ result = "error") =>
          dir["target"] = "orig" /\ settledDir["target"] = "orig"
    /\ pc \in Calls => replaced = Absent
    /\ pc \in Calls \ {"remove"} => result = "none"

ContentInv ==
    /\ cached["orig"] \in Shown
    /\ durable["orig"] \in Shown
    /\ pc \in {"sync", "close", "chmod", "rename"} => cached["tmp"] = New
    /\ pc \in {"close", "chmod", "rename"} => durable["tmp"] = New
    /\ (dir["target"] = "tmp" \/ settledDir["target"] = "tmp") =>
          cached["tmp"] \in Shown /\ durable["tmp"] \in Shown

ModeInv ==
    /\ mode["orig"] = "file"
    /\ pc \in Calls \ {"format", "stat", "remove"} => origMode = "file"
    /\ pc = "rename" => mode["tmp"] = "file"
    /\ (dir["target"] = "tmp" \/ settledDir["target"] = "tmp") => mode["tmp"] = "file"

ReplaceInv == TypeOK /\ TargetInv /\ ContentInv /\ ModeInv

LEMMA InitReplace == Init => ReplaceInv
<1> SUFFICES ASSUME Init PROVE ReplaceInv
  OBVIOUS
<1>1. PICK earlier \in {Absent, Older} :
        /\ dir = [n \in Name |-> CASE n = "target" -> "orig"
                                   [] n = "backup" /\ earlier # Absent -> "bak"
                                   [] OTHER -> Absent]
        /\ cached = [i \in Inode |-> CASE i = "orig" -> Original
                                       [] i = "bak" -> earlier
                                       [] OTHER -> Absent]
  BY DEF Init
<1>2. /\ dir \in [Name -> Inode \cup {Absent}]
      /\ dir["target"] = "orig"
  BY <1>1 DEF Name, Inode
<1>3. /\ cached \in [Inode -> Content]
      /\ cached["orig"] = Original
  BY <1>1 DEF Inode, Content
<1>4. mode \in [Inode -> Modes] /\ mode["orig"] = "file"
  BY DEF Init, Inode, Modes
<1>5. /\ pc = "format" /\ wantBackup \in BOOLEAN /\ result = "none" /\ orig = Absent
      /\ origMode = "private" /\ settledDir = dir /\ durable = cached
      /\ edits = 0 /\ replaced = Absent /\ raced = FALSE
  BY DEF Init
<1>6. TypeOK
  <2>1. edits \in 0 .. MaxEdits
    BY <1>5, MaxEditsAssumption
  <2>2. /\ pc \in Calls \cup {"done", "dead", "off"}
        /\ result \in {"none", "ok", "error"}
        /\ orig \in Content /\ replaced \in Content
        /\ origMode \in Modes
    BY <1>5 DEF Calls, Content, Modes
  <2>3. wantBackup \in BOOLEAN /\ raced \in BOOLEAN
    BY <1>5, Zenon
  <2> QED BY <1>2, <1>3, <1>4, <1>5, <2>1, <2>2, <2>3, Zenon DEF TypeOK
<1>7. TargetInv
  BY <1>2, <1>5 DEF TargetInv
<1>8. ContentInv
  BY <1>2, <1>3, <1>5 DEF ContentInv, Shown
<1>9. ModeInv
  BY <1>2, <1>4, <1>5 DEF ModeInv
<1> QED BY <1>6, <1>7, <1>8, <1>9 DEF ReplaceInv

LEMMA StepReplace == ReplaceInv /\ [Next]_vars => ReplaceInv'
<1> SUFFICES ASSUME ReplaceInv, [Next]_vars PROVE ReplaceInv'
  OBVIOUS
<1> USE DEF ReplaceInv, TargetInv, ContentInv, ModeInv, Shown, TypeOK, Calls, Modes,
            Name, Inode, Content, Call, FailedCall, FailedCallOnTemp, Return,
            fs, locals, history
<1>1. CASE Format
  BY <1>1 DEF Format
<1>2. CASE Stat
  BY <1>2 DEF Stat
<1>3. CASE ReadForBackup
  BY <1>3 DEF ReadForBackup
<1>4. CASE OpenBackup
  BY <1>4 DEF OpenBackup
<1>5. CASE WriteBackup
  BY <1>5 DEF WriteBackup
<1>6. CASE CreateTemp
  BY <1>6 DEF CreateTemp
<1>7. CASE WriteTemp
  BY <1>7 DEF WriteTemp
<1>8. CASE Sync
  BY <1>8 DEF Sync
<1>9. CASE Close
  BY <1>9 DEF Close
<1>10. CASE Chmod
  BY <1>10 DEF Chmod
<1>11. CASE Rename
  BY <1>11, ContentsDiffer DEF Rename
<1>12. CASE Remove
  BY <1>12 DEF Remove
<1>13. CASE Edit
  BY <1>13, MaxEditsAssumption DEF Edit
<1>14. ASSUME NEW i \in Inode, FlushInode(i) PROVE ReplaceInv'
  BY <1>14 DEF FlushInode
<1>15. CASE FlushDir
  BY <1>15 DEF FlushDir
<1>16. CASE Kill
  BY <1>16 DEF Kill
<1>17. CASE PowerFailure
  BY <1>17 DEF PowerFailure
<1>18. CASE UNCHANGED vars
  BY <1>18 DEF vars
<1> QED
  BY <1>1, <1>2, <1>3, <1>4, <1>5, <1>6, <1>7, <1>8, <1>9, <1>10, <1>11, <1>12,
     <1>13, <1>14, <1>15, <1>16, <1>17, <1>18
     DEF Next, Step, Environment

LEMMA Replacing == Spec => []ReplaceInv
<1>1. Init => ReplaceInv
  BY InitReplace
<1>2. ReplaceInv /\ [Next]_vars => ReplaceInv'
  BY StepReplace
<1> QED BY <1>1, <1>2, PTL DEF Spec

\* A reader of the path never finds, nor would find after a power failure, a
\* file that is not whole, whichever calls of writeAtomicWithMode fail.
THEOREM TargetStaysWhole == Spec => []TargetIsWhole
<1>1. ReplaceInv => TargetIsWhole
  BY ContentsDiffer DEF ReplaceInv, TargetInv, ContentInv, Shown, TargetIsWhole
<1> QED BY <1>1, Replacing, PTL

\* The path always names a file with the mode of the one it named first.
THEOREM ModeStays == Spec => []ModeIsKept
<1>1. ReplaceInv => ModeIsKept
  BY DEF ReplaceInv, TargetInv, ModeInv, ModeIsKept
<1> QED BY <1>1, Replacing, PTL

\* An error of writeFormatted means that the path names the file it named.
THEOREM ErrorsAreHarmless == Spec => []ErrorLeavesTarget
<1>1. ReplaceInv => ErrorLeavesTarget
  BY DEF ReplaceInv, TargetInv, ErrorLeavesTarget
<1> QED BY <1>1, Replacing, PTL

\* The variables keep their types: only the three inodes are ever named, and
\* only the contents and modes they can have.
THEOREM TypeCorrect == Spec => []TypeOK
<1>1. ReplaceInv => TypeOK
  BY DEF ReplaceInv
<1> QED BY <1>1, Replacing, PTL

-----------------------------------------------------------------------------
(* The backup and the temporary file *)

\* What was read for the backup is the content of the target for as long as no
\* other program saves, and once written the backup holds it.
BackupInv ==
    /\ pc \in {"format", "stat", "read"} => orig = Absent
    /\ pc \in {"read", "open", "copy"} => wantBackup
    /\ pc \in {"open", "copy"} => orig # Absent /\ (raced \/ orig = cached["orig"])
    /\ pc = "copy" => dir["backup"] = "bak"
    /\ (wantBackup /\ pc \in {"create", "write", "sync", "close", "chmod", "rename"}) =>
          /\ dir["backup"] = "bak"
          /\ cached["bak"] = orig /\ orig # Absent
          /\ raced \/ orig = cached["orig"]

\* A successful call returned at the rename, which took the temporary name.
LitterInv ==
    result = "ok" => pc \in {"done", "off"} /\ (pc = "done" => dir["temp"] = Absent)

KeepInv == ReplaceInv /\ BackupInv /\ BackupHoldsReplaced /\ LitterInv

LEMMA InitKeep == Init => KeepInv
<1> SUFFICES ASSUME Init PROVE KeepInv
  OBVIOUS
<1>1. pc = "format" /\ orig = Absent /\ replaced = Absent /\ result = "none"
  BY DEF Init
<1> QED
  BY <1>1, InitReplace DEF KeepInv, BackupInv, BackupHoldsReplaced, LitterInv

LEMMA StepKeep == KeepInv /\ [Next]_vars => KeepInv'
<1> SUFFICES ASSUME KeepInv, [Next]_vars PROVE KeepInv'
  OBVIOUS
<1>0. ReplaceInv'
  BY StepReplace DEF KeepInv
<1> USE <1>0 DEF KeepInv, ReplaceInv, BackupInv, BackupHoldsReplaced, LitterInv,
            TargetInv, TypeOK, Calls, Name, Inode, Call, FailedCall, FailedCallOnTemp,
            Return, fs, locals, history
<1>1. CASE Format
  BY <1>1 DEF Format
<1>2. CASE Stat
  BY <1>2 DEF Stat
<1>3. CASE ReadForBackup
  BY <1>3, ContentsDiffer DEF ReadForBackup, ContentInv, Shown
<1>4. CASE OpenBackup
  BY <1>4 DEF OpenBackup
<1>5. CASE WriteBackup
  BY <1>5 DEF WriteBackup
<1>6. CASE CreateTemp
  BY <1>6 DEF CreateTemp
<1>7. CASE WriteTemp
  BY <1>7 DEF WriteTemp
<1>8. CASE Sync
  BY <1>8 DEF Sync
<1>9. CASE Close
  BY <1>9 DEF Close
<1>10. CASE Chmod
  BY <1>10 DEF Chmod
<1>11. CASE Rename
  BY <1>11 DEF Rename
<1>12. CASE Remove
  BY <1>12 DEF Remove
<1>13. CASE Edit
  BY <1>13 DEF Edit
<1>14. ASSUME NEW i \in Inode, FlushInode(i) PROVE KeepInv'
  BY <1>14 DEF FlushInode
<1>15. CASE FlushDir
  BY <1>15 DEF FlushDir
<1>16. CASE Kill
  BY <1>16 DEF Kill
<1>17. CASE PowerFailure
  BY <1>17 DEF PowerFailure
<1>18. CASE UNCHANGED vars
  BY <1>18 DEF vars
<1> QED
  BY <1>1, <1>2, <1>3, <1>4, <1>5, <1>6, <1>7, <1>8, <1>9, <1>10, <1>11, <1>12,
     <1>13, <1>14, <1>15, <1>16, <1>17, <1>18
     DEF Next, Step, Environment

LEMMA Keeping == Spec => []KeepInv
<1>1. Init => KeepInv
  BY InitKeep
<1>2. KeepInv /\ [Next]_vars => KeepInv'
  BY StepKeep
<1> QED BY <1>1, <1>2, PTL DEF Spec

\* With opts.Backup the file the rename replaced can be had back: the backup
\* holds its content, a kill at any call and an older backup notwithstanding.
THEOREM BackupIsWhatWasReplaced == Spec => []BackupHoldsReplaced
<1>1. KeepInv => BackupHoldsReplaced
  BY DEF KeepInv
<1> QED BY <1>1, Keeping, PTL

\* A writeAtomicWithMode that reports success has left no temporary file.
THEOREM SuccessLeavesNoLitter == Spec => []NoLitterOnSuccess
<1>1. KeepInv => NoLitterOnSuccess
  BY DEF KeepInv, LitterInv, NoLitterOnSuccess
<1> QED BY <1>1, Keeping, PTL

-----------------------------------------------------------------------------
(* Refinement *)

LEMMA InitRefines == Init => Replacement!Init
<1> SUFFICES ASSUME Init PROVE Replacement!Init
  OBVIOUS
<1>1. cached["orig"] = Original /\ dir["target"] = "orig"
  BY DEF Init, Name, Inode
<1> QED BY <1>1 DEF Init, Replacement!Init, Shown

LEMMA StepRefines ==
    ReplaceInv /\ ReplaceInv' /\ [Next]_vars => [Replacement!Next]_(Replacement!vars)
<1> SUFFICES ASSUME ReplaceInv, ReplaceInv', [Next]_vars
             PROVE  [Replacement!Next]_(Replacement!vars)
  OBVIOUS
<1> USE DEF Replacement!vars, Replacement!Next, Shown, fs, locals, history
\* A call before the rename changes nothing that the target names.
<1>1. ASSUME pc \in Calls, pc' # "off", dir'["target"] = dir["target"],
             UNCHANGED <<settledDir, history>>,
             cached'["orig"] = cached["orig"], durable'["orig"] = durable["orig"]
      PROVE  UNCHANGED Replacement!vars
  BY <1>1 DEF ReplaceInv, TargetInv
<1>2. CASE Format \/ Stat \/ ReadForBackup \/ OpenBackup \/ WriteBackup \/ CreateTemp
             \/ WriteTemp \/ Sync \/ Close \/ Chmod \/ Remove
  BY <1>2, <1>1
     DEF Format, Stat, ReadForBackup, OpenBackup, WriteBackup, CreateTemp, WriteTemp, Sync,
         Close, Chmod, Remove, Call, FailedCall, FailedCallOnTemp, Return, Calls,
         ReplaceInv, TypeOK, TargetInv, Name, Inode
<1>3. CASE Rename
  <2>1. CASE result' = "ok"
    <3>1. /\ cached' = cached /\ durable' = durable /\ settledDir' = settledDir
          /\ dir'["target"] = "tmp" /\ edits' = edits
          /\ replaced' = cached[dir["target"]] /\ pc = "rename"
      BY <1>3, <2>1
         DEF Rename, Return, FailedCallOnTemp, ReplaceInv, TypeOK, Name
    <3>2. replaced = Absent /\ replaced' # Absent
      BY <3>1, ContentsDiffer DEF ReplaceInv, TargetInv, ContentInv, Calls
    <3>3. cached["tmp"] = New
      BY <3>1 DEF ReplaceInv, ContentInv
    <3>4. Replacement!Replace
      BY <3>1, <3>2, <3>3, ContentsDiffer DEF Replacement!Replace, Replacement!Save
    <3> QED BY <3>4
  <2>2. CASE result' # "ok"
    BY <1>1, <1>3, <2>2 DEF Rename, Return, FailedCallOnTemp, Calls
  <2> QED BY <2>1, <2>2
<1>4. CASE Edit
  <2>1. /\ cached' = [cached EXCEPT ![dir["target"]] = Edited]
        /\ UNCHANGED <<dir, settledDir, durable, replaced>>
        /\ edits' > 0
    BY <1>4 DEF Edit, ReplaceInv, TypeOK
  <2>2. cached'[dir'["target"]] = Edited
    BY <2>1 DEF ReplaceInv, TypeOK, TargetInv, Inode
  <2>3. Replacement!Edit
    BY <2>1, <2>2 DEF Replacement!Edit, Replacement!Save
  <2> QED BY <2>3
<1>5. ASSUME NEW i \in Inode, FlushInode(i)
      PROVE  [Replacement!Next]_(Replacement!vars)
  <2>1. Replacement!Settle
    BY <1>5 DEF FlushInode, Replacement!Settle, ReplaceInv, ContentInv, TargetInv
  <2> QED BY <2>1
<1>6. CASE FlushDir
  <2>1. Replacement!Settle
    BY <1>6 DEF FlushDir, Replacement!Settle, ReplaceInv, ContentInv, TargetInv
  <2> QED BY <2>1
<1>7. CASE Kill
  BY <1>7 DEF Kill
<1>8. CASE PowerFailure
  <2>1. Replacement!PowerFailure
    BY <1>8 DEF PowerFailure, Replacement!PowerFailure
  <2> QED BY <2>1
<1>9. CASE UNCHANGED vars
  BY <1>9 DEF vars
<1> QED
  BY <1>2, <1>3, <1>4, <1>5, <1>6, <1>7, <1>8, <1>9 DEF Next, Step, Environment

\* The system calls of writeFormatted, with failures, kills, power failures and
\* other programs in between, implement AtomicReplace.
THEOREM Refines == Spec => ImplementsAtomicReplace
<1>1. Init => Replacement!Init
  BY InitRefines
<1>2. ReplaceInv /\ ReplaceInv' /\ [Next]_vars => [Replacement!Next]_(Replacement!vars)
  BY StepRefines
<1> QED
  BY <1>1, <1>2, Replacing, PTL DEF Spec, ImplementsAtomicReplace, Replacement!Spec

=============================================================================

----------------------------- MODULE AtomicWrite -----------------------------
(***************************************************************************)
(* writeFormatted and writeAtomicWithMode (fix.go:150-245), one action per *)
(* system call, each of which may fail, on a file system that loses at a   *)
(* power failure what was not flushed.  The process may be killed between  *)
(* any two calls, and another program may save the file meanwhile.         *)
(*                                                                         *)
(* The file system is external: names refer to inodes, an inode has the    *)
(* content readers see (cached) and the content on the medium (durable),   *)
(* and the directory on the medium (settledDir) lags behind dir in the     *)
(* same way.  Modes are metadata, flushed in order with the directory.     *)
(***************************************************************************)
EXTENDS Naturals

CONSTANTS
    Original,     \* the content of the file when it was parsed
    New,          \* its rewritten content
    Edited,       \* the content another program saves
    Older,        \* the content of a backup left by an earlier run
    Torn,         \* a write that was not completed
    Absent,       \* "no inode" and "no content"
    MaxEdits      \* bound on the saves of the other program

ASSUME ContentsDiffer ==
    /\ Original \notin {New, Torn, Absent}
    /\ New \notin {Torn, Absent}
    /\ Edited \notin {New, Torn, Absent}
    /\ Torn # Absent
    /\ Absent \notin {"orig", "bak", "tmp"}

ASSUME MaxEditsAssumption == MaxEdits \in Nat

Name  == {"target", "backup", "temp"}
Inode == {"orig", "bak", "tmp"}
Content == {Original, New, Edited, Older, Torn, Absent}

VARIABLES
    pc,          \* the call to make next
    wantBackup,  \* opts.Backup
    result,      \* what writeFormatted returned
    orig,        \* the bytes read for the backup
    origMode,    \* the mode statMode returned
    dir, settledDir,    \* name -> inode
    cached, durable,    \* inode -> content
    mode,               \* inode -> permission bits
    edits,
    replaced,    \* the content the rename replaced (history)
    raced        \* another program saved after the backup was read (history)

vars == <<pc, wantBackup, result, orig, origMode, dir, settledDir, cached,
          durable, mode, edits, replaced, raced>>

fs == <<dir, settledDir, cached, durable, mode>>
locals == <<wantBackup, orig, origMode>>
history == <<edits, replaced, raced>>

Calls == {"format", "stat", "read", "open", "copy", "create", "write", "sync",
          "close", "chmod", "rename", "remove"}

Modes == {"file", "private"}   \* the mode of the target, and 0o600

Init ==
    /\ pc = "format"
    /\ wantBackup \in BOOLEAN
    /\ result = "none"
    /\ orig = Absent
    /\ origMode = "private"
    /\ \E earlier \in {Absent, Older} :
         /\ dir = [n \in Name |-> CASE n = "target" -> "orig"
                                    [] n = "backup" /\ earlier # Absent -> "bak"
                                    [] OTHER -> Absent]
         /\ cached = [i \in Inode |-> CASE i = "orig" -> Original
                                        [] i = "bak" -> earlier
                                        [] OTHER -> Absent]
    /\ settledDir = dir
    /\ durable = cached
    /\ mode = [i \in Inode |-> IF i = "tmp" THEN "private" ELSE "file"]
    /\ edits = 0
    /\ replaced = Absent
    /\ raced = FALSE

Return(r) == pc' = "done" /\ result' = r

\* The next call when this one succeeds; when it fails, an early return.
Call(c, ok) ==
    /\ pc = c
    /\ pc' = ok
    /\ UNCHANGED result

FailedCall(c) ==
    /\ pc = c
    /\ Return("error")
    /\ UNCHANGED <<locals, fs, history>>

\* From CreateTemp on a failing call goes through cleanup().
FailedCallOnTemp(c) ==
    /\ pc = c
    /\ pc' = "remove"
    /\ result' = "error"
    /\ UNCHANGED <<locals, history>>

\* format.Source refuses source that does not parse.
Format ==
    \/ Call("format", "stat") /\ UNCHANGED <<locals, fs, history>>
    \/ FailedCall("format")

\* A missing target would get 0o644; production paths always have one.
Stat ==
    \/ /\ Call("stat", IF wantBackup THEN "read" ELSE "create")
       /\ origMode' = mode[dir["target"]]
       /\ UNCHANGED <<wantBackup, orig, fs, history>>
    \/ FailedCall("stat")

\* Mutant: what is remembered is the inode, not its content.
ReadForBackup_Name ==
    /\ Call("read", "open")
    /\ orig' = dir["target"]
    /\ UNCHANGED <<wantBackup, origMode, fs, history>>

ReadForBackup ==
    \/ /\ Call("read", "open")
       /\ orig' = cached[dir["target"]]
       /\ UNCHANGED <<wantBackup, origMode, fs, history>>
    \/ FailedCall("read")

\* Mutant: an earlier backup is kept.
OpenBackup_KeepExisting ==
    /\ Call("open", IF dir["backup"] = Absent THEN "copy" ELSE "create")
    /\ dir' = [dir EXCEPT !["backup"] = "bak"]
    /\ cached' = IF dir["backup"] = Absent THEN [cached EXCEPT !["bak"] = Torn] ELSE cached
    /\ UNCHANGED <<locals, settledDir, durable, mode, history>>

\* os.WriteFile: open with O_TRUNC, then write; nothing is flushed.
OpenBackup ==
    \/ /\ Call("open", "copy")
       /\ dir' = [dir EXCEPT !["backup"] = "bak"]
       /\ cached' = [cached EXCEPT !["bak"] = Torn]
       /\ UNCHANGED <<locals, settledDir, durable, mode, history>>
    \/ FailedCall("open")

WriteBackup ==
    \/ /\ Call("copy", "create")
       /\ cached' = [cached EXCEPT !["bak"] = orig]
       /\ UNCHANGED <<locals, dir, settledDir, durable, mode, history>>
    \/ FailedCall("copy")

CreateTemp ==
    \/ /\ Call("create", "write")
       /\ dir' = [dir EXCEPT !["temp"] = "tmp"]
       /\ cached' = [cached EXCEPT !["tmp"] = Torn]
       /\ durable' = [durable EXCEPT !["tmp"] = Torn]
       /\ UNCHANGED <<locals, settledDir, mode, history>>
    \/ FailedCall("create")

\* Mutant: the target itself is written.
WriteTemp_InPlace ==
    /\ Call("write", "sync")
    /\ cached' = [cached EXCEPT ![dir["target"]] = New]
    /\ UNCHANGED <<locals, dir, settledDir, durable, mode, history>>

WriteTemp ==
    \/ /\ Call("write", "sync")
       /\ cached' = [cached EXCEPT !["tmp"] = New]
       /\ UNCHANGED <<locals, dir, settledDir, durable, mode, history>>
    \/ FailedCallOnTemp("write") /\ UNCHANGED fs

\* Mutant: the temporary file is not flushed.
Sync_Skipped == Call("sync", "close") /\ UNCHANGED <<locals, fs, history>>

Sync ==
    \/ /\ Call("sync", "close")
       /\ durable' = [durable EXCEPT !["tmp"] = cached["tmp"]]
       /\ UNCHANGED <<locals, dir, settledDir, cached, mode, history>>
    \/ FailedCallOnTemp("sync") /\ UNCHANGED fs

Close ==
    \/ Call("close", "chmod") /\ UNCHANGED <<locals, fs, history>>
    \/ FailedCallOnTemp("close") /\ UNCHANGED fs

\* Mutant: the mode is not carried over.
Chmod_Skipped == Call("chmod", "rename") /\ UNCHANGED <<locals, fs, history>>

Chmod ==
    \/ /\ Call("chmod", "rename")
       /\ mode' = [mode EXCEPT !["tmp"] = origMode]
       /\ UNCHANGED <<locals, dir, settledDir, cached, durable, history>>
    \/ FailedCallOnTemp("chmod") /\ UNCHANGED fs

\* Mutant: an error is reported although the file was replaced.
Rename_ThenError ==
    /\ pc = "rename"
    /\ \E r \in {"ok", "error"} : Return(r)
    /\ dir' = [dir EXCEPT !["target"] = "tmp", !["temp"] = Absent]
    /\ replaced' = cached[dir["target"]]
    /\ UNCHANGED <<locals, settledDir, cached, durable, mode, edits, raced>>

\* Mutant: the temporary name stays.
Rename_Linked ==
    /\ pc = "rename"
    /\ Return("ok")
    /\ dir' = [dir EXCEPT !["target"] = "tmp"]
    /\ replaced' = cached[dir["target"]]
    /\ UNCHANGED <<locals, settledDir, cached, durable, mode, edits, raced>>

Rename ==
    \/ /\ pc = "rename"
       /\ Return("ok")
       /\ dir' = [dir EXCEPT !["target"] = "tmp", !["temp"] = Absent]
       /\ replaced' = cached[dir["target"]]
       /\ UNCHANGED <<locals, settledDir, cached, durable, mode, edits, raced>>
    \/ FailedCallOnTemp("rename") /\ UNCHANGED fs

\* cleanup() ignores the error of os.Remove, so the name may stay.
Remove ==
    /\ pc = "remove"
    /\ pc' = "done"
    /\ dir' \in {dir, [dir EXCEPT !["temp"] = Absent]}
    /\ UNCHANGED <<result, locals, settledDir, cached, durable, mode, history>>

Step ==
    \/ Format \/ Stat \/ ReadForBackup \/ OpenBackup \/ WriteBackup
    \/ CreateTemp \/ WriteTemp \/ Sync \/ Close \/ Chmod \/ Rename \/ Remove

-----------------------------------------------------------------------------
(* The environment *)

\* Another program saves the file in place.
Edit ==
    /\ edits < MaxEdits
    /\ edits' = edits + 1
    /\ cached' = [cached EXCEPT ![dir["target"]] = Edited]
    /\ raced' = (raced \/ orig # Absent)
    /\ UNCHANGED <<pc, result, locals, dir, settledDir, durable, mode, replaced>>

\* The kernel flushes an inode or the directory when it likes.
FlushInode(i) ==
    /\ durable' = [durable EXCEPT ![i] = cached[i]]
    /\ UNCHANGED <<pc, result, locals, dir, settledDir, cached, mode, history>>

FlushDir ==
    /\ settledDir' = dir
    /\ UNCHANGED <<pc, result, locals, dir, cached, durable, mode, history>>

Kill ==
    /\ pc \in Calls
    /\ pc' = "dead"
    /\ UNCHANGED <<result, locals, fs, history>>

PowerFailure ==
    /\ pc # "off"
    /\ pc' = "off"
    /\ dir' = settledDir
    /\ cached' = durable
    /\ UNCHANGED <<result, locals, settledDir, durable, mode, history>>

Environment ==
    \/ Edit
    \/ \E i \in Inode : FlushInode(i)
    \/ FlushDir
    \/ Kill
    \/ PowerFailure

Next == (pc # "off" /\ (Step \/ Environment)) \/ (pc = "off" /\ UNCHANGED vars)

Spec == Init /\ [][Next]_vars

-----------------------------------------------------------------------------

TypeOK ==
    /\ pc \in Calls \cup {"done", "dead", "off"}
    /\ wantBackup \in BOOLEAN
    /\ result \in {"none", "ok", "error"}
    /\ orig \in Content
    /\ origMode \in Modes
    /\ dir \in [Name -> Inode \cup {Absent}]
    /\ settledDir \in [Name -> Inode \cup {Absent}]
    /\ cached \in [Inode -> Content]
    /\ durable \in [Inode -> Content]
    /\ mode \in [Inode -> Modes]
    /\ edits \in 0 .. MaxEdits
    /\ replaced \in Content
    /\ raced \in BOOLEAN

\* A reader of the path never finds a half-written file, and would not find
\* one after a power failure at this moment either (fix.go:156-159).
TargetIsWhole ==
    /\ dir["target"] # Absent
    /\ cached[dir["target"]] \in {Original, New, Edited}
    /\ settledDir["target"] # Absent
    /\ durable[settledDir["target"]] \in {Original, New, Edited}

\* The rewritten file never shows the 0o600 of the temporary file, not even
\* for the moment after the rename (fix.go:161-164).
ModeIsKept == mode[dir["target"]] = "file"

\* When writeFormatted returns an error, whichever call failed, the path still
\* names the file it named.
ErrorLeavesTarget ==
    result = "error" => dir["target"] = "orig"

\* A call that returned leaves a temporary name behind only together with an
\* error, and a successful one never does.
NoLitterOnSuccess == result = "ok" /\ pc # "off" => dir["temp"] = Absent

\* Once the rewritten file is in place, the backup asked for holds exactly the
\* content that was replaced, unless another program saved in between; this
\* covers a process killed at any point, and an older backup in the way.
BackupHoldsReplaced ==
    (replaced # Absent /\ wantBackup /\ ~ raced /\ pc # "off")
        => /\ dir["backup"] = "bak"
           /\ cached["bak"] = replaced

\* The contents readers of the path may have found.
Shown ==
    {Original} \cup (IF replaced # Absent THEN {New} ELSE {})
               \cup (IF edits > 0 THEN {Edited} ELSE {})

\* The calls implement one atomic replacement, at most once.
Replacement ==
    INSTANCE AtomicReplace WITH visible <- cached[dir["target"]],
                                stable <- durable[settledDir["target"]],
                                shown <- Shown

ImplementsAtomicReplace == Replacement!Spec

=============================================================================

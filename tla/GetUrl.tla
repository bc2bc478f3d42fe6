------------------------------- MODULE GetUrl -------------------------------
(***************************************************************************)
(* One call of the get_url module on the agent: Module.Run               *)
(* (src/modules/get_url/get_url.go) with the GosibleModule helpers it     *)
(* calls (src/module_utils/gosibleModule/gosible_module.go), the request  *)
(* (src/module_utils/urls/urls.go) and pathUtils.Copy                     *)
(* (src/utils/path/path.go).  The module is created fresh for every call  *)
(* (ModuleRegistry.FindModule) and runs sequentially.                     *)
(*                                                                         *)
(* File contents are model values.  "empty" is an empty file.  Digests    *)
(* compare contents: DigestFromFile returns the raw digest bytes, so a     *)
(* checksum given as hex text never equals a file's digest.                *)
(***************************************************************************)
EXTENDS Naturals

CONSTANTS
    Contents,      \* file contents a server or a file can hold
    Checksums,     \* the checksum parameters tried, \subseteq ChecksumKinds
    Backups,       \* the backup parameters tried, \subseteq BOOLEAN
    UnsafeWrites,  \* the unsafe_writes parameters tried, \subseteq BOOLEAN
    TmpDests,      \* the tmp_dest parameters tried, \subseteq TmpDestKinds
    Renames        \* how os.Rename(tmpSrc, dest) fails, \subseteq RenameKinds

\* "": no checksum.  nocolon: no "<algorithm>:".  hex: the full hex digest
\* of a content (32 or more hex digits).  short: at most 15 hex digits.
\* url: "<algorithm>:http://...", a checksum file to fetch.
ChecksumKinds == {"", "nocolon", "hex", "short", "url"}
\* "": the module's TmpDir.  dir: an existing directory.  bad: missing or
\* not a directory.
TmpDestKinds == {"", "dir", "bad"}
\* none: rename works.  exdev: the temporary file is on another file
\* system.  eperm: permission denied (TryRenameWorkarounds).
RenameKinds == {"none", "exdev", "eperm"}

ASSUME Checksums \subseteq ChecksumKinds /\ TmpDests \subseteq TmpDestKinds
ASSUME Renames \subseteq RenameKinds
ASSUME Backups \subseteq BOOLEAN /\ UnsafeWrites \subseteq BOOLEAN

Files == Contents \cup {"empty"}
DestKinds == Files \cup {"absent", "dir"}

VARIABLES
    params,    \* checksum, backup, unsafeWrites, tmpDest, force
    env,       \* the host: dest's directory writable, dest writable,
               \* how renames fail, what the server holds, and whether
               \* the build's pathUtils.Copy returns an error
    pc,        \* the step of Run
    dest,      \* what m.Params.Dest is: a file's content, "absent" or "dir"
    orig,      \* what dest was when Run started
    backup,    \* the backup file BackupLocal made: its content, or "none"
    temps,     \* the temporary files and directories of this call
    deferRm,   \* os.Remove(tmpSrc) is deferred
    chk,       \* the parsed checksum: "none" or "short"
    mforce,    \* Module.force
    lastMod,   \* Module.lastModTime is set (If-Modified-Since is sent)
    ret        \* the module's Return: changed, failed, exited early

vars == <<params, env, pc, dest, orig, backup, temps, deferRm, chk, mforce, lastMod, ret>>

Pcs == {"checksum", "prepare", "download", "checkdest", "backup", "move",
        "verify", "attrs", "close", "done"}

Init ==
    /\ params \in [checksum : Checksums, backup : Backups, unsafe : UnsafeWrites,
                   tmpDest : TmpDests, force : BOOLEAN]
    /\ env \in [dirW : BOOLEAN, destW : BOOLEAN, rename : Renames, srv : Contents,
               copyErr : BOOLEAN]
    /\ dest \in DestKinds \ {"empty"}
    /\ orig = dest
    /\ pc = "checksum"
    /\ backup = "none"
    /\ temps = {}
    /\ deferRm = FALSE
    /\ chk = "none"
    /\ mforce = FALSE
    /\ lastMod = FALSE
    /\ ret = [changed |-> FALSE, failed |-> FALSE, exited |-> FALSE]

\* MarkReturnFailed, then the deferred os.Remove(tmpSrc).
Fail ==
    /\ pc' = "done"
    /\ ret' = [ret EXCEPT !.failed = TRUE]
    /\ temps' = IF deferRm THEN temps \ {"tmpsrc"} ELSE temps

\* pathUtils.Copy(src, dest): os.Create truncates dest, then CopyToFile
\* calls io.Copy(srcFile, dstFile), from the empty dest into the read-only
\* src: whatever src holds, dest is left empty.  Whether that returns an
\* error depends on the Go release the agent is built with
\* (copy_file_range into a read-only file fails with EBADF; a release that
\* falls back to read and write copies nothing and returns nil): the
\* host's env.copyErr.  A missing src is an error after the truncation.
Copied == "empty"

\* TmpDir: os.MkdirTemp under the system default; Close removes it.
WithTmpDir(t) == IF params.tmpDest = "" THEN t \cup {"tmpdir"} ELSE t

\* Mutant of HandleCheckSum: a checksum without "<algorithm>:" is parsed
\* as a sum.
HandleCheckSumNoSplit ==
    /\ pc = "checksum"
    /\ CASE params.checksum = "" ->
              pc' = "prepare" /\ UNCHANGED <<ret, temps, chk>>
         [] params.checksum \in {"short", "nocolon"} ->
              pc' = "prepare" /\ chk' = params.checksum /\ UNCHANGED <<ret, temps>>
         [] OTHER -> Fail /\ UNCHANGED chk
    /\ UNCHANGED <<params, env, dest, orig, backup, deferRm, mforce, lastMod>>

\* handleCheckSum: split "<algorithm>:<sum>"; a url is fetched (urlGet to
\* a temporary file, read, removed) but its text is then parsed as the
\* sum; strconv.ParseInt(sum, 16, 64) rejects more than 15 significant hex
\* digits and every non-hex letter.
HandleCheckSum ==
    /\ pc = "checksum"
    /\ CASE params.checksum = "" ->
              pc' = "prepare" /\ UNCHANGED <<ret, temps, chk>>
         [] params.checksum = "short" ->
              pc' = "prepare" /\ chk' = "short" /\ UNCHANGED <<ret, temps>>
         [] params.checksum = "url" ->
              \/ Fail /\ UNCHANGED chk
              \/ /\ params.tmpDest # "bad"
                 /\ pc' = "done" /\ ret' = [ret EXCEPT !.failed = TRUE]
                 /\ temps' = WithTmpDir(temps)
                 /\ UNCHANGED chk
         [] OTHER -> Fail /\ UNCHANGED chk
    /\ UNCHANGED <<params, env, dest, orig, backup, deferRm, mforce, lastMod>>

\* Exists and IsDir, then prepareDownloadToFile for an existing file: when
\* a checksum is given and the file's digest differs from it, the
\* attributes are applied and Run returns "file already exists" (its
\* UpdateReturn resets changed); otherwise Stat sets lastModTime.  An
\* error of DigestFromFile (an algorithm it does not know),
\* LoadFileCommonParams or Stat fails the call.
PrepareDownloadToFile ==
    /\ pc = "prepare"
    /\ IF dest \in Files
       THEN \/ Fail /\ UNCHANGED <<mforce, lastMod>>
            \/ IF ~mforce /\ chk # "none"
               THEN /\ mforce' = TRUE
                    /\ pc' = "done"
                    /\ ret' = [ret EXCEPT !.changed = FALSE, !.exited = TRUE]
                    /\ UNCHANGED <<lastMod, temps>>
               ELSE pc' = "download" /\ lastMod' = TRUE /\ UNCHANGED <<mforce, ret, temps>>
       ELSE pc' = "download" /\ UNCHANGED <<mforce, lastMod, ret, temps>>
    /\ UNCHANGED <<params, env, dest, orig, backup, deferRm, chk>>

\* DownloadToTmpSrc and urlGet: the request carries If-Modified-Since when
\* lastModTime is set and force is not; any status but 200 (a 304 too) is
\* "request failed".  The body is copied to os.CreateTemp under tmp_dest or
\* TmpDir; a failed copy removes it, a failed Close leaves it.
\* parseReturnFromResponse sets changed.
DownloadToTmpSrc ==
    /\ pc = "download"
    /\ \/ Fail /\ UNCHANGED deferRm
       \/ /\ lastMod /\ ~params.force
          /\ Fail /\ UNCHANGED deferRm
       \/ /\ params.tmpDest # "bad"
          /\ \/ /\ pc' = "done" /\ ret' = [ret EXCEPT !.failed = TRUE]
                /\ temps' = WithTmpDir(temps) /\ UNCHANGED deferRm
             \/ /\ pc' = "done" /\ ret' = [ret EXCEPT !.failed = TRUE]
                /\ temps' = WithTmpDir(temps) \cup {"tmpsrc"} /\ UNCHANGED deferRm
             \/ /\ pc' = "checkdest"
                /\ temps' = WithTmpDir(temps) \cup {"tmpsrc"}
                /\ deferRm' = TRUE
                /\ ret' = [ret EXCEPT !.changed = TRUE, !.failed = FALSE]
    /\ UNCHANGED <<params, env, dest, orig, backup, chk, mforce, lastMod>>

\* checkTmpSrc, Sha1(tmpSrc), then checkNoDestFile on m.Params.Dest: an
\* existing dest must be writable and readable and is hashed (a directory
\* cannot be: the file name joined to it at line 150 is never used); a
\* missing dest needs a writable directory.
CheckNoDestFile ==
    /\ pc = "checkdest"
    /\ IF \/ dest = "dir"
          \/ dest \in Files /\ ~env.destW
          \/ dest = "absent" /\ ~env.dirW
       THEN Fail
       ELSE pc' = "backup" /\ UNCHANGED <<ret, temps>>
    /\ UNCHANGED <<params, env, dest, orig, backup, deferRm, chk, mforce, lastMod>>

\* BackupLocal: PreservedCopy of dest to a new file beside it, which
\* needs a writable directory; the copy is left empty (Copied), its error
\* returned, and copyAttributes then runs chattr without a path, which
\* fails whenever lsattr reported a flag.
BackupLocal ==
    IF env.dirW
    THEN /\ backup' = Copied
         /\ IF env.copyErr THEN Fail
            ELSE \/ pc' = "move" /\ UNCHANGED <<ret, temps>>
                 \/ Fail
    ELSE Fail /\ UNCHANGED backup

\* handleBackup: equal digests end it with changed false and no move.
\* Otherwise an existing dest is backed up when backup is set.
HandleBackup ==
    /\ pc = "backup"
    /\ IF dest = env.srv
       THEN /\ pc' = "verify" /\ ret' = [ret EXCEPT !.changed = FALSE]
            /\ UNCHANGED <<backup, temps>>
       ELSE IF params.backup /\ dest # "absent"
            THEN BackupLocal
            ELSE pc' = "move" /\ UNCHANGED <<ret, temps, backup>>
    /\ UNCHANGED <<params, env, dest, orig, deferRm, chk, mforce, lastMod>>

\* The move is done: UpdateReturn(Changed: true), on to checkChecksum.
Moved == pc' = "verify" /\ ret' = [ret EXCEPT !.changed = TRUE]

\* The end of AtomicMove once dest holds the new file: when dest did not
\* exist before, the new file is chmod'ed to the umask, and an error of
\* that is returned.
MoveReturns(t) == (temps' = t /\ Moved) \/ (dest = "absent" /\ Fail)

\* unsafe_writes after a failed tryRenameWithTemp: Copy once more.
UnsafeCopy(t) == IF params.unsafe /\ ~env.copyErr THEN MoveReturns(t) ELSE Fail

\* Mutant of TryRenameWithTemp: the error of the final rename is dropped.
TryRenameWithTempNoError ==
    \/ /\ dest' = IF params.unsafe THEN Copied ELSE dest
       /\ pc' = "done" /\ ret' = [ret EXCEPT !.failed = TRUE]
       /\ temps' = temps \ {"tmpsrc"}
    \/ ~env.copyErr /\ dest' = env.srv /\ MoveReturns(temps \ {"tmpsrc"})
    \/ dest' = Copied /\ MoveReturns(temps)

\* tryRenameWithTemp: tmpSrc is renamed onto the temporary file beside
\* dest, or when that fails copied to dest (Copy leaves dest empty) and
\* CopyStat'd; then tmpSrc is renamed onto dest, which fails when the first
\* rename moved it away.  The deferred Cleanup removes the temporary file;
\* on error unsafe_writes copies once more (and Copy opens a missing
\* tmpSrc only after it truncated dest).
TryRenameWithTemp ==
    \/ /\ dest' = IF params.unsafe THEN Copied ELSE dest
       /\ pc' = "done" /\ ret' = [ret EXCEPT !.failed = TRUE]
       /\ temps' = temps \ {"tmpsrc"}
    \/ ~env.copyErr /\ dest' = env.srv /\ MoveReturns(temps \ {"tmpsrc"})
    \/ dest' = Copied /\ UnsafeCopy(temps)

\* TryRenameWorkarounds: only a permission error is worked around.  When
\* no temporary file can be created beside dest, unsafe_writes copies
\* tmpSrc to dest (Copy leaves it empty).
TryRenameWorkarounds ==
    CASE ~env.dirW /\ ~params.unsafe -> Fail /\ UNCHANGED dest
      [] ~env.dirW -> dest' = Copied /\ UnsafeCopy(temps)
      [] OTHER -> TryRenameWithTemp

\* AtomicMove(tmpSrc, dest): CopyStat from dest (an error other than a
\* missing dest or a denied permission is returned), then os.Rename; any
\* failure but EPERM is an error.
AtomicMove ==
    /\ pc = "move"
    /\ \/ Fail /\ UNCHANGED dest
       \/ CASE env.rename = "none" -> dest' = env.srv /\ MoveReturns(temps \ {"tmpsrc"})
            [] env.rename = "exdev" -> Fail /\ UNCHANGED dest
            [] OTHER -> TryRenameWorkarounds
    /\ UNCHANGED <<params, env, orig, backup, deferRm, chk, mforce, lastMod>>

\* checkChecksum: a raw digest never equals the hex text of a checksum.
CheckChecksum ==
    /\ pc = "verify"
    /\ IF chk = "none" THEN pc' = "attrs" /\ UNCHANGED <<ret, temps>> ELSE Fail
    /\ UNCHANGED <<params, env, dest, orig, backup, deferRm, chk, mforce, lastMod>>

\* LoadFileCommonParams, whose error (decoding the vars, following a link,
\* MlsEnabled) fails the call, and SetFsAttributesIfDifferent, which turns
\* every error into "unchanged".
SetFsAttributes ==
    /\ pc = "attrs"
    /\ \/ Fail
       \/ /\ pc' = "close"
          /\ \E changed \in BOOLEAN : ret' = [ret EXCEPT !.changed = ret.changed \/ changed]
          /\ UNCHANGED temps
    /\ UNCHANGED <<params, env, dest, orig, backup, deferRm, chk, mforce, lastMod>>

\* Mutant of Close: the TmpDir's os.RemoveAll is never registered.
CloseKeepsTmpDir ==
    /\ pc = "close"
    /\ \/ /\ pc' = "done"
          /\ ret' = [ret EXCEPT !.changed = FALSE, !.failed = FALSE]
          /\ temps' = temps \ {"tmpsrc"}
       \/ Fail
    /\ UNCHANGED <<params, env, dest, orig, backup, deferRm, chk, mforce, lastMod>>

\* Md5, then Close runs the registered os.RemoveAll(tmpDir); the last
\* UpdateReturn decodes a Return whose Changed is false over the module's;
\* the deferred os.Remove(tmpSrc).
Close ==
    /\ pc = "close"
    /\ \/ /\ pc' = "done"
          /\ ret' = [ret EXCEPT !.changed = FALSE, !.failed = FALSE]
          /\ temps' = temps \ {"tmpdir", "tmpsrc"}
       \/ Fail
    /\ UNCHANGED <<params, env, dest, orig, backup, deferRm, chk, mforce, lastMod>>

\* Run has returned.
Returned ==
    /\ pc = "done"
    /\ UNCHANGED vars

Next ==
    \/ HandleCheckSum \/ PrepareDownloadToFile \/ DownloadToTmpSrc
    \/ CheckNoDestFile \/ HandleBackup \/ AtomicMove \/ CheckChecksum
    \/ SetFsAttributes \/ Close \/ Returned

Spec == Init /\ [][Next]_vars /\ WF_vars(Next)

TypeOK ==
    /\ pc \in Pcs
    /\ dest \in DestKinds /\ orig \in DestKinds
    /\ backup \in Files \cup {"none"}
    /\ temps \subseteq {"tmpdir", "tmpsrc"}
    /\ chk \in {"none", "short"}
    /\ {deferRm, mforce, lastMod} \subseteq BOOLEAN
    /\ ret \in [changed : BOOLEAN, failed : BOOLEAN, exited : BOOLEAN]

\* A call that returns success has removed every temporary file and
\* directory it made: tmpSrc (renamed onto dest or removed by the deferred
\* os.Remove) and the TmpDir (removed by Close).
CleanOnSuccess == pc = "done" /\ ~ret.failed => temps = {}

\* A call that downloads and returns success without unsafe_writes leaves
\* dest holding what the server sent: no path of AtomicMove that reports
\* success leaves the empty file pathUtils.Copy makes.
SafeSuccessIsFresh ==
    pc = "done" /\ ~ret.failed /\ ~ret.exited /\ ~params.unsafe => dest = env.srv

\* The backup handleBackup makes holds what dest held before the call
\* (the backup option's purpose, Ansible's get_url semantics).
BackupHoldsOldContent == backup # "none" => backup = orig

=============================================================================

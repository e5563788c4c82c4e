------------------------------ MODULE ShellDir ------------------------------
(***************************************************************************)
(* The shell's current directory (src/shell.rs, src/shell/path.rs) through *)
(* the commands that change the tree, and the writes and mounts that fail. *)
(* The file system is taken for what FileTree promises; a write that fails *)
(* in the middle was made or was not.  A path is the sequence of its       *)
(* names, an argument [absolute, words].                                   *)
(***************************************************************************)
EXTENDS Integers, Sequences, SequencesExt

CONSTANTS Inputs,      \* arguments of commands
          Width,       \* bytes of each name
          MaxNameLen,  \* of a path, in bytes
          Paths,       \* the paths of at most MaxNameLen bytes
          MaxFaults    \* bound: writes and mounts that fail

VARIABLES tree, answer,  \* FileTree
          cwd,           \* ShellState.cwd
          volume,        \* mounted, unsure (a new mount is needed), gone
          mountError,    \* last_mount_error is kept
          slips
shellVars == <<tree, answer, cwd, volume, mountError, slips>>

\* The answer to a call comes in one step here, and the room may be taken by others.
NoCall == "none"
Holds(result) == TRUE
FS == INSTANCE FileTree WITH Path <- Paths, call <- NoCall, None <- NoCall, reply <- answer
NoRoom == answer' = "nospace" /\ UNCHANGED tree
-----------------------------------------------------------------------------
(* path.rs *)
Root == <<>>
Invalid == <<"invalid">>
Bytes(path) == FoldLeft(LAMBDA n, name : n + Width[name] + (IF n = 0 THEN 0 ELSE 1), 0, path)
Push(path, name) == IF Bytes(Append(path, name)) > MaxNameLen THEN Invalid ELSE Append(path, name)
Pop(path) == IF path = Root THEN Root ELSE Front(path)
Component(path, word) ==
  IF path = Invalid \/ word \in {"", "."} THEN path
  ELSE IF word = ".." THEN Pop(path) ELSE Push(path, word)
Resolve(input) == FoldLeft(Component, IF input.absolute THEN Root ELSE cwd, input.words)
IsAncestorOf(path, other) == IsPrefix(path, other)
\* The directory keeps its old name.
RebaseNot(path, old, new) == path
Rebase(path, old, new) ==
  IF ~IsAncestorOf(old, path) THEN path
  ELSE LET rebased == new \o SubSeq(path, Len(old) + 1, Len(path))
       IN IF Bytes(rebased) > MaxNameLen THEN Invalid ELSE rebased
-----------------------------------------------------------------------------
(* Mounting. *)
Same == UNCHANGED <<tree, answer, cwd, volume, mountError, slips>>
Mounted == volume' = "mounted" /\ mountError' = FALSE /\ cwd' = Root
MountFails == slips < MaxFaults /\ slips' = slips + 1 /\ volume' = "gone" /\ mountError' = TRUE
Remount ==
  \/ Mounted /\ UNCHANGED slips
  \/ MountFails /\ UNCHANGED cwd
FormatUnmounted ==
  \/ Mounted /\ tree' = <<>> /\ answer' = "ok" /\ UNCHANGED slips
  \/ MountFails /\ tree' \in {tree, <<>>} /\ UNCHANGED <<answer, cwd>>

\* An error is reported, and a new mount made if the volume asks for it.
ReportMutationError(asks) ==
  IF asks THEN Remount ELSE UNCHANGED <<cwd, volume, mountError, slips>>

\* A change of the tree: made, refused, or broken off with a result that is not known.
\* Another thread's failure may come between the answer and the question.
MountedFilesystem == volume # "gone"
Mutated(Change, Follow(_)) ==
  \/ /\ volume = "mounted" /\ Change /\ answer' = "ok"
     /\ Follow(TRUE) /\ UNCHANGED <<volume, mountError, slips>>
  \/ /\ volume = "mounted" /\ Change /\ answer' # "ok"
     /\ \E asks \in BOOLEAN : (asks => slips < MaxFaults) /\ ReportMutationError(asks)
  \/ /\ volume = "mounted" /\ slips < MaxFaults
     /\ Change /\ answer' = "ok" /\ ReportMutationError(TRUE)
  \/ /\ volume = "unsure" /\ UNCHANGED <<tree, answer>>
     /\ ReportMutationError(TRUE)
Stays(done) == UNCHANGED cwd
-----------------------------------------------------------------------------
(* Commands. *)
CmdCd(input) ==
  LET path == Resolve(input)
  IN /\ path # Invalid /\ MountedFilesystem
     /\ path = Root \/ FS!IsDirectory(path)
     /\ cwd' = path
     /\ UNCHANGED <<tree, answer, volume, mountError, slips>>

CmdMkdir(input) ==
  LET path == Resolve(input)
  IN path \notin {Invalid, Root} /\ MountedFilesystem /\ Mutated(FS!Mkdir(path) \/ NoRoom, Stays)
CmdRmdir(input) ==
  LET path == Resolve(input)
  IN /\ path # Invalid /\ ~IsAncestorOf(path, cwd)
     /\ MountedFilesystem /\ Mutated(FS!Rmdir(path), Stays)
CmdWrite(input) ==
  LET path == Resolve(input)
  IN path \notin {Invalid, Root} /\ MountedFilesystem /\ Mutated(FS!Write(path, 0) \/ NoRoom, Stays)
CmdRm(input) ==
  LET path == Resolve(input)
  IN path \notin {Invalid, Root} /\ MountedFilesystem /\ Mutated(FS!RemoveFile(path), Stays)

\* The kind is asked before; a directory that was moved takes the shell with it.
CmdMv(oldInput, newInput) ==
  LET old == Resolve(oldInput)
      new == Resolve(newInput)
      Follow(done) ==
        cwd' = IF ~tree[old].directory THEN cwd
               ELSE IF Rebase(cwd, old, new) = Invalid THEN Root ELSE Rebase(cwd, old, new)
  IN /\ Invalid \notin {old, new} /\ Root \notin {old, new}
     /\ MountedFilesystem /\ FS!Has(old)
     /\ Mutated(FS!Rename(old, new) \/ NoRoom, Follow)

CmdMount == Remount /\ UNCHANGED <<tree, answer>>
CmdMkfs ==
  IF MountedFilesystem THEN Mutated(FS!Does(TRUE, <<>>), LAMBDA done : cwd' = Root)
  ELSE FormatUnmounted
\* An error of level is printed only: the volume stays unsure, and so it does when
\* a write of the log fails.
CmdLevel ==
  /\ volume = "mounted" /\ slips < MaxFaults /\ slips' = slips + 1
  /\ volume' = "unsure"
  /\ UNCHANGED <<tree, answer, cwd, mountError>>
Login ==
  /\ cwd' = Root
  /\ UNCHANGED <<tree, answer, volume, mountError, slips>>
-----------------------------------------------------------------------------
ShellInit ==
  /\ FS!Init
  /\ cwd = Root /\ slips = 0
  /\ \/ volume = "mounted" /\ mountError = FALSE
     \/ volume = "gone" /\ mountError = TRUE
ShellNext ==
  \/ CmdMount \/ CmdMkfs \/ CmdLevel \/ Login
  \/ \E input \in Inputs : \/ CmdCd(input) \/ CmdMkdir(input) \/ CmdRmdir(input)
                           \/ CmdWrite(input) \/ CmdRm(input)
                           \/ \E new \in Inputs : CmdMv(input, new)
-----------------------------------------------------------------------------
(* While a volume is mounted, the current directory is a directory of its      *)
(* tree, whatever was removed, moved, formatted or lost; without a volume the  *)
(* reason is kept.                                                             *)
CwdIsDirectory ==
  /\ MountedFilesystem => cwd = Root \/ FS!IsDirectory(cwd)
  /\ mountError <=> ~MountedFilesystem
=============================================================================

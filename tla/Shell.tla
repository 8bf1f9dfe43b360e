-------------------------------- MODULE Shell --------------------------------
(***************************************************************************)
(* The ring 3 shell: its working directory, the paths it makes out of      *)
(* arguments, and its commands, each with the system calls it makes.  The  *)
(* calls on files are atomic and find room on the disk (Fat32 has their    *)
(* steps), and every line arrives whole (Console).                         *)
(*                                                                         *)
(* A path is a sequence of tokens: slashes, and the names between them, no *)
(* two next to each other.  A file is its length.                          *)
(***************************************************************************)
EXTENDS Integers, Sequences

CONSTANTS
  Tokens,      \* what paths are made of: the slash, and names
  Args,        \* arguments a user types
  DirPaths,    \* bound: where mkdir makes directories, as names
  FilePaths,   \* bound: where files are made, as names
  FirstFiles,  \* files on the disk at first: by names, a length
  PathMax,     \* length of a path in a buffer (255)
  NanoMax,     \* length of a text in nano_buf (2047)
  LongFile     \* the longest file

Slash == "/"

ASSUME ShellAssumption ==
  /\ {Slash, ".", "..", "it"} \subseteq Tokens
  /\ Args \subseteq Seq(Tokens)
  /\ \A a \in Args : \A k \in 1..(Len(a) - 1) : a[k] = Slash \/ a[k + 1] = Slash
  /\ PathMax \in Nat /\ PathMax > 1
  /\ NanoMax \in Nat /\ LongFile \in Nat /\ NanoMax <= LongFile
  /\ DirPaths \cup FilePaths \subseteq Seq(Tokens)
  /\ DOMAIN FirstFiles \subseteq FilePaths

VARIABLES
  pc,        \* "prompt", "run" in a handler, in "nano", or in "nc" with a connection
  line_buf,  \* the command read, and its arguments (dead at the prompt)
  cwd_buf,   \* the working directory, a path
  dirs,      \* directories on the disk, as sequences of names
  files,     \* files on the disk: by names, their length
  raw,       \* the terminal's raw_input_mode
  connected, \* a connect has succeeded and no close has followed
  path_buf1, \* the file nano edits (dead elsewhere)
  nano_len   \* the length of its text (dead elsewhere)

disk == <<dirs, files>>
nano == <<raw, path_buf1, nano_len>>
vars == <<pc, line_buf, cwd_buf, dirs, files, raw, connected, path_buf1, nano_len>>

RootPath == <<Slash>>
NoLine == [cmd |-> "none", args |-> <<>>]

Init ==
  /\ pc = "prompt"
  /\ line_buf = NoLine
  /\ cwd_buf = RootPath
  /\ dirs = {}
  /\ files = FirstFiles
  /\ raw = FALSE
  /\ connected = FALSE
  /\ path_buf1 = <<>>
  /\ nano_len = 0

-----------------------------------------------------------------------------
\* Paths, in the shell.

\* The end of a path, or of a command's arguments; what comes before it.
Last(s) == s[Len(s)]
Front(s) == SubSeq(s, 1, Len(s) - 1)

Cut(p, n) == SubSeq(p, 1, IF Len(p) < n THEN Len(p) ELSE n)

\* make_abs_strip: no slash at the end, except that of the root.
Strip(p) ==
  LET kept == {k \in 1..Len(p) : k = 1 \/ p[k] # Slash}
  IN  IF p = <<>> THEN p ELSE Cut(p, CHOOSE k \in kept : \A j \in kept : j <= k)

\* A variant without the slash between the two.
MakeAbsGlued(a) ==
  Strip(Cut(IF a # <<>> /\ Head(a) = Slash THEN a ELSE cwd_buf \o a, PathMax))

\* make_abs_path: an absolute argument as it is, another after the working
\* directory; what does not fit into the buffer is cut off.
MakeAbs(a) ==
  LET sep == IF Len(cwd_buf) > 1 THEN <<Slash>> ELSE <<>>
  IN  Strip(Cut(IF a # <<>> /\ Head(a) = Slash THEN a ELSE cwd_buf \o sep \o a,
                PathMax))

\* A variant that leaves the slash.
PathUpOneShort(p) ==
  LET slashes == {k \in 2..Len(p) : p[k] = Slash}
  IN  IF Len(p) <= 1 THEN p
      ELSE IF slashes = {} THEN RootPath
      ELSE Cut(p, CHOOSE k \in slashes : \A j \in slashes : j <= k)

\* path_up_one: cut the path at its last slash.
PathUpOne(p) ==
  LET slashes == {k \in 2..Len(p) : p[k] = Slash}
  IN  IF Len(p) <= 1 THEN p
      ELSE IF slashes = {} THEN RootPath
      ELSE Cut(p, (CHOOSE k \in slashes : \A j \in slashes : j <= k) - 1)

-----------------------------------------------------------------------------
\* Paths and files, in the kernel.

\* The names of a path.  ResolvePath skips repeated slashes.
Names(p) ==
  LET upTo[n \in 0..Len(p)] ==
        IF n = 0 THEN <<>>
        ELSE IF p[n] = Slash THEN upTo[n - 1] ELSE Append(upTo[n - 1], p[n])
  IN  upTo[Len(p)]

Doubled(p) == \E k \in 1..(Len(p) - 1) : p[k] = Slash /\ p[k + 1] = Slash

\* ResolveParentDir does not: it takes an empty name for one and finds no entry.
Resolvable(p) ==
  /\ Names(p) # <<>>
  /\ ~Doubled(p)
  /\ Front(Names(p)) \in dirs \cup {<<>>}

IsDirectory(p) == Names(p) \in dirs \cup {<<>>}

\* FAT32::ReadFile and sys_readfile.
Readable(p) == Names(p) \in DOMAIN files

\* FAT32::WriteFile overwrites a file, and refuses a directory.
Writable(p) == Resolvable(p) /\ Names(p) \notin dirs

Written(fs, p, n) ==
  [q \in DOMAIN fs \cup {Names(p)} |-> IF q = Names(p) THEN n ELSE fs[q]]

\* FAT32::DeleteFile: the files left.
Deleted(fs, p) ==
  IF Resolvable(p) THEN [q \in DOMAIN fs \ {Names(p)} |-> fs[q]] ELSE fs

-----------------------------------------------------------------------------
\* Commands.

\* The lines a user types.  "ls", "pwd" and "ping" stand for the commands that
\* write to the terminal at most, for what is no command, and for the lines that
\* lack an argument.  An argument of cp and mv may be empty: between two spaces,
\* or at the end.
Lines ==
  [cmd : {"ls", "pwd", "ping", "cd", "exit", "reboot", "nc"}, args : {<<>>}]
    \cup [cmd : {"cd", "rm", "mkdir", "touch", "nano"}, args : {<<a>> : a \in Args \ {<<>>}}]
    \cup [cmd : {"cp", "mv"}, args : Args \X Args]

\* The bound on where files and directories are made.  FAT32::MakeDir does not
\* look for an entry of the same name: the model makes directories under free
\* names only.
Bounded(line) ==
  LET p == MakeAbs(Last(line.args))
  IN  /\ line.cmd \in {"touch", "nano", "cp", "mv"} /\ Writable(p) =>
           Names(p) \in FilePaths
      /\ line.cmd = "mkdir" /\ Resolvable(p) =>
           Names(p) \in DirPaths \ (dirs \cup DOMAIN files)

\* prompt_loop: read a line, and go to the handler of the first command that is
\* a prefix of it.
ReadLine ==
  /\ pc = "prompt"
  /\ pc' = "run"
  /\ line_buf' \in {line \in Lines : Bounded(line)}
  /\ UNCHANGED <<cwd_buf, disk, nano, connected>>

\* In the handler of cmd.
Command(cmd) == pc = "run" /\ line_buf.cmd = cmd

\* The path of the k-th argument.
Path(k) == MakeAbs(line_buf.args[k])

\* jmp prompt_loop.
Done == pc' = "prompt" /\ line_buf' = NoLine

\* Back to the prompt with everything as it was.
Shown ==
  /\ Done
  /\ UNCHANGED <<cwd_buf, disk, nano, connected>>

\* help, clear and ls.
Ls == Command("ls") /\ Shown

\* pwd, meminfo, uname and whoami.
Pwd == Command("pwd") /\ Shown

\* echo and ping, and their usage; a ping ends with an answer or without.
Ping == Command("ping") /\ Shown

\* The path do_cd_validate is given.
CdTarget ==
  CASE line_buf.args = <<>>         -> RootPath
    [] line_buf.args = <<<<".">>>>  -> cwd_buf
    [] line_buf.args = <<<<"..">>>> -> PathUpOne(cwd_buf)
    [] OTHER                        -> Path(1)

Cd ==
  /\ Command("cd")
  /\ cwd_buf' = IF IsDirectory(CdTarget) THEN CdTarget ELSE cwd_buf
  /\ Done
  /\ UNCHANGED <<disk, nano, connected>>

\* do_rm.
Rm ==
  /\ Command("rm")
  /\ files' = Deleted(files, Path(1))
  /\ Done
  /\ UNCHANGED <<cwd_buf, dirs, nano, connected>>

\* exit marks the process DEAD and asks for another one.  The shell is the only
\* one, so the kernel returns to it, behind the call: at do_rm, which takes its
\* argument from the third character of the line on.
Exit ==
  /\ Command("exit")
  /\ files' = Deleted(files, MakeAbs(<<"it">>))
  /\ Done
  /\ UNCHANGED <<cwd_buf, dirs, nano, connected>>

Mkdir ==
  /\ Command("mkdir")
  /\ dirs' = IF Resolvable(Path(1)) THEN dirs \cup {Names(Path(1))} ELSE dirs
  /\ Done
  /\ UNCHANGED <<cwd_buf, files, nano, connected>>

\* sys_open with flags 1: CreateFile, which empties an existing file.
Touch ==
  /\ Command("touch")
  /\ files' = IF Writable(Path(1)) THEN Written(files, Path(1), 0) ELSE files
  /\ Done
  /\ UNCHANGED <<cwd_buf, dirs, nano, connected>>

\* sys_cp: the files afterwards.
Copied(p, q) ==
  IF Readable(p) /\ Writable(q) THEN Written(files, q, files[Names(p)]) ELSE files

Cp ==
  /\ Command("cp")
  /\ files' = Copied(Path(1), Path(2))
  /\ Done
  /\ UNCHANGED <<cwd_buf, dirs, nano, connected>>

\* A variant that deletes the source whether or not it has been copied.
MovedAnyway(p, q) == Deleted(Copied(p, q), p)

\* sys_mv: copy, then delete the source if both went well.
Moved(p, q) ==
  IF Readable(p) /\ Writable(q) THEN Deleted(Copied(p, q), p) ELSE files

Mv ==
  /\ Command("mv")
  /\ files' = Moved(Path(1), Path(2))
  /\ Done
  /\ UNCHANGED <<cwd_buf, dirs, nano, connected>>

\* sys_reboot resets the machine; memory starts anew, the disk stays.
Reboot ==
  /\ Command("reboot")
  /\ cwd_buf' = RootPath
  /\ Done
  /\ UNCHANGED <<disk, nano, connected>>

-----------------------------------------------------------------------------
\* nano.

\* do_nano: load the file, as much of it as fits, and turn raw input on.
Nano ==
  /\ Command("nano")
  /\ pc' = "nano"
  /\ raw' = TRUE
  /\ path_buf1' = Path(1)
  /\ LET size == IF Readable(Path(1)) THEN files[Names(Path(1))] ELSE 0
     IN  nano_len' = IF size < NanoMax THEN size ELSE NanoMax
  /\ UNCHANGED <<line_buf, cwd_buf, disk, connected>>

NanoAppend ==
  /\ pc = "nano"
  /\ nano_len < NanoMax
  /\ nano_len' = nano_len + 1
  /\ UNCHANGED <<pc, line_buf, cwd_buf, disk, raw, path_buf1, connected>>

NanoBackspace ==
  /\ pc = "nano"
  /\ nano_len > 0
  /\ nano_len' = nano_len - 1
  /\ UNCHANGED <<pc, line_buf, cwd_buf, disk, raw, path_buf1, connected>>

\* Back to the prompt; the buffers are dead.
LeaveNano ==
  /\ Done
  /\ raw' = FALSE
  /\ path_buf1' = <<>>
  /\ nano_len' = 0

\* A variant that forgets the terminal's mode on the way out.
NanoFailRaw ==
  /\ pc = "nano"
  /\ ~Writable(path_buf1)
  /\ Done
  /\ path_buf1' = <<>>
  /\ nano_len' = 0
  /\ UNCHANGED <<cwd_buf, disk, raw, connected>>

\* do_nano_save, when sys_writefile fails: do_nano_fail.
NanoFail ==
  /\ pc = "nano"
  /\ ~Writable(path_buf1)
  /\ LeaveNano
  /\ UNCHANGED <<cwd_buf, disk, connected>>

NanoSave ==
  /\ pc = "nano"
  /\ Writable(path_buf1)
  /\ files' = Written(files, path_buf1, nano_len)
  /\ UNCHANGED <<pc, line_buf, cwd_buf, dirs, nano, connected>>

NanoExit ==
  /\ pc = "nano"
  /\ LeaveNano
  /\ UNCHANGED <<cwd_buf, disk, connected>>

-----------------------------------------------------------------------------
\* nc.

\* do_nc: the address is wrong or sys_net_tcp_connect fails, or it connects.
Nc ==
  /\ Command("nc")
  /\ \/ Done /\ UNCHANGED connected
     \/ pc' = "nc" /\ connected' = TRUE /\ UNCHANGED line_buf
  /\ UNCHANGED <<cwd_buf, disk, nano>>

\* A line is read and sent; an answer comes and is printed, or the time passes;
\* then do_nc_close.
NcSend ==
  /\ pc = "nc"
  /\ connected' = FALSE
  /\ Done
  /\ UNCHANGED <<cwd_buf, disk, nano>>

Next ==
  \/ ReadLine \/ Ls \/ Pwd \/ Ping \/ Cd \/ Rm \/ Exit \/ Mkdir \/ Touch \/ Cp \/ Mv \/ Reboot
  \/ Nano \/ NanoAppend \/ NanoBackspace \/ NanoFail \/ NanoSave \/ NanoExit
  \/ Nc \/ NcSend

Spec == Init /\ [][Next]_vars

-----------------------------------------------------------------------------
\* What the user means.

\* The names an argument stands for, whatever the slashes.
Meant(a) ==
  IF a # <<>> /\ Head(a) = Slash THEN Names(a) ELSE Names(cwd_buf) \o Names(a)

\* The buffer is long enough for the argument.
Fits(a) == Len(cwd_buf) + 1 + Len(a) <= PathMax

IsPath(p) ==
  /\ p # <<>> /\ Head(p) = Slash
  /\ \A k \in 1..(Len(p) - 1) : p[k] = Slash \/ p[k + 1] = Slash

-----------------------------------------------------------------------------
\* make_abs_path gives an absolute path for every argument in every working
\* directory, names separated, no slash at the end; and, when the buffer has
\* room, the path names what the argument means there.
PathsAbsolute ==
  \A a \in Args :
    /\ IsPath(MakeAbs(a))
    /\ MakeAbs(a) = RootPath \/ Last(MakeAbs(a)) # Slash
    /\ Fits(a) => Names(MakeAbs(a)) = Meant(a)

\* cd .. goes to the directory above, from the root to the root, as the comment of
\* path_up_one has it.  Only from a working directory that ends in a slash it goes
\* nowhere, and only one with two slashes in a row, which the user has typed, leads
\* to such a directory.
CdUp ==
  [][line_buf = [cmd |-> "cd", args |-> <<<<"..">>>>] =>
       /\ Names(cwd_buf') =
            IF Last(cwd_buf) = Slash THEN Names(cwd_buf) ELSE Front(Names(cwd_buf))
       /\ Last(cwd_buf') = Slash => cwd_buf' = RootPath \/ Doubled(cwd_buf)]_vars

\* The step changes and deletes what the command names.
NamedStep ==
  LET cmd == line_buf.cmd
      args == line_buf.args
      gone == DOMAIN files \ DOMAIN files'
      changed == {p \in DOMAIN files \cap DOMAIN files' : files'[p] # files[p]}
  IN  (\A k \in 1..Len(args) : Fits(args[k])) =>
        /\ \A p \in gone :
             \/ cmd = "rm" /\ p = Meant(args[1])
             \/ /\ cmd = "mv" /\ p = Meant(args[1])
                /\ \/ Meant(args[2]) = p
                   \/ /\ Meant(args[2]) \in DOMAIN files'
                      /\ files'[Meant(args[2])] = files[p]
             \/ cmd = "exit" /\ p = Meant(<<"it">>)
        /\ \A p \in changed :
             \/ cmd = "touch" /\ p = Meant(args[1])
             \/ cmd \in {"cp", "mv"} /\ p = Meant(args[2])
             \/ cmd = "nano" /\ p = Meant(args[1])

\* A file changes or disappears only if the command names it and is one that
\* does so: it is gone after rm, after mv with its content at the
\* destination or onto itself, and, if it is called "it", after exit.  Where the
\* buffer was too short for an argument nothing is said.
OnlyNamed == [][NamedStep]_vars

\* Whatever way a command takes back to the prompt, the terminal collects lines
\* again, a connection that was reported open has been closed, and the working
\* directory is on the disk: do_cd asks sys_isdir before it copies path_buf1 to
\* cwd_buf, and no call removes a directory.
AtPrompt ==
  pc = "prompt" => ~raw /\ ~connected /\ IsDirectory(cwd_buf)
=============================================================================

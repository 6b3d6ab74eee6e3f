------------------------------- MODULE Shell -------------------------------
(***************************************************************************)
(* The shell (src/Console/commands.c) over the disk's directories, the RAM *)
(* disk and the programs it runs, from disk_setup to the prompt: how a     *)
(* path that is typed, or that a program saves to, becomes a file.  Paths  *)
(* are sequences of characters, see Paths; an entry's name is its 8.3      *)
(* field; a file's content is the number of the save that wrote it.        *)
(***************************************************************************)
EXTENDS DiskSetup, Paths

CONSTANTS
  Dirs,              \* directories of the disk, sequences of fields; <<>> is the root
  DiskFiles,         \* files it starts with, <<directory, field>>
  RamFiles,          \* files of the RAM disk, sequences of components
  BinName,           \* "BIN"
  RamBinName,        \* "bin"
  ElfExt,            \* ".ELF"
  Args,              \* paths a user types
  Rests,             \* what may follow a program's path on the line
  SavePaths,         \* paths a program saves to
  MaxSaves           \* bound

ASSUME ShellConstants ==
  /\ <<>> \in Dirs /\ \A d \in Dirs : d # <<>> => Front(d) \in Dirs
  /\ \A f \in DiskFiles : /\ f[1] \in Dirs /\ Append(f[1], f[2]) \notin Dirs
                          /\ Len(f[2]) = BaseLen + ExtLen
                          /\ \A k \in DOMAIN f[2] : f[2][k] # Slash
  /\ \A s \in Args \cup Rests \cup SavePaths : \A k \in DOMAIN s : s[k] # Nul
  /\ \A s \in {BinName, RamBinName} : s # <<>> /\ \A k \in DOMAIN s : s[k] # Slash
  /\ Len(BinName) < SegCap
  /\ DiskName # RamBinName /\ ElfExt # <<>>
  /\ {BinName, RamBinName, ElfExt} \cup Args \cup Rests \cup SavePaths \subseteq Seq(STRING)

VARIABLES
  cwd,               \* g_cwd
  files,             \* files of the disk: <<directory, field>> -> content
  last,              \* the command answered, from which directory, and its outcome
  saved,             \* history: path -> content its last successful save wrote
  saves

shell == <<cwd, files, last, saved, saves>>
vars  == <<setup, shell>>

Space      == " "
NoNode     == <<"none">>
DirNode(d) == <<"dir", d>>
FileNode(f) == <<"file", f>>
RamNode(p) == <<"ram", p>>
Refused    == <<"refused">>       \* "disk not mounted", "not found"
Fault      == <<"fault">>         \* a null pointer followed

Nothing == [cmd |-> "none", from |-> <<>>, arg |-> <<>>, rest |-> <<>>, reply |-> NoNode, passed |-> <<>>]

Init ==
  /\ SetupInit
  /\ cwd = <<Slash>> /\ last = Nothing
  /\ files = [f \in DiskFiles |-> 0]
  /\ saved = [p \in {} |-> 0] /\ saves = 0

Boot == SetupStep /\ UNCHANGED shell

\* kmain goes on.  What disk_setup knew of the disk goes out of scope, and the
\* geometry with it: the directories below are those of a volume a formatter
\* wrote, so the model ends with a mounted volume that is not one.
Prompt ==
  /\ stage \in {"done", "answered"} /\ stage' = "prompt"
  /\ stage = "done" /\ mounted => Formatted(vol.b)
  /\ last' = Nothing
  /\ sector0' = [d \in Drives |-> Absent] /\ devsel' = Slave /\ late' = NoDrive
  /\ part' = NoPart /\ vol' = NoVolume
  /\ tableFrom' = NoDrive /\ bootFrom' = NoDrive /\ boot' = {} /\ faults' = FALSE
  /\ UNCHANGED <<mounted, cwd, files, saved, saves>>

-----------------------------------------------------------------------------
(* The disk's tree. *)

One(S) == CHOOSE x \in S : TRUE

\* find_in_dir11 in the directory walked to.
Lookup(node, name) ==
  LET dir   == node[2]
      field == up11(name)
  IN  CASE node[1] = "dir" /\ Append(dir, field) \in Dirs -> DirNode(Append(dir, field))
        [] node[1] = "dir" /\ Append(dir, field) \notin Dirs /\ <<dir, field>> \in DOMAIN files ->
             FileNode(<<dir, field>>)
        [] OTHER -> NoNode

\* The walk of fat32_is_dir_path and parent_dir_for, and up11_from_seg.
Walk(parts) ==
  LET at[k \in 0 .. Len(parts)] ==
        IF k = 0 THEN DirNode(<<>>) ELSE Lookup(at[k - 1], parts[k])
  IN  at[Len(parts)]

\* The walk that cuts its components.
walk_path(parts) == Walk([k \in DOMAIN parts |-> Kept(parts[k])])

fat32_is_dir_path(sub) == Walk(Parts(sub))[1] = "dir"

\* fat32_list_path, also when try_list_all asks for it in eight spellings:
\* slashes around a path and the case of its letters make no difference.
try_list_all(sub) == LET n == walk_path(Parts(sub)) IN IF n[1] = "dir" THEN n ELSE NoNode

fat32_read_stream_path(sub) == LET n == walk_path(Parts(sub)) IN IF n[1] = "file" THEN n ELSE NoNode

fat32_read_stream_root83(name) ==
  LET hit == <<<<>>, name83(name)>>
  IN  IF name = <<>> \/ hit \notin DOMAIN files THEN NoNode ELSE FileNode(hit)

\* vfs_read on the RAM disk.
vfs_read(abs) == IF Parts(abs) \in RamFiles THEN RamNode(Parts(abs)) ELSE NoNode

\* read_file_into: disk_fs() is null as long as nothing is mounted, and
\* fat32_read_stream_path follows it.
read_file_into(abs) ==
  LET sub == disk_subpath(abs)
  IN  CASE sub = {} -> vfs_read(abs)
        [] sub # {} /\ mounted -> fat32_read_stream_path(One(sub))
        [] OTHER -> Fault

-----------------------------------------------------------------------------
(* The commands. *)

\* A fault stops the machine; a file that is found may be a program or not.
Answer(cmd, arg, rest, reply, passed) ==
  /\ stage' \in CASE reply = Fault -> {"halted"}
                 [] cmd \in {"run", "word"} /\ reply \notin {NoNode, Fault} -> {"app", "answered"}
                 [] OTHER -> {"answered"}
  /\ last' = [cmd |-> cmd, from |-> cwd, arg |-> arg, rest |-> rest,
               reply |-> reply, passed |-> passed]
  /\ UNCHANGED <<sector0, devsel, late, part, vol, mounted, tableFrom, bootFrom, boot, faults>>
  /\ UNCHANGED <<files, saved, saves>>

Target(arg) == force_disk_abs(path_resolve(cwd, arg))

\* Mutant: the directory is made the current one before it is looked up.
Cd_Early(arg) ==
  LET tmp == Target(IF arg = <<>> THEN <<Slash>> ELSE arg)
  IN  /\ stage = "prompt" /\ mounted /\ disk_subpath(tmp) # {}
      /\ cwd' = tmp
      /\ Answer("cd", arg, <<>>, Walk(Parts(One(disk_subpath(tmp)))), <<>>)

Cd(arg) ==
  LET tmp == Target(IF arg = <<>> THEN <<Slash>> ELSE arg)
      sub == disk_subpath(tmp)
  IN  /\ stage = "prompt"
      /\ \/ ~mounted /\ Answer("cd", arg, <<>>, Refused, <<>>) /\ UNCHANGED cwd
         \/ mounted /\ sub = {} /\ Answer("cd", arg, <<>>, Fault, <<>>) /\ UNCHANGED cwd
         \/ /\ mounted /\ sub # {} /\ fat32_is_dir_path(One(sub))
            /\ cwd' = IF One(sub) \in {<<>>, <<Slash>>} THEN DiskPrefix ELSE tmp
            /\ Answer("cd", arg, <<>>, Walk(Parts(One(sub))), <<>>)
         \/ /\ mounted /\ sub # {} /\ ~fat32_is_dir_path(One(sub))
            /\ Answer("cd", arg, <<>>, Refused, <<>>) /\ UNCHANGED cwd

Ls(arg) ==
  LET sub == disk_subpath(IF arg = <<>> THEN force_disk_abs(cwd) ELSE Target(arg))
  IN  /\ stage = "prompt"
      /\ Answer("ls", arg, <<>>, CASE ~mounted -> Refused
                                   [] mounted /\ sub = {} -> Fault
                                   [] OTHER -> try_list_all(One(sub)), <<>>)
      /\ UNCHANGED cwd

HasSlash(s) == \E k \in DOMAIN s : s[k] = Slash

\* cat takes no notice of the current directory.
CatNode(arg) ==
  LET Strip(t) == IF t # <<>> /\ t[1] = Slash THEN Tail(t) ELSE t
      s == Strip(IF IsPrefix(DiskPrefix, arg) THEN SubSeq(arg, Len(DiskPrefix) + 1, Len(arg)) ELSE arg)
  IN  CASE HasSlash(s) -> fat32_read_stream_path(s)
        [] s = <<>> -> fat32_read_stream_root83(<<Slash>>)
        [] OTHER -> fat32_read_stream_root83(s)

Cat(arg) ==
  /\ stage = "prompt" /\ arg # <<>>
  /\ Answer("cat", arg, <<>>, IF mounted THEN CatNode(arg) ELSE Refused, <<>>)
  /\ UNCHANGED cwd

\* run: the rest of the line is part of the path while that is resolved.
Run(arg, rest) ==
  LET line   == path_resolve(cwd, IF rest = <<>> THEN arg ELSE arg \o <<Space>> \o rest)
      spaces == {k \in DOMAIN line : line[k] = Space}
      cut    == CHOOSE k \in spaces \cup {Len(line) + 1} : \A j \in spaces : k <= j
  IN  /\ stage = "prompt" /\ arg # <<>>
      /\ Answer("run", arg, rest, read_file_into(SubSeq(line, 1, cut - 1)),
                SubSeq(line, cut + 1, Len(line)))
      /\ UNCHANGED cwd

BinDir == DiskPrefix \o <<Slash>> \o BinName \o <<Slash>>
RamBin == <<Slash>> \o RamBinName \o <<Slash>>

\* Mutant: the RAM disk is searched before the disk's BIN.
try_run_RamFirst(name) ==
  LET here == read_file_into(Target(name))
      bin  == read_file_into(Cut(BinDir \o name, Cap))
      ram  == read_file_into(Cut(RamBin \o name, Cap))
  IN  IF here # NoNode \/ HasSlash(name) THEN here ELSE IF ram # NoNode THEN ram ELSE bin

\* A word that is no command is a program, looked for in three places.
try_run(name) ==
  LET here == read_file_into(Target(name))
      bin  == read_file_into(Cut(BinDir \o name, Cap))
      ram  == read_file_into(Cut(RamBin \o name, Cap))
  IN  IF here # NoNode \/ HasSlash(name) THEN here ELSE IF bin # NoNode THEN bin ELSE ram

Program(name, rest) ==
  /\ stage = "prompt"
  /\ Answer("word", name, rest, try_run(name), rest)
  /\ UNCHANGED cwd

-----------------------------------------------------------------------------
(* A program that runs saves files (api_write_file_impl) and ends. *)

Redirected(s) == ~HasSlash(s) /\ IsSuffix(ElfExt, [k \in DOMAIN s |-> Upper(s[k])])

\* Mutant: a program saved under a bare name stays in the root directory.
SavedTo_Root(path) ==
  disk_subpath(force_disk_abs(IF path[1] = Slash THEN Cut(path, Cap)
                              ELSE Cut(DiskPrefix \o <<Slash>> \o path, Cap)))

\* The path below the disk a save goes to, {} if it is refused.
SavedTo(path) ==
  LET abs  == force_disk_abs(IF path[1] = Slash THEN Cut(path, Cap)
                             ELSE Cut(DiskPrefix \o <<Slash>> \o path, Cap))
      rest == SubSeq(abs, Len(DiskPrefix) + 1, Len(abs))
      s    == IF rest # <<>> /\ rest[1] = Slash THEN Tail(rest) ELSE rest
  IN  IF Redirected(s) THEN disk_subpath(Cut(BinDir \o s, Cap)) ELSE disk_subpath(abs)

\* f with the value v at x.
With(f, x, v) == [y \in DOMAIN f \cup {x} |-> IF y = x THEN v ELSE f[y]]

\* A save that succeeds; its sector writes, and how they fail, are Fat32Write's,
\* and so is a directory of the name.  parent_dir_for walks to the directory.
Save(path) ==
  /\ stage = "app" /\ mounted /\ saves < MaxSaves
  /\ path # <<>> /\ SavedTo(path) # {}
  /\ LET parts == Parts(One(SavedTo(path)))
     IN  /\ parts # <<>>
         /\ Walk(Front(parts))[1] = "dir"
         /\ LET dir   == Walk(Front(parts))[2]
                field == up11(Last(parts))
            IN  /\ Append(dir, field) \notin Dirs
                /\ files' = With(files, <<dir, field>>, saves + 1)
  /\ saves' = saves + 1
  /\ saved' = With(saved, path, saves + 1)
  /\ last' = Nothing
  /\ UNCHANGED <<setup, cwd>>

Exit ==
  /\ stage = "app" /\ stage' = "prompt" /\ last' = Nothing
  /\ UNCHANGED <<sector0, devsel, late, part, vol, mounted, tableFrom, bootFrom, boot, faults>>
  /\ UNCHANGED <<cwd, files, saved, saves>>

Command ==
  \E arg \in Args :
    \/ Cd(arg) \/ Ls(arg) \/ Cat(arg)
    \/ \E rest \in Rests : Run(arg, rest)
    \/ Program(arg, <<>>)

Next == Boot \/ Prompt \/ Command \/ (\E path \in SavePaths : Save(path)) \/ Exit

Spec == Init /\ [][Next]_vars

-----------------------------------------------------------------------------
(* Properties. *)

\* The type invariant; with it, that the working directory and its terminator
\* stay in their buffer whatever is typed, and that every file is in a directory.
TypeOK ==
  /\ stage \in {"slave", "master", "mbr", "mount", "done", "prompt", "answered", "app", "halted"}
  /\ devsel \in Drives /\ late \in Drives \cup {NoDrive}
  /\ mounted \in BOOLEAN /\ Len(cwd) < Cap
  /\ \A f \in DOMAIN files : /\ f[1] \in Dirs /\ Append(f[1], f[2]) \notin Dirs
                             /\ Len(f[2]) = BaseLen + ExtLen /\ files[f] \in 0 .. saves
  /\ DOMAIN saved \subseteq SavePaths /\ \A p \in DOMAIN saved : saved[p] \in 1 .. saves

\* What components name on the disk, without walking.
Find(comps) ==
  LET f == [k \in DOMAIN comps |-> up11(comps[k])]
  IN  IF f \in Dirs THEN DirNode(f)
      ELSE IF f # <<>> /\ <<Front(f), Last(f)>> \in DOMAIN files
      THEN FileNode(<<Front(f), Last(f)>>) ELSE NoNode

Only(kind, node) == IF node[1] = kind THEN node ELSE NoNode

\* An absolute path with or without the disk's name means a place on the disk;
\* a first component that only begins with that name is taken for it.
UnderDisk(comps) == comps # <<>> /\ comps[1] = DiskName
OnDisk(comps)    == IF UnderDisk(comps) THEN Tail(comps) ELSE comps
Clash(comps)     == comps # <<>> /\ IsStrictPrefix(DiskName, comps[1])

\* Names that both readers of a directory take for the same entry.
Short(c) ==
  LET dots == {k \in DOMAIN c : c[k] = "."}
  IN  \/ dots = {} /\ Len(c) \in 1 .. BaseLen
      \/ \E k \in 2 .. BaseLen + 1 : dots = {k} /\ Len(c) - k \in 1 .. ExtLen

Clear(line)  == Plain(line) /\ Fits(last.from, line)
NoDots(line) == \A k \in DOMAIN Parts(line) : Parts(line)[k] \notin {<<".">>, <<".", ".">>}
AllUncut(comps) == \A k \in DOMAIN comps : Uncut(comps[k])

\* The working directory is the root, or a directory of the mounted disk:
\* no sequence of cd, of paths with dots or cut at the buffer's end, leaves it
\* at a file or at nothing.
CwdIsDirectory ==
  IF mounted THEN Find(OnDisk(Parts(cwd)))[1] = "dir" ELSE cwd = <<Slash>>

\* A path that is typed means what paths usually mean, a stack of components
\* from the working directory: for cd, which then is in that directory; for
\* ls, unless seg11 cuts a component short of its field, which needs many dots:
\* cd can enter a directory that ls then does not find, or takes for another;
\* for cat from the root, and without dots.
PathsMean ==
  mounted /\ Clear(last.arg) =>
    LET at == OnDisk(Meaning(last.from, last.arg))
        clash == Clash(Meaning(last.from, last.arg))
        top   == Parts(last.arg)
        below == IF last.arg # <<>> /\ last.arg[1] = Slash THEN OnDisk(top) ELSE top
    IN  /\ last.cmd = "cd" /\ last.arg # <<>> /\ ~clash =>
             IF Find(at)[1] = "dir"
             THEN last.reply = Find(at) /\ Find(OnDisk(Parts(cwd))) = Find(at)
             ELSE last.reply = Refused /\ cwd = last.from
        /\ last.cmd = "ls" /\ ~clash /\ AllUncut(at) => last.reply = Only("dir", Find(at))
        /\ last.cmd = "cat" /\ NoDots(last.arg) /\ (\A k \in DOMAIN top : Short(top[k]))
           /\ (last.arg[1] = Slash => ~Clash(top)) =>
             last.reply = Only("file", Find(below))

Spaceless(s) == \A k \in DOMAIN s : s[k] # Space
Roomy(name)  == \A dir \in {BinDir, RamBin} : Len(dir) + Len(name) < Cap

\* A word runs the file it means from the working directory on the disk; else,
\* if it is a name alone, the one in the disk's BIN, else the one in the RAM
\* disk's bin.  run starts what its path means, on the disk or in the RAM disk
\* as the path says, and hands over the rest of the line, unless dots stand in it
\* or before it, or a slash at its end; a space in the working directory's name
\* is taken for the end of the path.  On the disk this holds for paths whose
\* components seg11 does not cut short of their field.  Looking on a disk that is
\* not mounted follows a null pointer.
RunsFirstFound ==
  /\ last.cmd = "word" /\ last.arg # <<>> /\ Clear(last.arg) /\ ~Clash(Meaning(last.from, last.arg))
     /\ (HasSlash(last.arg) \/ (Roomy(last.arg) /\ Uncut(last.arg)))
     /\ AllUncut(OnDisk(Meaning(last.from, last.arg))) =>
       LET here == Only("file", Find(OnDisk(Meaning(last.from, last.arg))))
           bin  == Only("file", Find(<<BinName, last.arg>>))
           ram  == IF <<RamBinName, last.arg>> \in RamFiles THEN RamNode(<<RamBinName, last.arg>>)
                   ELSE NoNode
       IN  last.reply = IF ~mounted THEN Fault
                        ELSE IF here # NoNode \/ HasSlash(last.arg) THEN here
                        ELSE IF bin # NoNode THEN bin ELSE ram
  /\ last.cmd = "run" /\ Clear(last.arg \o <<Space>> \o last.rest)
     /\ Plain(last.arg) /\ Plain(last.rest) /\ NoDots(last.rest)
     /\ Spaceless(last.from) /\ Spaceless(last.arg)
     /\ (last.rest = <<>> \/ (Last(last.arg) # "." /\ Last(last.rest) # Slash)) =>
       LET m == Meaning(last.from, last.arg)
       IN  /\ last.passed = last.rest
           /\ (UnderDisk(m) => AllUncut(Tail(m))) =>
                last.reply = CASE ~UnderDisk(m) -> IF m \in RamFiles THEN RamNode(m) ELSE NoNode
                               [] UnderDisk(m) /\ mounted -> Only("file", Find(Tail(m)))
                               [] OTHER -> Fault

\* What a program saved is what cat shows under the same path, until a program
\* saves to that place again, in whatever spelling.  A program saved under a bare
\* name is what that word runs, unless the working directory has a file of the
\* name, or its own path would be cut, as a whole or by seg11.  That holds for
\* names that both readers take for the same entry, and as long as no save's
\* path is cut or doubles a slash.
Named(path) == IF path[1] = Slash THEN OnDisk(Parts(path)) ELSE Parts(path)
Bare(path) ==
  /\ Len(Named(path)) = 1 /\ Redirected(Named(path)[1])
  /\ \E pre \in {<<>>, <<Slash>>, DiskPrefix \o <<Slash>>} : path = pre \o Named(path)[1]
Place(path) == IF Bare(path) THEN <<BinName, Named(path)[1]>> ELSE Named(path)
SamePlace(p, q) ==
  [k \in DOMAIN Place(p) |-> up11(Place(p)[k])] = [k \in DOMAIN Place(q) |-> up11(Place(q)[k])]
SavedIsFound ==
  (\A q \in DOMAIN saved : Roomy(q) /\ Plain(q) /\ (q[1] = Slash => ~Clash(Parts(q)))) =>
    \A p \in DOMAIN saved :
      LET newest == {saved[q] : q \in {q \in DOMAIN saved : SamePlace(p, q)}}
          name   == Named(p)[1]
          node   == IF Bare(p) THEN try_run(name) ELSE CatNode(p)
      IN  \/ \E k \in DOMAIN Named(p) : ~Short(Named(p)[k])
          \/ Bare(p) /\ ~(/\ Fits(cwd, name) /\ ~Clash(Meaning(cwd, name))
                         /\ AllUncut(OnDisk(Meaning(cwd, name))))
          \/ Bare(p) /\ Find(OnDisk(Meaning(cwd, name)))[1] = "file"
          \/ node[1] = "file" /\ \A n \in newest : n <= files[node[2]]
               /\ files[node[2]] \in newest
=============================================================================

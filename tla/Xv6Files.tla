------------------------------ MODULE Xv6Files ------------------------------
(* LAB05: the system calls on files of the xv6 kernel (sysfile.c) and the    *)
(* table of open files beneath them (file.c).  The inodes, the log, the pipes *)
(* and fork are other parts of the kernel.  What runs between begin_trans and *)
(* commit_trans is one step: one transaction is open at a time, and all that *)
(* changes a directory or a link count is in one.  A call that returns -1 and *)
(* has changed nothing is no step.                                           *)
EXTENDS Integers, FiniteSets, SequencesExt

CONSTANTS
    Callers, Shell,         \* processes; Shell forks the others
    NOFILE, NFILE, NINODE,
    Names, Paths,           \* names in directories; paths, sequences of names
    Modes,                  \* how files are opened: <<readable, writable>>
    MaxSize,                \* bound on the chunks of a file
    MaxCalls                \* bound on the calls of all processes

ASSUME FilesAssumption ==
    /\ IsFiniteSet(Callers) /\ Shell \in Callers
    /\ NOFILE \in Nat /\ NFILE \in Nat /\ NINODE \in Nat \ {0}
    /\ IsFiniteSet(Names)
    /\ \A path \in Paths : path \in Seq(Names) /\ Len(path) \in {1, 2}
    /\ Modes \subseteq BOOLEAN \X BOOLEAN
    /\ MaxSize \in Nat /\ MaxCalls \in Nat

VARIABLES
    ftable,     \* the open files, in the order filealloc looks at them
    ofile,      \* ofile[p]: the descriptors of p, 0 where free
    inode,      \* [type, nlink, ref, size, entries]
    pending,    \* what a process has looked up and not yet used
    alive,      \* the processes there are
    calls       \* calls made, for the bound

fileVars == <<ftable, ofile, inode, pending, alive, calls>>

Inodes == 1 .. NINODE
ROOT == 1
FreeInode == [type |-> "free", nlink |-> 0, ref |-> 0, size |-> 0, entries |-> [n \in Names |-> 0]]
FreeFile == [ref |-> 0, type |-> "none", ip |-> 0, off |-> 0, readable |-> FALSE, writable |-> FALSE]
Nothing == [op |-> "none"]

FileInit ==
    /\ ftable = [f \in 1 .. NFILE |-> FreeFile]
    /\ ofile = [p \in Callers |-> [fd \in 1 .. NOFILE |-> 0]]
    /\ inode = [i \in Inodes |-> IF i = ROOT THEN [FreeInode EXCEPT !.type = "dir", !.nlink = 1]
                                 ELSE FreeInode]
    /\ pending = [p \in Callers |-> Nothing]
    /\ alive = {Shell}
    /\ calls = 0

-----------------------------------------------------------------------------
(* The table of open files and the descriptors; 0 where nothing is free *)

filealloc(ft) == SelectInSeq(ft, LAMBDA f : f.ref = 0)
fdalloc(fds) == SelectInSeq(fds, LAMBDA f : f = 0)
filedup(ft, f) == [ft EXCEPT ![f].ref = @ + 1]

(* The last reference gives the entry back; its inode is let go of later. *)
fileclose(ft, f) ==
    IF ft[f].ref > 1 THEN [ft EXCEPT ![f].ref = @ - 1]
    ELSE [ft EXCEPT ![f].ref = 0, ![f].type = "none"]

(* Inodes in use and the names of directories (external) *)
iget(t, i) == [t EXCEPT ![i].ref = @ + 1]
iput(t, i) ==
    IF t[i].ref = 1 /\ t[i].nlink = 0 THEN [t EXCEPT ![i] = FreeInode]
    ELSE [t EXCEPT ![i].ref = @ - 1]
nameiparent(t, path) ==
    IF Len(path) = 1 THEN ROOT
    ELSE LET d == t[ROOT].entries[path[1]] IN IF d # 0 /\ t[d].type = "dir" THEN d ELSE 0
namei(t, path) ==
    LET dp == nameiparent(t, path) IN IF dp = 0 THEN 0 ELSE t[dp].entries[Last(path)]
ialloc(t) == SelectInSeq(t, LAMBDA i : i.type = "free")

isdirempty(t, d) == \A n \in Names : t[d].entries[n] = 0

(* The inode of the path, new or an existing file opened as one, with a
   reference for the caller; ip is 0 where the call fails. *)
create(t, path, type) ==
    LET dp == nameiparent(t, path)
        ip == namei(t, path)
        new == ialloc(t)
        linked == [t EXCEPT ![dp].entries[Last(path)] = new,
                            ![dp].nlink = IF type = "dir" THEN @ + 1 ELSE @,
                            ![new] = [FreeInode EXCEPT !.type = type, !.nlink = 1, !.ref = 1]]
    IN  IF dp = 0 \/ (ip # 0 /\ ~ (type = "file" /\ t[ip].type = "file"))
          THEN [ip |-> 0, table |-> t]
        ELSE IF ip # 0 THEN [ip |-> ip, table |-> iget(t, ip)]
        ELSE [ip |-> new, table |-> linked]

(* A bound: as long as there is an inode to allocate, ialloc does not panic. *)
InodeLeft == ialloc(inode) # 0

-----------------------------------------------------------------------------
(* System calls *)

(* p makes a call. *)
Ready(p) ==
    /\ p \in alive /\ pending[p] = Nothing
    /\ calls < MaxCalls
    /\ calls' = calls + 1
IsOpen(p, fd) == ofile[p][fd] # 0

sys_dup(p) ==
    /\ Ready(p) /\ fdalloc(ofile[p]) # 0
    /\ \E fd \in {fd \in 1 .. NOFILE : IsOpen(p, fd)} :
          /\ ofile' = [ofile EXCEPT ![p][fdalloc(ofile[p])] = ofile[p][fd]]
          /\ ftable' = filedup(ftable, ofile[p][fd])
    /\ UNCHANGED <<inode, pending, alive>>

sys_read(p) ==
    /\ Ready(p)
    /\ \E fd \in {fd \in 1 .. NOFILE : IsOpen(p, fd)} :
          LET f == ftable[ofile[p][fd]] IN
          /\ f.readable /\ f.type = "inode" /\ f.off < inode[f.ip].size
          /\ ftable' = [ftable EXCEPT ![ofile[p][fd]].off = @ + 1]
    /\ UNCHANGED <<ofile, inode, pending, alive>>

(* filewrite: a transaction for each chunk; the inode's lock is given up between *)
Chunk(f) ==
    /\ ftable' = [ftable EXCEPT ![f].off = @ + 1]
    /\ inode' = [inode EXCEPT ![ftable[f].ip].size =
                    IF ftable[f].off = @ THEN @ + 1 ELSE @]

sys_write(p) ==
    /\ Ready(p)
    /\ \E fd \in {fd \in 1 .. NOFILE : IsOpen(p, fd)}, n \in 1 .. 2 :
          LET f == ofile[p][fd] IN
          /\ ftable[f].writable /\ ftable[f].type = "inode" /\ inode[ftable[f].ip].type = "file"
          /\ pending' = [pending EXCEPT ![p] = [op |-> "write", file |-> f, left |-> n]]
    /\ UNCHANGED <<ftable, ofile, inode, alive>>
filewrite(p) ==
    /\ pending[p].op = "write"
    /\ LET f == pending[p].file IN
          /\ ftable[f].off < MaxSize
          /\ Chunk(f)
          /\ pending' = [pending EXCEPT ![p] =
                IF @.left = 1 THEN Nothing ELSE [op |-> "write", file |-> f, left |-> @.left - 1]]
    /\ UNCHANGED <<ofile, alive, calls>>

(* The descriptor goes first; who drops the last reference to the file puts its
   inode in a transaction of its own. *)
sys_close(p) ==
    /\ Ready(p)
    /\ \E fd \in {fd \in 1 .. NOFILE : IsOpen(p, fd)} :
          LET f == ofile[p][fd] IN
          /\ ofile' = [ofile EXCEPT ![p][fd] = 0]
          /\ ftable' = fileclose(ftable, f)
          /\ pending' = [pending EXCEPT ![p] =
                IF ftable[f].ref = 1 /\ ftable[f].type = "inode"
                  THEN [op |-> "iput", ip |-> ftable[f].ip] ELSE Nothing]
    /\ UNCHANGED <<inode, alive>>
PutClosed(p) ==
    /\ pending[p].op = "iput"
    /\ inode' = iput(inode, pending[p].ip)
    /\ pending' = [pending EXCEPT ![p] = Nothing]
    /\ UNCHANGED <<ftable, ofile, alive, calls>>

(* link(old, new): old is looked up before the transaction begins. *)
sys_link(p) ==
    /\ Ready(p)
    /\ \E old, new \in Paths :
          LET ip == namei(inode, old) IN
          /\ ip # 0
          /\ inode' = iget(inode, ip)
          /\ pending' = [pending EXCEPT ![p] = [op |-> "link", ip |-> ip, new |-> new]]
    /\ UNCHANGED <<ftable, ofile, alive>>

(* The link count is raised before the new name is known to be free. *)
LinkNotUndone(p) ==
    /\ pending[p].op = "link"
    /\ LET ip == pending[p].ip
           new == pending[p].new
           raised == [inode EXCEPT ![ip].nlink = @ + 1]
           dp == nameiparent(raised, new)
           bad == iput(raised, ip)
       IN  inode' = IF inode[ip].type = "dir" THEN iput(inode, ip)
                    ELSE IF dp = 0 \/ raised[dp].entries[Last(new)] # 0 THEN bad
                    ELSE iput([raised EXCEPT ![dp].entries[Last(new)] = ip], ip)
    /\ pending' = [pending EXCEPT ![p] = Nothing]
    /\ UNCHANGED <<ftable, ofile, alive, calls>>
Link(p) ==
    /\ pending[p].op = "link"
    /\ LET ip == pending[p].ip
           new == pending[p].new
           raised == [inode EXCEPT ![ip].nlink = @ + 1]
           dp == nameiparent(raised, new)
           bad == iput([raised EXCEPT ![ip].nlink = @ - 1], ip)
       IN  inode' = IF inode[ip].type = "dir" THEN iput(inode, ip)
                    ELSE IF dp = 0 \/ raised[dp].entries[Last(new)] # 0 THEN bad
                    ELSE iput([raised EXCEPT ![dp].entries[Last(new)] = ip], ip)
    /\ pending' = [pending EXCEPT ![p] = Nothing]
    /\ UNCHANGED <<ftable, ofile, alive, calls>>

(* unlink(path): the directory is looked up before the transaction begins. *)
sys_unlink(p) ==
    /\ Ready(p)
    /\ \E path \in Paths :
          LET dp == nameiparent(inode, path) IN
          /\ dp # 0
          /\ inode' = iget(inode, dp)
          /\ pending' = [pending EXCEPT ![p] = [op |-> "unlink", dp |-> dp, name |-> Last(path)]]
    /\ UNCHANGED <<ftable, ofile, alive>>

(* A directory that is not empty stays; one that goes no longer counts as a
   link to its parent. *)
Unlink(p) ==
    /\ pending[p].op = "unlink"
    /\ LET dp == pending[p].dp
           name == pending[p].name
           ip == inode[dp].entries[name]
           bad == iput(inode, dp)
           unnamed == [inode EXCEPT ![dp].entries[name] = 0,
                                    ![dp].nlink = IF inode[ip].type = "dir" THEN @ - 1 ELSE @]
           unlinked == [iget(iput(unnamed, dp), ip) EXCEPT ![ip].nlink = @ - 1]
       IN  inode' = IF ip = 0 THEN bad
                    ELSE IF inode[ip].type = "dir" /\ ~ isdirempty(inode, ip) THEN bad
                    ELSE iput(unlinked, ip)
    /\ pending' = [pending EXCEPT ![p] = Nothing]
    /\ UNCHANGED <<ftable, ofile, alive, calls>>

(* A file that was made for a call that finds no room stays. *)
OpenInto(p, ip, table, readable, writable) ==
    LET f == filealloc(ftable)
        fd == fdalloc(ofile[p])
    IN  IF f = 0 \/ fd = 0
          THEN inode' = iput(table, ip) /\ UNCHANGED <<ftable, ofile>>
          ELSE /\ ftable' = [ftable EXCEPT ![f] = [ref |-> 1, type |-> "inode", ip |-> ip, off |-> 0,
                                         readable |-> readable, writable |-> writable]]
               /\ ofile' = [ofile EXCEPT ![p][fd] = f]
               /\ inode' = table

sys_open(p) ==
    /\ Ready(p)
    /\ \E path \in Paths, mode \in Modes :
          LET ip == namei(inode, path) IN
          /\ ip # 0 /\ (inode[ip].type = "dir" => mode = <<TRUE, FALSE>>)
          /\ OpenInto(p, ip, iget(inode, ip), mode[1], mode[2])
    /\ UNCHANGED <<pending, alive>>

OpenCreating(p) ==
    /\ Ready(p) /\ InodeLeft
    /\ \E path \in Paths, mode \in Modes :
          LET made == create(inode, path, "file") IN
          /\ made.ip # 0
          /\ OpenInto(p, made.ip, made.table, mode[1], mode[2])
    /\ UNCHANGED <<pending, alive>>

(* mkdir and mknod: the new inode is put at once. *)
sys_mkdir(p) ==
    /\ Ready(p) /\ InodeLeft
    /\ \E path \in Paths, type \in {"dir", "dev"} :
          LET made == create(inode, path, type) IN
          made.ip # 0 /\ inode' = iput(made.table, made.ip)
    /\ UNCHANGED <<ftable, ofile, pending, alive>>

(* Two files from pipealloc (external), which may have none; where the second
   descriptor is not to be had the first is given back, and the files. *)
PipeKeeping(p) ==
    /\ Ready(p)
    /\ LET rf == filealloc(ftable)
           end(readable) == [FreeFile EXCEPT !.ref = 1, !.type = "pipe", !.readable = readable,
                                             !.writable = ~ readable]
           one == [ftable EXCEPT ![rf] = end(TRUE)]
           wf == filealloc(one)
           two == [one EXCEPT ![wf] = end(FALSE)]
           fd0 == fdalloc(ofile[p])
           with0 == [ofile[p] EXCEPT ![fd0] = rf]
           fd1 == fdalloc(with0)
       IN  /\ rf # 0 /\ wf # 0 /\ fd0 # 0
           /\ IF fd1 = 0
                THEN /\ ofile' = [ofile EXCEPT ![p] = with0]
                     /\ ftable' = fileclose(fileclose(two, rf), wf)
                ELSE /\ ofile' = [ofile EXCEPT ![p] = [with0 EXCEPT ![fd1] = wf]]
                     /\ ftable' = two
    /\ UNCHANGED <<inode, pending, alive>>
sys_pipe(p) ==
    /\ Ready(p)
    /\ LET rf == filealloc(ftable)
           end(readable) == [FreeFile EXCEPT !.ref = 1, !.type = "pipe", !.readable = readable,
                                             !.writable = ~ readable]
           one == [ftable EXCEPT ![rf] = end(TRUE)]
           wf == filealloc(one)
           two == [one EXCEPT ![wf] = end(FALSE)]
           fd0 == fdalloc(ofile[p])
           with0 == [ofile[p] EXCEPT ![fd0] = rf]
           fd1 == fdalloc(with0)
       IN  /\ rf # 0 /\ wf # 0 /\ fd0 # 0
           /\ IF fd1 = 0
                THEN /\ ofile' = [ofile EXCEPT ![p] = [with0 EXCEPT ![fd0] = 0]]
                     /\ ftable' = fileclose(fileclose(two, rf), wf)
                ELSE /\ ofile' = [ofile EXCEPT ![p] = [with0 EXCEPT ![fd1] = wf]]
                     /\ ftable' = two
    /\ UNCHANGED <<inode, pending, alive>>

(* fork (external) gives the child the descriptors and dups each file. *)
fork_dup(p, q) ==
    /\ Ready(p) /\ p = Shell /\ q \notin alive
    /\ alive' = alive \cup {q}
    /\ ofile' = [ofile EXCEPT ![q] = ofile[p]]
    /\ ftable' = [f \in 1 .. NFILE |-> [ftable[f] EXCEPT !.ref =
                     @ + Cardinality({fd \in 1 .. NOFILE : ofile[p][fd] = f})]]
    /\ UNCHANGED <<inode, pending>>

FileNext ==
    \/ \E p \in Callers : sys_dup(p) \/ sys_read(p) \/ sys_write(p) \/ filewrite(p) \/ sys_close(p)
                        \/ PutClosed(p) \/ sys_link(p) \/ Link(p) \/ sys_unlink(p) \/ Unlink(p)
                        \/ sys_open(p) \/ OpenCreating(p) \/ sys_mkdir(p) \/ sys_pipe(p)
    \/ \E p, q \in Callers : fork_dup(p, q)

FileSpec == FileInit /\ [][FileNext]_fileVars

-----------------------------------------------------------------------------
(* Properties *)

Holds(p, i) ==
    \/ pending[p].op \in {"iput", "link"} /\ pending[p].ip = i
    \/ pending[p].op = "unlink" /\ pending[p].dp = i

(* An open file counts the descriptors of all processes that are it, and an inode
   the open files and the calls under way that use it, at the limits of both
   tables too: nothing is freed under a user and nothing is left behind. *)
ReferencesCounted ==
    /\ \A f \in 1 .. NFILE :
          ftable[f].ref = Cardinality({x \in Callers \X (1 .. NOFILE) : ofile[x[1]][x[2]] = f})
    /\ \A i \in Inodes :
          inode[i].ref = Cardinality({f \in 1 .. NFILE : ftable[f].type = "inode" /\ ftable[f].ip = i})
                         + Cardinality({p \in Callers : Holds(p, i)})

(* An inode's link count is the number of names it has, and for a directory the
   directories in it besides; one that nobody uses is free when it has no name,
   however a link, an unlink and a close of it cross. *)
LinksCounted ==
    \A i \in Inodes :
        LET named == {x \in Inodes \X Names : inode[x[1]].entries[x[2]] = i}
            inside == {n \in Names : inode[i].entries[n] # 0 /\ inode[inode[i].entries[n]].type = "dir"}
        IN  /\ inode[i].nlink = Cardinality(named) + Cardinality(inside) + (IF i = ROOT THEN 1 ELSE 0)
            /\ inode[i].type = "free" <=> inode[i].nlink = 0 /\ inode[i].ref = 0
=============================================================================

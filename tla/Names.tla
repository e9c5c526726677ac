-------------------------------- MODULE Names --------------------------------
(***************************************************************************)
(* Names of files: directories, links, the inode cache and the file table  *)
(* (fs.c, sysfile.c, file.c), without the contents of files.               *)
(*                                                                         *)
(* A system call is a sequence of steps, each of which takes at most one   *)
(* inode lock, as its first deed.  What is done under the lock and given   *)
(* back before the next lock is taken is one step.  iput() is two steps:   *)
(* the test under the inode's lock, and the decrement of ref under         *)
(* icache.lock.  A call lists the inodes it is going to iput() next in     *)
(* th[p].puts.                                                             *)
(*                                                                         *)
(* The inode cache is write-through; ino[i] is the inode on disk and, if   *)
(* valid, its copy in the cache.  Transactions and crashes are the         *)
(* business of module Log.                                                 *)
(***************************************************************************)
EXTENDS Integers, Sequences, FiniteSets

CONSTANTS
  Process,
  Name,        \* names of directory entries other than "." and ".."
  ninodes,     \* sb.ninodes
  NINODE, NFILE, NOFILE,
  Calls,       \* the system calls that are made: records [op, abs, path] and for link [.., new]
  MaxCalls,    \* bound: the number of system calls
  Trees,       \* file systems to start from: inode number -> type, entries and ".."
  Cwds,        \* current directories to start from
  Nobody

Inum == 1 .. ninodes - 1
ROOTINO == 1
Fd == 0 .. NOFILE - 1
File == 1 .. NFILE

ASSUME NamesAssumption ==
  /\ Nobody \notin Process
  /\ {ninodes, NINODE, NFILE, NOFILE} \subseteq Nat \ {0, 1}
  /\ MaxCalls \in Nat
  /\ Trees \subseteq [Inum -> [type : {"none", "dir", "file", "dev"},
                              ent : [Name -> Inum \union {0}], up : Inum \union {0}]]
  /\ Cwds \subseteq Inum

VARIABLES
  ino,       \* inode -> dinode and cache entry
  ftable,    \* file -> ref and ip
  ofile,     \* process -> descriptor -> file, 0 if none
  cwd,       \* process -> inode
  th,        \* process -> where it is, and its local variables
  panic,     \* the message of panic(), "" while the kernel runs
  calls,     \* system calls made so far
  \* History.
  leaked,    \* inode -> references that file_inode_exists and change_file_size dropped
  stray,     \* inode -> names it had in directories that were freed
  orphaned   \* freed inodes to which the ".." of some directory still points

vars == <<ino, ftable, ofile, cwd, th, panic, calls, leaked, stray, orphaned>>

NoEntries == [n \in Name |-> 0]

\* The entries of all directories of f that name i, and the subdirectories of i.
Links(f, i) ==
  Cardinality({x \in Inum \X Name : f[x[1]].type = "dir" /\ f[x[1]].ent[x[2]] = i})
  + Cardinality({n \in Name : f[i].ent[n] # 0 /\ f[f[i].ent[n]].type = "dir"})

Idle == [at |-> "user", call |-> [op |-> "none"], path |-> <<>>, name |-> "",
         ip |-> 0, dp |-> 0, old |-> 0, second |-> FALSE, puts |-> <<>>, tested |-> FALSE]

\* A file system at rest, with the processes in some of its directories.
\* mkfs gives the root a link of its own.
Init ==
  /\ \E tree \in Trees :
       /\ cwd \in [Process -> {i \in Cwds : tree[i].type = "dir"}]
       /\ ino = [i \in Inum |->
                   [type |-> tree[i].type, ent |-> tree[i].ent, up |-> tree[i].up,
                    nlink |-> Links(tree, i) + (IF i = ROOTINO THEN 1 ELSE 0),
                    ref |-> Cardinality({p \in Process : cwd[p] = i}),
                    valid |-> \E p \in Process : cwd[p] = i,
                    lock |-> Nobody]]
  /\ ftable = [f \in File |-> [ref |-> 0, ip |-> 0]]
  /\ ofile = [p \in Process |-> [d \in Fd |-> 0]]
  /\ th = [p \in Process |-> Idle]
  /\ panic = ""
  /\ calls = 0
  /\ leaked = [i \in Inum |-> 0] /\ stray = [i \in Inum |-> 0] /\ orphaned = {}

-----------------------------------------------------------------------------
(* The inode cache.                                                        *)

\* iget, idup: one more reference; a recycled cache entry is not valid.
iget(f, i) == [f EXCEPT ![i].ref = @ + 1, ![i].valid = @ /\ f[i].ref > 0]

\* iget panics when every entry of the cache is in use.
Overflows(f) == Cardinality({i \in Inum : f[i].ref > 0}) > NINODE

\* ilock by p, and iunlock.
ilock(f, i, p) == [f EXCEPT ![i].lock = p, ![i].valid = TRUE]
iunlock(f, i) == [f EXCEPT ![i].lock = Nobody]

\* ilock and iunlock in one step leave this behind.
Seen(f, i) == [f EXCEPT ![i].valid = TRUE]

\* The inode whose lock p takes in its next step, 0 if none.
Wants(p) ==
  LET t == th[p] IN
  IF t.puts # <<>> THEN IF t.tested THEN 0 ELSE Head(t.puts)
  ELSE IF t.at \in {"open", "create2", "link1", "linkbad", "chdir", "unlink2", "resize2"}
          \/ (t.at = "walk" /\ t.path # <<>>)
       THEN t.ip
  ELSE IF t.at \in {"create1", "unlink1", "link2"} THEN t.dp
  ELSE 0

\* What ilock finds on disk has been freed.
NoType(i) == ~ino[i].valid /\ ino[i].type = "none"

\* p is at label l with nothing left to put, and gets the lock it needs.
At(p, l) ==
  /\ panic = "" /\ th[p].at = l /\ th[p].puts = <<>>
  /\ Wants(p) # 0 => ino[Wants(p)].lock = Nobody /\ ~NoType(Wants(p))

\* p goes on with the local variables t, over the inodes f.
Goes(p, t, f) ==
  /\ ino' = f
  /\ th' = [th EXCEPT ![p] = t]
  /\ panic' = IF Overflows(f) THEN "iget: no inodes" ELSE ""

\* The call returns after the iput()s in s.
Return(s) == [Idle EXCEPT !.puts = s]

files == <<ftable, ofile>>
history == <<leaked, stray, orphaned>>

LockPanic(p) ==
  /\ panic = "" /\ th[p].puts = <<>>
  /\ Wants(p) # 0 /\ ino[Wants(p)].lock = Nobody /\ NoType(Wants(p))
  /\ panic' = "ilock: no type"
  /\ UNCHANGED <<ino, files, cwd, th, calls, history>>

\* Mutant: the inode is freed while it has a name.
LastPutNamed(i) == ino[i].valid /\ ino[i].ref = 1

\* iput's test for the last reference to an inode without links.
LastPut(i) == ino[i].valid /\ ino[i].nlink = 0 /\ ino[i].ref = 1

\* iput, under the inode's lock: if it is the last reference to an inode
\* without links, itrunc and free the inode.
IputTest(p) ==
  LET i == Head(th[p].puts)
      lost(j) == Cardinality({n \in Name : ino[i].type = "dir" /\ ino[i].ent[n] = j})
  IN /\ panic = "" /\ th[p].puts # <<>> /\ ~th[p].tested
     /\ ino[i].lock = Nobody
     /\ th' = [th EXCEPT ![p].tested = TRUE]
     /\ IF LastPut(i)
        THEN /\ ino' = [ino EXCEPT ![i].type = "none", ![i].valid = FALSE,
                                   ![i].ent = NoEntries, ![i].up = 0]
             /\ stray' = [j \in Inum |-> IF j = i THEN 0 ELSE stray[j] + lost(j)]
             /\ orphaned' = IF \E d \in Inum \ {i} : ino[d].type = "dir" /\ ino[d].up = i
                            THEN orphaned \union {i} ELSE orphaned
        ELSE UNCHANGED <<ino, stray, orphaned>>
     /\ UNCHANGED <<files, cwd, panic, calls, leaked>>

\* iput, under icache.lock: ip->ref--.
IputDrop(p) ==
  /\ panic = "" /\ th[p].tested
  /\ ino' = [ino EXCEPT ![Head(th[p].puts)].ref = @ - 1]
  /\ th' = [th EXCEPT ![p].tested = FALSE, ![p].puts = Tail(@)]
  /\ UNCHANGED <<files, cwd, panic, calls, history>>

-----------------------------------------------------------------------------
(* Path names.                                                             *)

\* dirlookup: the inode number of entry n of directory d, 0 if there is none.
dirlookup(d, n) ==
  CASE n = "." -> d
    [] n = ".." -> ino[d].up
    [] OTHER -> ino[d].ent[n]

SysCall(p) ==
  /\ At(p, "user") /\ calls < MaxCalls
  /\ \E c \in Calls :
       LET i == IF c.abs THEN ROOTINO ELSE cwd[p] IN
       Goes(p, [Idle EXCEPT !.at = "walk", !.call = c, !.path = c.path, !.ip = i], iget(ino, i))
  /\ calls' = calls + 1
  /\ UNCHANGED <<files, cwd, history>>

\* The call looks for the parent directory: nameiparent.
parent(t) == t.call.op \in {"create", "mkdir", "mknod", "unlink"} \/ (t.call.op = "link" /\ t.second)

\* Where a call goes on when namei or nameiparent returns an inode.
Found(t) ==
  CASE t.call.op \in {"open", "openwrite"} -> "open"
    [] t.call.op \in {"create", "mkdir", "mknod"} -> "create1"
    [] t.call.op = "unlink" -> "unlink1"
    [] t.call.op = "link" -> IF t.second THEN "link2" ELSE "link1"
    [] t.call.op = "chdir" -> "chdir"
    [] t.call.op = "resize" -> IF t.second THEN "resize2" ELSE "resize1"

\* namex returns 0, after iput of s: link has a count to take back, and
\* change_file_size locks the inode 0 that its second namei returns.
NotFound(t, s) ==
  CASE t.call.op = "link" /\ t.second ->
         [t EXCEPT !.at = "linkbad", !.ip = t.old, !.old = 0, !.path = <<>>, !.puts = s]
    [] t.call.op = "resize" /\ t.second -> [t EXCEPT !.at = "ilock0", !.ip = 0, !.puts = s]
    [] OTHER -> Return(s)

\* One turn of the loop of namex.
Walk(p) ==
  LET t == th[p]
      i == t.ip
      next == dirlookup(i, Head(t.path))
  IN /\ At(p, "walk") /\ t.path # <<>>
     /\ IF ino[i].type # "dir"
        THEN Goes(p, NotFound(t, <<i>>), Seen(ino, i))
        ELSE IF parent(t) /\ Len(t.path) = 1
        THEN Goes(p, [t EXCEPT !.at = Found(t), !.dp = i, !.ip = 0,
                               !.name = Head(t.path), !.path = <<>>], Seen(ino, i))
        ELSE IF next = 0
        THEN Goes(p, NotFound(t, <<i>>), Seen(ino, i))
        ELSE Goes(p, [t EXCEPT !.ip = next, !.path = Tail(@), !.puts = <<i>>],
                  iget(Seen(ino, i), next))
     /\ UNCHANGED <<files, cwd, calls, history>>

\* The path is used up.
WalkEnd(p) ==
  LET t == th[p] IN
  /\ At(p, "walk") /\ t.path = <<>>
  /\ Goes(p, IF parent(t) THEN NotFound(t, <<t.ip>>) ELSE [t EXCEPT !.at = Found(t)], ino)
  /\ UNCHANGED <<files, cwd, calls, history>>

-----------------------------------------------------------------------------
(* System calls on names.                                                  *)

\* Some descriptor of p and some entry of the file table are free.
CanOpen(p) == (\E d \in Fd : ofile[p][d] = 0) /\ (\E f \in File : ftable[f].ref = 0)

\* The least element.
least(S) == CHOOSE x \in S : \A y \in S : x <= y

\* sys_open with inode i locked: filealloc and fdalloc, or give up.
OpenFile(p, i) ==
  IF CanOpen(p)
  THEN LET f == least({x \in File : ftable[x].ref = 0})
           d == least({x \in Fd : ofile[p][x] = 0})
       IN /\ ftable' = [ftable EXCEPT ![f] = [ref |-> 1, ip |-> i]]
          /\ ofile' = [ofile EXCEPT ![p][d] = f]
          /\ Goes(p, Return(<<>>), iunlock(Seen(ino, i), i))
  ELSE /\ Goes(p, Return(<<i>>), iunlock(Seen(ino, i), i))
       /\ UNCHANGED files

\* sys_open without O_CREATE: a directory can only be read.
Open(p) ==
  LET t == th[p] IN
  /\ At(p, "open")
  /\ IF ino[t.ip].type = "dir" /\ t.call.op = "openwrite"
     THEN Goes(p, Return(<<t.ip>>), Seen(ino, t.ip)) /\ UNCHANGED files
     ELSE OpenFile(p, t.ip)
  /\ UNCHANGED <<cwd, calls, history>>

TypeOf(op) == CASE op = "create" -> "file" [] op = "mkdir" -> "dir" [] op = "mknod" -> "dev"

\* create: lock the parent.  If the name is there, put the parent and look at
\* the inode.  Otherwise ialloc, fill in the inode and link it into the parent;
\* the parent is put while the new inode is locked.
Create1(p) ==
  LET t == th[p]
      dp == t.dp
      ip == dirlookup(dp, t.name)
      free == {i \in Inum : ino[i].type = "none"}
      new == least(free)
      type == TypeOf(t.call.op)
      made == [iget(Seen(ino, dp), new) EXCEPT
                 ![new] = [@ EXCEPT !.type = type, !.nlink = 1, !.lock = p, !.valid = TRUE,
                                    !.ent = NoEntries, !.up = IF type = "dir" THEN dp ELSE 0],
                 ![dp] = [@ EXCEPT !.nlink = IF type = "dir" THEN @ + 1 ELSE @,
                                   !.ent[t.name] = new]]
  IN /\ At(p, "create1")
     /\ \/ /\ ip # 0
           /\ Goes(p, [t EXCEPT !.at = "create2", !.ip = ip, !.dp = 0, !.puts = <<dp>>],
                   iget(Seen(ino, dp), ip))
           /\ UNCHANGED <<stray, orphaned>>
        \/ /\ ip = 0 /\ free # {}
           /\ Goes(p, [t EXCEPT !.at = "created", !.ip = new, !.dp = 0, !.puts = <<dp>>], made)
           /\ stray' = [stray EXCEPT ![new] = 0]
           /\ orphaned' = orphaned \ {new}
        \/ /\ ip = 0 /\ free = {}
           /\ panic' = "ialloc: no inodes"
           /\ UNCHANGED <<ino, th, stray, orphaned>>
     /\ UNCHANGED <<files, cwd, calls, leaked>>

\* create: the name was there.  Only open may take an existing file.
Create2(p) ==
  LET t == th[p] IN
  /\ At(p, "create2")
  /\ IF t.call.op = "create" /\ ino[t.ip].type = "file"
     THEN OpenFile(p, t.ip)
     ELSE Goes(p, Return(<<t.ip>>), Seen(ino, t.ip)) /\ UNCHANGED files
  /\ UNCHANGED <<cwd, calls, history>>

\* The rest of sys_open, sys_mkdir and sys_mknod after create made an inode.
Created(p) ==
  LET t == th[p] IN
  /\ At(p, "created")
  /\ IF t.call.op = "create"
     THEN OpenFile(p, t.ip)
     ELSE Goes(p, Return(<<t.ip>>), iunlock(ino, t.ip)) /\ UNCHANGED files
  /\ UNCHANGED <<cwd, calls, history>>

\* Mutant: the parent is not put when there is no such entry.
Unlink1Leaks(p) ==
  LET t == th[p]
      ip == dirlookup(t.dp, t.name)
  IN /\ At(p, "unlink1")
     /\ IF t.name \in {".", ".."} \/ ip = 0
        THEN Goes(p, Return(<<>>), Seen(ino, t.dp))
        ELSE Goes(p, [t EXCEPT !.at = "unlink2", !.ip = ip], iget(ilock(ino, t.dp, p), ip))
     /\ UNCHANGED <<files, cwd, calls, history>>

\* sys_unlink: lock the parent and find the entry.
Unlink1(p) ==
  LET t == th[p]
      ip == dirlookup(t.dp, t.name)
  IN /\ At(p, "unlink1")
     /\ IF t.name \in {".", ".."} \/ ip = 0
        THEN Goes(p, Return(<<t.dp>>), Seen(ino, t.dp))
        ELSE Goes(p, [t EXCEPT !.at = "unlink2", !.ip = ip], iget(ilock(ino, t.dp, p), ip))
     /\ UNCHANGED <<files, cwd, calls, history>>

isdirempty(d) == ino[d].ent = NoEntries

\* sys_unlink with the parent locked: lock the inode, erase the entry, and put
\* the parent while the inode is locked.
Unlink2(p) ==
  LET t == th[p]
      dir == ino[t.ip].type = "dir"
  IN /\ At(p, "unlink2")
     /\ IF ino[t.ip].nlink < 1
        THEN panic' = "unlink: nlink < 1" /\ UNCHANGED <<ino, th>>
        ELSE IF dir /\ ~isdirempty(t.ip)
        THEN Goes(p, [t EXCEPT !.at = "unlinkbad", !.ip = 0, !.puts = <<t.ip>>], Seen(ino, t.ip))
        ELSE Goes(p, [t EXCEPT !.at = "unlink3", !.dp = 0, !.puts = <<t.dp>>],
                  [ilock(iunlock(ino, t.dp), t.ip, p) EXCEPT
                     ![t.dp].ent[t.name] = 0,
                     ![t.dp].nlink = IF dir THEN @ - 1 ELSE @])
     /\ UNCHANGED <<files, cwd, calls, history>>

\* sys_unlink: take the count down.
Unlink3(p) ==
  LET t == th[p] IN
  /\ At(p, "unlink3")
  /\ Goes(p, Return(<<t.ip>>), [iunlock(ino, t.ip) EXCEPT ![t.ip].nlink = @ - 1])
  /\ UNCHANGED <<files, cwd, calls, history>>

\* sys_unlink, bad: iunlockput(dp).
UnlinkBad(p) ==
  LET t == th[p] IN
  /\ At(p, "unlinkbad")
  /\ Goes(p, Return(<<t.dp>>), iunlock(ino, t.dp))
  /\ UNCHANGED <<files, cwd, calls, history>>

\* Mutant: the inode stays locked while the new name is looked for.
Link1Holds(p) ==
  LET t == th[p]
      i == IF t.call.newabs THEN ROOTINO ELSE cwd[p]
  IN /\ At(p, "link1")
     /\ IF ino[t.ip].type = "dir"
        THEN Goes(p, Return(<<t.ip>>), Seen(ino, t.ip))
        ELSE Goes(p, [t EXCEPT !.at = "walk", !.path = t.call.new, !.old = t.ip,
                               !.ip = i, !.second = TRUE],
                  [iget(ilock(ino, t.ip, p), i) EXCEPT ![t.ip].nlink = @ + 1])
     /\ UNCHANGED <<files, cwd, calls, history>>

\* sys_link: the count goes up before the new name is looked for.
Link1(p) ==
  LET t == th[p]
      i == IF t.call.newabs THEN ROOTINO ELSE cwd[p]
  IN /\ At(p, "link1")
     /\ IF ino[t.ip].type = "dir"
        THEN Goes(p, Return(<<t.ip>>), Seen(ino, t.ip))
        ELSE Goes(p, [t EXCEPT !.at = "walk", !.path = t.call.new, !.old = t.ip,
                               !.ip = i, !.second = TRUE],
                  [iget(Seen(ino, t.ip), i) EXCEPT ![t.ip].nlink = @ + 1])
     /\ UNCHANGED <<files, cwd, calls, history>>

\* sys_link: dirlink.  If the name exists, its inode is put while the directory
\* is locked.
Link2(p) ==
  LET t == th[p]
      ip == dirlookup(t.dp, t.name)
  IN /\ At(p, "link2")
     /\ IF ip # 0
        THEN Goes(p, [t EXCEPT !.at = "link3", !.puts = <<ip>>], iget(ilock(ino, t.dp, p), ip))
        ELSE Goes(p, Return(<<t.dp, t.old>>),
                  [Seen(ino, t.dp) EXCEPT ![t.dp].ent[t.name] = t.old])
     /\ UNCHANGED <<files, cwd, calls, history>>

\* sys_link, after dirlink failed: iunlockput(dp).
Link3(p) ==
  LET t == th[p] IN
  /\ At(p, "link3")
  /\ Goes(p, [t EXCEPT !.at = "linkbad", !.ip = t.old, !.old = 0, !.dp = 0, !.puts = <<t.dp>>],
          iunlock(ino, t.dp))
  /\ UNCHANGED <<files, cwd, calls, history>>

\* Mutant: the count is not taken back.
LinkBadKeeps(p) ==
  LET t == th[p] IN
  /\ At(p, "linkbad")
  /\ Goes(p, Return(<<t.ip>>), Seen(ino, t.ip))
  /\ UNCHANGED <<files, cwd, calls, history>>

\* sys_link, bad: take the count back.
LinkBad(p) ==
  LET t == th[p] IN
  /\ At(p, "linkbad")
  /\ Goes(p, Return(<<t.ip>>), [Seen(ino, t.ip) EXCEPT ![t.ip].nlink = @ - 1])
  /\ UNCHANGED <<files, cwd, calls, history>>

\* sys_chdir: the old directory is put.
Chdir(p) ==
  LET t == th[p] IN
  /\ At(p, "chdir")
  /\ IF ino[t.ip].type # "dir"
     THEN Goes(p, Return(<<t.ip>>), Seen(ino, t.ip)) /\ UNCHANGED cwd
     ELSE Goes(p, Return(<<cwd[p]>>), Seen(ino, t.ip)) /\ cwd' = [cwd EXCEPT ![p] = t.ip]
  /\ UNCHANGED <<files, calls, history>>

\* file_inode_exists: reads the type without the lock.  When the cache entry
\* is not valid the type is that of an earlier inode, or 0.  The reference is
\* not put.  If it is a file, change_file_size looks it up again.
Resize1(p) ==
  LET t == th[p]
      i == IF t.call.abs THEN ROOTINO ELSE cwd[p]
  IN /\ At(p, "resize1")
     /\ leaked' = [leaked EXCEPT ![t.ip] = @ + 1]
     /\ \/ /\ ino[t.ip].valid => ino[t.ip].type = "file"
           /\ Goes(p, [t EXCEPT !.at = "walk", !.path = t.call.path, !.ip = i, !.second = TRUE],
                   iget(ino, i))
        \/ /\ ino[t.ip].valid => ino[t.ip].type # "file"
           /\ Goes(p, Return(<<>>), ino)
     /\ UNCHANGED <<files, cwd, calls, stray, orphaned>>

\* change_file_size: ilock, change the size, iunlock; the reference is not put.
Resize2(p) ==
  LET t == th[p] IN
  /\ At(p, "resize2")
  /\ leaked' = [leaked EXCEPT ![t.ip] = @ + 1]
  /\ Goes(p, Return(<<>>), Seen(ino, t.ip))
  /\ UNCHANGED <<files, cwd, calls, stray, orphaned>>

\* change_file_size: ilock(0), when the second lookup finds nothing.
ResizeGone(p) ==
  /\ At(p, "ilock0")
  /\ panic' = "ilock"
  /\ UNCHANGED <<ino, files, cwd, th, calls, history>>

-----------------------------------------------------------------------------
(* Open files, and processes.                                              *)

\* fileclose of file f by p: the last reference puts the inode.
fileclose(p, f, t) ==
  /\ ftable' = [ftable EXCEPT ![f] = [ref |-> @.ref - 1, ip |-> IF @.ref = 1 THEN 0 ELSE @.ip]]
  /\ Goes(p, [t EXCEPT !.puts = IF ftable[f].ref = 1 THEN <<ftable[f].ip>> ELSE <<>>], ino)

\* sys_close.
Close(p) ==
  /\ At(p, "user") /\ calls < MaxCalls
  /\ calls' = calls + 1
  /\ \E d \in Fd :
       /\ ofile[p][d] # 0
       /\ ofile' = [ofile EXCEPT ![p][d] = 0]
       /\ fileclose(p, ofile[p][d], Idle)
  /\ UNCHANGED <<cwd, history>>

\* sys_dup: fdalloc and filedup.
Dup(p) ==
  /\ At(p, "user") /\ calls < MaxCalls
  /\ calls' = calls + 1
  /\ \E d, e \in Fd :
       /\ ofile[p][d] # 0 /\ ofile[p][e] = 0
       /\ e = least({x \in Fd : ofile[p][x] = 0})
       /\ ofile' = [ofile EXCEPT ![p][e] = ofile[p][d]]
       /\ ftable' = [ftable EXCEPT ![ofile[p][d]].ref = @ + 1]
  /\ UNCHANGED <<ino, cwd, th, panic, history>>

\* exit: close the open files one by one, then put the current directory.
Exit(p) ==
  /\ (At(p, "user") /\ calls < MaxCalls) \/ At(p, "exit")
  /\ calls' = IF th[p].at = "user" THEN calls + 1 ELSE calls
  /\ IF \E d \in Fd : ofile[p][d] # 0
     THEN LET d == least({x \in Fd : ofile[p][x] # 0}) IN
          /\ ofile' = [ofile EXCEPT ![p][d] = 0]
          /\ fileclose(p, ofile[p][d], [Idle EXCEPT !.at = "exit"])
          /\ UNCHANGED cwd
     ELSE /\ Goes(p, [Idle EXCEPT !.at = "dead", !.puts = <<cwd[p]>>], ino)
          /\ cwd' = [cwd EXCEPT ![p] = 0]
          /\ UNCHANGED files
  /\ UNCHANGED history

\* fork: filedup for each descriptor of p.
Inherited(p, f) == Cardinality({d \in Fd : ofile[p][d] = f})

\* fork: the child gets the parent's open files and current directory.
Fork(p, q) ==
  /\ At(p, "user") /\ calls < MaxCalls
  /\ th[q].at = "dead" /\ th[q].puts = <<>>
  /\ calls' = calls + 1
  /\ ofile' = [ofile EXCEPT ![q] = ofile[p]]
  /\ ftable' = [f \in File |-> [ftable[f] EXCEPT !.ref = @ + Inherited(p, f)]]
  /\ cwd' = [cwd EXCEPT ![q] = cwd[p]]
  /\ Goes(q, Idle, iget(ino, cwd[p]))
  /\ UNCHANGED history

Next ==
  \E p \in Process :
    \/ SysCall(p) \/ LockPanic(p) \/ IputTest(p) \/ IputDrop(p) \/ Walk(p) \/ WalkEnd(p)
    \/ Open(p) \/ Create1(p) \/ Create2(p) \/ Created(p)
    \/ Unlink1(p) \/ Unlink2(p) \/ Unlink3(p) \/ UnlinkBad(p)
    \/ Link1(p) \/ Link2(p) \/ Link3(p) \/ LinkBad(p)
    \/ Chdir(p) \/ Resize1(p) \/ Resize2(p) \/ ResizeGone(p)
    \/ Close(p) \/ Dup(p) \/ Exit(p) \/ \E q \in Process : Fork(p, q)

Spec == Init /\ [][Next]_vars

-----------------------------------------------------------------------------
(* Properties.                                                             *)

Inode == Inum \union {0}

NamesTypeOK ==
  /\ ino \in [Inum -> [type : {"none", "dir", "file", "dev"}, ent : [Name -> Inode], up : Inode,
                       nlink : Nat, ref : Nat, valid : BOOLEAN, lock : Process \union {Nobody}]]
  /\ ftable \in [File -> [ref : Nat, ip : Inode]]
  /\ ofile \in [Process -> [Fd -> File \union {0}]]
  /\ cwd \in [Process -> Inode]
  /\ \A p \in Process :
       {th[p].ip, th[p].dp, th[p].old} \subseteq Inode /\ th[p].puts \in Seq(Inum)
  /\ calls \in 0 .. MaxCalls
  /\ {leaked, stray} \subseteq [Inum -> Nat] /\ orphaned \subseteq Inum

\* References to i in the local variables of p.
Local(p, i) ==
  Cardinality({k \in 1 .. Len(th[p].puts) : th[p].puts[k] = i})
  + Cardinality({x \in {"ip", "dp", "old"} : th[p][x] = i})

LocalSum[S \in SUBSET Process, i \in Inum] ==
  IF S = {} THEN 0
  ELSE LET p == CHOOSE x \in S : TRUE IN Local(p, i) + LocalSum[S \ {p}, i]

\* "ip->ref tracks the number of in-memory pointers to the entry": at every moment
\* a cache entry's ref is the number of current directories, open files and
\* local variables that refer to it, and of what change_file_size() dropped;
\* whatever calls are half done, and on all their error paths.  In the same way an
\* open file's ref is the number of descriptors that refer to it.
RefCount ==
  /\ NamesTypeOK
  /\ panic = "" => \A i \in Inum :
       ino[i].ref = Cardinality({p \in Process : cwd[p] = i})
                    + Cardinality({f \in File : ftable[f].ref > 0 /\ ftable[f].ip = i})
                    + LocalSum[Process, i] + leaked[i]
  /\ \A f \in File :
       ftable[f].ref = Cardinality({x \in Process \X Fd : ofile[x[1]][x[2]] = f})

\* When no call is in progress, an allocated inode's nlink is the number of its
\* names and subdirectories, plus the names it had in directories that were
\* freed with it in them.
LinkCount ==
  (\A p \in Process : th[p].at \in {"user", "dead"} /\ th[p].puts = <<>>) =>
    \A i \in Inum \ {ROOTINO} :
      ino[i].type # "none" => ino[i].nlink = Links(ino, i) + stray[i]

\* Nothing leads to a freed inode, whatever is in progress: no name, no current
\* directory, no open file and no inode that a call works on.  The only way to
\* meet one, and ilock()'s panic, is the ".." of a directory that was removed
\* before its parent.
NoDanglingName ==
  /\ \A d \in Inum, n \in Name :
       ino[d].type = "dir" /\ ino[d].ent[n] # 0 =>
         ino[ino[d].ent[n]].type # "none" /\ ino[ino[d].ent[n]].nlink > 0
  /\ \A i \in Inum \ orphaned :
       ino[i].type = "none" =>
         /\ \A p \in Process : cwd[p] # i /\ i \notin {th[p].ip, th[p].dp, th[p].old}
         /\ \A f \in File : ftable[f].ip # i
  /\ panic = "ilock: no type" => orphaned # {}
  /\ panic # "unlink: nlink < 1"

\* p waits for a lock that q has.
WaitsFor(p, q) == Wants(p) # 0 /\ ino[Wants(p)].lock = q

\* Inodes are locked parent before child; a circle of two waiting processes, or
\* of one with itself, has a process in it that calls iput() with an inode
\* locked.
CircleNeedsIput ==
  \A p, q \in Process :
    WaitsFor(p, q) /\ WaitsFor(q, p) => th[p].puts # <<>> \/ th[q].puts # <<>>

\* "If that was the last reference and the inode has no links to it, free the
\* inode": an inode without references has a name or is free.
LastPutFrees ==
  \A i \in Inum : ino[i].ref = 0 /\ ino[i].type # "none" => ino[i].nlink > 0

==============================================================================

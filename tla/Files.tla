------------------------------- MODULE Files -------------------------------
(***************************************************************************)
(* Inodes, directory entries and the virtual file system (kernel/fs:       *)
(* inode.c, namespace.c, fs.c, mount.c, virtfs.c), as operators on the     *)
(* state of the file system                                                *)
(*                                                                         *)
(*    inodes  sequence of [virt, mode, dev, size, refcnt, children, ve]    *)
(*    dents   sequence of [name, inode, refcnt]                            *)
(*    ves     virtfs entries: sequence of [name, mode, inode, kids, any]   *)
(*    broken  a bug() has been reached or freed memory is still linked     *)
(*                                                                         *)
(* 0 is the NULL pointer.  A name is a tuple: <<n>>, or <<"/", n>> for one *)
(* that was stored with its slash.                                         *)
(***************************************************************************)
EXTENDS Integers, Sequences, FiniteSets, FiniteSetsExt, SequencesExt

\* new_inode, with what its callers fill in
Inode(virt, mode, dev, size, refcnt, ve) ==
    [virt |-> virt, mode |-> mode, dev |-> dev, size |-> size, refcnt |-> refcnt,
     children |-> <<>>, ve |-> ve]

(***************************************************************************)
(* fs_add_entry, and the end of virtfs_lookup: an inode and a name for it, *)
(* each counted once ("we want these inodes forever"), first in the list   *)
(* of the parent's children.                                               *)
(***************************************************************************)
AddEntry(s, parent, name, inode) ==
    LET i == Len(s.inodes) + 1
        d == Len(s.dents) + 1
    IN  [s EXCEPT !.inodes = Append([@ EXCEPT ![parent].children = <<d>> \o @], inode),
                  !.dents = Append(@, [name |-> name, inode |-> i, refcnt |-> 1])]

fs_add_entry(s, parent, name, mode, dev, size) ==
    AddEntry(s, parent, name, Inode(s.inodes[parent].virt, mode, dev, size, 1, 0))

\* The children of a directory that have a name, in the order of the list.
Named(s, inode, name) == SelectSeq(s.inodes[inode].children, LAMBDA d : s.dents[d].name = name)

Entries(s, ve, name) == {e \in s.ves[ve].kids : s.ves[e].name = name}

(***************************************************************************)
(* virtfs_lookup.  The lookup method of /proc and /devices takes any name  *)
(* and makes an entry for it; the other entries are searched.              *)
(***************************************************************************)
virtfs_lookup(s, inode, name) ==
    LET root == s.inodes[inode].ve
        any == root # 0 /\ s.ves[root].any
        t == IF any THEN [s EXCEPT !.ves = Append(@, [name |-> name, mode |-> "REG",
                                          inode |-> 0, kids |-> {}, any |-> FALSE])]
             ELSE s
        ve == IF any THEN Len(t.ves) ELSE CHOOSE e \in Entries(s, root, name) : TRUE
        u == AddEntry(t, inode, name,
                 Inode(TRUE, t.ves[ve].mode, "NODEV", IF t.ves[ve].mode = "DIR" THEN 0 ELSE 1, 1, ve))
    IN  IF root = 0 \/ (~any /\ Entries(s, root, name) = {}) THEN [s |-> s, dent |-> 0]
        ELSE [s |-> [u EXCEPT !.ves[ve].inode = Len(u.inodes),
                              !.broken = @ \/ t.ves[ve].inode # 0],
              dent |-> Len(u.dents)]

\* lookup_direntry; generic_lookup finds nothing.
lookup_direntry(s, name, inode) ==
    IF s.inodes[inode].mode # "DIR" THEN [s |-> s, dent |-> 0]
    ELSE IF Named(s, inode, name) # <<>> THEN [s |-> s, dent |-> Named(s, inode, name)[1]]
    ELSE IF s.inodes[inode].virt THEN virtfs_lookup(s, inode, name)
    ELSE [s |-> s, dent |-> 0]

(***************************************************************************)
(* lookup_path, for the names of a path from the root, whose dent is 1.    *)
(* mount0 has turned the dent of a mount point to the mounted root.        *)
(***************************************************************************)
lookup_path(s, names) ==
    FoldLeft(LAMBDA r, n : IF r.dent = 0 THEN r
                           ELSE lookup_direntry(r.s, <<n>>, r.s.dents[r.dent].inode),
             [s |-> s, dent |-> 1], names)

(***************************************************************************)
(* fs_insert_entry.  The name in the root directory keeps the slash of an  *)
(* absolute path.  A missing directory is a bug().                         *)
(***************************************************************************)
fs_insert_entry(s, path, mode, dev, size) ==
    LET found == lookup_path(s, path.names)
        dir == lookup_path(found.s, Front(path.names))
        name == IF path.abs /\ Len(path.names) = 1 THEN <<"/", Last(path.names)>>
                ELSE <<Last(path.names)>>
    IN  IF found.dent # 0 THEN found.s
        ELSE IF dir.dent = 0 THEN [dir.s EXCEPT !.broken = TRUE]
        ELSE fs_add_entry(dir.s, dir.s.dents[dir.dent].inode, name, mode, dev, size)

(***************************************************************************)
(* release_inode.  free_inode takes the list head for the first of the     *)
(* names, so it must not be reached while the inode has one; a virtfs      *)
(* inode is then forgotten by its entry (virtfs_kill_inode).               *)
(***************************************************************************)
release_inode(s, i) ==
    LET named == \E d \in 1..Len(s.dents) : s.dents[d].inode = i
        ve == s.inodes[i].ve
        t == [s EXCEPT !.inodes[i].refcnt = @ - 1]
    IN  IF s.inodes[i].refcnt # 1 THEN t
        ELSE [t EXCEPT !.broken = @ \/ named,
                       !.ves = IF ve = 0 THEN @ ELSE [@ EXCEPT ![ve].inode = 0]]

\* release_direntry: free_direntry leaves the entry in the list of siblings.
release_direntry(s, d) ==
    LET t == [s EXCEPT !.dents[d].refcnt = @ - 1,
                       !.dents[d].inode = IF s.dents[d].refcnt = 1 THEN 0 ELSE @,
                       !.broken = @ \/ s.dents[d].refcnt = 1]
    IN  release_inode(t, s.dents[d].inode)

(***************************************************************************)
(* fs_init: the root, its directories, what cpio_read finds in the archive *)
(* (a sequence of [path, mode, dev, size]), and the virtfs tree that       *)
(* fs_init_virtfs mounts on /koowaldah: srv, the file wtf and proc.        *)
(***************************************************************************)
RootOnly ==
    [inodes |-> << Inode(FALSE, "DIR", "NODEV", 0, 1, 0) >>,
     dents |-> << [name |-> <<"/">>, inode |-> 1, refcnt |-> 0] >>,
     ves |-> << [name |-> <<"koowaldah">>, mode |-> "DIR", inode |-> 0, kids |-> {2, 3, 4}, any |-> FALSE],
                [name |-> <<"srv">>, mode |-> "DIR", inode |-> 0, kids |-> {}, any |-> FALSE],
                [name |-> <<"wtf">>, mode |-> "REG", inode |-> 0, kids |-> {}, any |-> FALSE],
                [name |-> <<"proc">>, mode |-> "DIR", inode |-> 0, kids |-> {}, any |-> TRUE] >>,
     broken |-> FALSE]

cpio_read(s, archive) ==
    FoldLeft(LAMBDA t, e : fs_insert_entry(t, e.path, e.mode, e.dev, e.size), s, archive)

mount0(s, dent, ve) ==
    [s EXCEPT !.inodes = Append(@, Inode(TRUE, "DIR", "NODEV", 0, 0, ve)),
              !.dents[dent].inode = Len(s.inodes) + 1]

fs_init(archive) ==
    LET a == fs_add_entry(RootOnly, 1, <<"dev">>, "DIR", "NODEV", 0)
        b == fs_add_entry(a, 2, <<"pckbd">>, "CHR", "pckbd", 0)
        c == fs_add_entry(b, 1, <<"koowaldah">>, "DIR", "NODEV", 0)
    IN  mount0(cpio_read(c, archive), Len(c.dents), 1)

(***************************************************************************)
(* A directory has no two entries of a name that a lookup can find, and a  *)
(* virtfs entry points to an inode exactly when a directory entry leads to *)
(* that inode: virtfs_lookup is not called for a name that is cached.      *)
(***************************************************************************)
NamesSound(s) ==
    /\ \A i \in 1..Len(s.inodes) :
          LET c == s.inodes[i].children
          IN  \A j, k \in 1..Len(c) :
                 s.dents[c[j]].name = s.dents[c[k]].name /\ Len(s.dents[c[j]].name) = 1 => j = k
    /\ \A v \in 2..Len(s.ves) :
          LET i == s.ves[v].inode
          IN  i # 0 => s.inodes[i].ve = v /\ \E d \in 1..Len(s.dents) : s.dents[d].inode = i

----------------------------------------------------------------------------
(***************************************************************************)
(* File descriptors (kernel/fs/file.c, stat.c and the calls of mpipe.c     *)
(* that open pipes) on the file system above, and the device the           *)
(* keyboard driver keeps.  A system call is one step.                      *)
(***************************************************************************)

CONSTANTS
    Threads,
    FS_MAX_FDS,
    Archive,            \* what cpio_read unpacks
    Paths,              \* the paths the threads use: [abs, names]
    PipeNames,
    MaxInodes, MaxFiles \* bounds

VARIABLES
    fs,
    files,      \* of each thread, newest first: [fd, inode, off, ops, closed], the
                \* last being how often it was closed
    last_fd, fdset,
    kbd_users,  \* users of the keyboard driver
    stray       \* history: how often mpipe_open released an inode it did not take

file_vars == <<fs, files, last_fd, fdset, kbd_users, stray>>

ASSUME FilesAssumption ==
    /\ {FS_MAX_FDS, MaxInodes, MaxFiles} \subseteq Nat
    /\ \A p \in Paths : p.abs \in BOOLEAN /\ p.names # <<>>

\* The bits of the map that a thread can reach, with a pipe of each name.
\* BITMAP_SIZE counts bytes and BITMAP declares as many words: there is room
\* behind FS_MAX_FDS.
MapBits == 0 .. (FS_MAX_FDS + Cardinality(PipeNames))

\* thread_create; bitmap_zero leaves the bits behind FS_MAX_FDS as they were.
FilesInit ==
    /\ fs = fs_init(Archive)
    /\ files = [t \in Threads |-> <<>>] /\ last_fd = [t \in Threads |-> 0]
    /\ fdset \in [Threads -> SUBSET {b \in MapBits : b >= FS_MAX_FDS}]
    /\ kbd_users = 0 /\ stray = [i \in 1..MaxInodes |-> 0]

\* alloc_fd: the least unset bit of the first last_fd + 1, or -EBADF.
NotSet(t) == (0..last_fd[t]) \ fdset[t]

NewFd(t) == IF NotSet(t) = {} THEN -1 ELSE Min(NotSet(t))

alloc_fd(t) ==
    IF NotSet(t) = {} THEN UNCHANGED <<last_fd, fdset>>
    ELSE /\ last_fd' = IF NewFd(t) = last_fd[t] /\ last_fd[t] < FS_MAX_FDS
                       THEN [last_fd EXCEPT ![t] = @ + 1] ELSE last_fd
         /\ fdset' = [fdset EXCEPT ![t] = @ \cup {NewFd(t)}]

\* The number of a thread's first file with a descriptor; 0: none.
fd2file(t, fd) ==
    IF fd > last_fd[t] THEN 0
    ELSE SelectInSeq(files[t], LAMBDA f : f.fd = fd)

\* Mutant: a file goes behind those there are.
LinkLast(t, f) == files' = [files EXCEPT ![t] = Append(@, f)]

\* klist0_append: the file goes before those there are.
LinkFile(t, f) == files' = [files EXCEPT ![t] = <<f>> \o @]

\* Mutant: the open file is not counted.
Uncounted(s, d) == [s EXCEPT !.dents[d].refcnt = @ + 1]

Counted(s, d) ==
    [s EXCEPT !.dents[d].refcnt = @ + 1, !.inodes[s.dents[d].inode].refcnt = @ + 1]

RoomForInodes == Len(fs.inodes) + 2 <= MaxInodes

\* open returns -ENOENT; the tree may have changed.
OpenFails(s) == fs' = s /\ UNCHANGED <<files, last_fd, fdset, kbd_users, stray>>

(***************************************************************************)
(* open.  A device's fops are those of the driver; its open returns -EBUSY *)
(* for the keyboard in use, which nobody looks at.                         *)
(***************************************************************************)
open(t, path, creat, mode) ==
    LET s == IF creat THEN fs_insert_entry(fs, path, mode, "NODEV", 0) ELSE fs
        found == lookup_path(s, path.names)
        i == found.s.dents[found.dent].inode
        dev == found.s.inodes[i].dev
    IN  /\ ~fs.broken /\ RoomForInodes /\ Len(files[t]) < MaxFiles
        /\ IF found.dent = 0 THEN OpenFails(found.s)
           ELSE /\ fs' = Counted(found.s, found.dent)
                /\ alloc_fd(t)
                /\ LinkFile(t, [fd |-> NewFd(t), inode |-> i, off |-> 0, closed |-> 0,
                                ops |-> IF dev # "NODEV" THEN dev ELSE "generic"])
                /\ kbd_users' = IF dev = "pckbd" THEN 1 ELSE kbd_users
                /\ UNCHANGED stray

\* stat only looks the path up.
stat(path) ==
    /\ ~fs.broken /\ RoomForInodes
    /\ fs' = lookup_path(fs, path.names).s
    /\ UNCHANGED <<files, last_fd, fdset, kbd_users, stray>>

(***************************************************************************)
(* close: the file stays on the thread's list, and close finds it again if *)
(* it is called twice, and releases the inode twice.                       *)
(***************************************************************************)
close(t, fd) ==
    LET n == fd2file(t, fd)
        f == files[t][n]
    IN  /\ ~fs.broken /\ n # 0
        /\ fs' = release_inode(fs, f.inode)
        /\ fdset' = [fdset EXCEPT ![t] = @ \ {fd}]
        /\ kbd_users' = IF f.ops = "pckbd" THEN 0 ELSE kbd_users
        /\ files' = [files EXCEPT ![t][n].closed = @ + 1]
        /\ UNCHANGED <<last_fd, stray>>

(***************************************************************************)
(* read of a regular file: generic_read goes on by what is left at most.   *)
(* The end of a file that is not a device reads as 0 bytes.                *)
(***************************************************************************)
read(t, fd, len) ==
    LET n == fd2file(t, fd)
        f == files[t][n]
        size == fs.inodes[f.inode].size
    IN  /\ ~fs.broken /\ n # 0 /\ f.ops = "generic" /\ ~fs.inodes[f.inode].virt
        /\ f.off # size
        /\ files' = [files EXCEPT ![t][n].off = @ + (IF @ + len > size THEN size - @ ELSE len)]
        /\ UNCHANGED <<fs, last_fd, fdset, kbd_users, stray>>

(***************************************************************************)
(* mpipe_open: the descriptor is last_fd, whatever the map says and        *)
(* however high, and neither the map nor the counts learn of it.  When the *)
(* name exists, a reference is released that lookup_path did not take.     *)
(***************************************************************************)
mpipe_open(t, name) ==
    LET names == <<"koowaldah", "srv", name>>
        found == lookup_path(fs, names)
        s == [found.s EXCEPT
                 !.ves = Append([@ EXCEPT ![2].kids = @ \cup {Len(found.s.ves) + 1}],
                     [name |-> <<name>>, mode |-> "FIFO", inode |-> 0, kids |-> {}, any |-> FALSE])]
        made == lookup_path(s, names)
    IN  /\ ~fs.broken /\ RoomForInodes /\ Len(files[t]) < MaxFiles
        /\ IF found.dent # 0
           THEN /\ fs' = release_direntry(found.s, found.dent)
                /\ stray' = [stray EXCEPT ![fs.dents[found.dent].inode] = @ + 1]
                /\ UNCHANGED <<files, last_fd>>
           ELSE /\ fs' = made.s
                /\ LinkFile(t, [fd |-> last_fd[t], inode |-> made.s.dents[made.dent].inode,
                                off |-> 0, closed |-> 0, ops |-> "mpipe"])
                /\ last_fd' = [last_fd EXCEPT ![t] = @ + 1]
                /\ UNCHANGED stray
        /\ UNCHANGED <<fdset, kbd_users>>

\* mpipe_open2 turns an open file into a pipe.
mpipe_open2(t, fd) ==
    LET n == fd2file(t, fd)
    IN  /\ ~fs.broken /\ n # 0 /\ files[t][n].ops = "generic"
        /\ files' = [files EXCEPT ![t][n].ops = "mpipe2"]
        /\ fs' = [fs EXCEPT !.inodes[files[t][n].inode].size = 1]
        /\ UNCHANGED <<last_fd, fdset, kbd_users, stray>>

FilesNext ==
    \/ \E t \in Threads :
          \/ \E p \in Paths : \/ open(t, p, FALSE, "REG")
                              \/ \E m \in {"REG", "DIR"} : open(t, p, TRUE, m)
          \/ \E fd \in MapBits : \/ close(t, fd)
                                 \/ \E len \in 1..2 : read(t, fd, len)
                                 \/ mpipe_open2(t, fd)
          \/ \E name \in PipeNames : mpipe_open(t, name)
    \/ \E p \in Paths : stat(p)

FilesSpec == FilesInit /\ [][FilesNext]_file_vars

-----------------------------------------------------------------------------
(* Properties. *)

OpenFiles(t) == {n \in 1..Len(files[t]) : files[t][n].closed = 0}
Pipes(t) == {n \in 1..Len(files[t]) : files[t][n].ops = "mpipe"}

\* Descriptors: last_fd goes past the end of the map by the pipes of mpipe_open
\* only, and stays in the words that BITMAP gives it; files lead to inodes that
\* exist.
FilesTypeOK ==
    /\ \A t \in Threads : /\ fdset[t] \subseteq MapBits
                          /\ last_fd[t] \in 0..(FS_MAX_FDS + Cardinality(Pipes(t)))
    /\ \A t \in Threads : \A n \in 1..Len(files[t]) :
          /\ files[t][n].fd \in -1..last_fd[t]
          /\ files[t][n].inode \in 1..Len(fs.inodes)
    /\ kbd_users \in {0, 1}

FilesOf(i) == UNION {{t} \X {n \in 1..Len(files[t]) : files[t][n].inode = i} : t \in Threads}

\* How often an inode was counted: for its name, unless it is the root that mount0
\* made, and by open; and how often it was released, by close, the second close of
\* a file and that of a pipe too, and by mpipe_open.
Taken(i) ==
    (IF fs.inodes[i].virt /\ fs.inodes[i].ve = 1 THEN 0 ELSE 1)
    + Cardinality({p \in FilesOf(i) : files[p[1]][p[2]].ops # "mpipe"})
Released(i) == stray[i] + MapThenSumSet(LAMBDA p : files[p[1]][p[2]].closed, FilesOf(i))

(***************************************************************************)
(* Reference counts: an inode is counted once for its name and once for    *)
(* each open, and each release takes one off, whatever the order of opens, *)
(* closes, lookups and new pipes.  So one that has a name is freed, which  *)
(* kill_inode and the tree do not survive, only after as many releases as  *)
(* it was counted: "we want these inodes forever".                         *)
(***************************************************************************)
CountsRight ==
    /\ \A i \in 1..Len(fs.inodes) : fs.inodes[i].refcnt = Taken(i) - Released(i)
    /\ fs.broken => \E i \in 1..Len(fs.inodes) : Released(i) >= Taken(i)

(***************************************************************************)
(* Lookups, O_CREAT and new pipes keep the tree in order: NamesSound.      *)
(***************************************************************************)
TreeSound == ~fs.broken => NamesSound(fs)

(***************************************************************************)
(* A descriptor leads to the file that was opened last with it, although   *)
(* closed files stay on the list and are closed again, for a thread that   *)
(* has no pipes: the descriptor of a pipe is not marked as used.           *)
(***************************************************************************)
FdLeadsToFile ==
    \A t \in Threads : Pipes(t) = {} =>
        \A n \in OpenFiles(t) : files[t][n].fd # -1 => fd2file(t, files[t][n].fd) = n

----------------------------------------------------------------------------
(***************************************************************************)
(* The bytes of a file in the pages of its inode: fs_stuff_inode (fs.c),   *)
(* generic_read (file.c) and aout_copy_section (aout.c).                   *)
(*                                                                         *)
(* Byte i of a file is the number i, from 0; Junk is what lies in the rest *)
(* of the last page and after a page.                                      *)
(***************************************************************************)

CONSTANTS
    FPAGE,
    Junk,
    MaxFileSize     \* bound

VARIABLES
    fsize, i_pages,     \* of the inode
    foff,               \* f_offset
    received,           \* the bytes read() has put into the buffers, in order
    beyond,             \* bytes put behind the end of a buffer
    straddled,          \* history: a read over a page end, see InPages
    image               \* the section aout_copy_section copied last

page_vars == <<fsize, i_pages, foff, received, beyond, straddled, image>>

ASSUME FilePagesAssumption == FPAGE \in Nat \ {0} /\ MaxFileSize \in Nat

LeastOf(a, b) == IF a < b THEN a ELSE b

\* n bytes of a page from an offset; what is behind the page is not the file's.
FromPage(page, o, n) == [i \in 1..n |-> IF o + i <= FPAGE THEN page[o + i] ELSE Junk]

(***************************************************************************)
(* fs_stuff_inode: a page for every FPAGE bytes begun, and one more        *)
(* for a length that is a multiple of it.                                  *)
(***************************************************************************)
fs_stuff_inode(len) ==
    [p \in 1..(len \div FPAGE + 1) |->
        [i \in 1..FPAGE |->
            LET b == (p - 1) * FPAGE + i - 1 IN IF b < len THEN b ELSE Junk]]

\* Mutant: the copy begins at the start of the page.
InPageNot(o) == 0

\* The offset in its page of an offset in a file.
InPage(o) == o % FPAGE

(***************************************************************************)
(* generic_read: what is written to the buffer, from its start, for an     *)
(* offset and a length that was cut to the file.  Fewer than FPAGE         *)
(* bytes are one copy from the page of the offset; otherwise every page to *)
(* the last one of the inode is copied, the first from the offset, and     *)
(* what is left to copy wraps below zero.                                  *)
(***************************************************************************)
generic_read(o, len) ==
    LET pgstart == o \div FPAGE + 1
        npages == Len(i_pages)
        left(r) == len - (r - pgstart) * FPAGE
        chunk(r) == FromPage(i_pages[r], IF r = pgstart THEN InPage(o) ELSE 0,
                             IF left(r) < 0 THEN FPAGE ELSE LeastOf(FPAGE, left(r)))
    IN  IF len \div FPAGE = 0 THEN FromPage(i_pages[pgstart], InPage(o), len)
        ELSE FlattenSeq([k \in 1..(npages - pgstart + 1) |-> chunk(pgstart + k - 1)])

(***************************************************************************)
(* The loop of aout_copy_section: c is the source page and offset, the     *)
(* place in the destination, what is left and what was copied so far.      *)
(* The destination starts on a page and its pages follow each other.       *)
(***************************************************************************)
RECURSIVE CopyLoop(_)
CopyLoop(c) ==
    LET tocopy == IF c.pgoff # 0 THEN LeastOf(c.left, FPAGE - c.pgoff)
                  ELSE LeastOf(c.left, FPAGE - (c.to % FPAGE))
        full == c.pgoff + tocopy = FPAGE
        aligned == (c.to + tocopy) % FPAGE = 0
    IN  IF c.left = 0 THEN c.out
        ELSE CopyLoop([pgnum |-> IF full THEN c.pgnum + 1 ELSE c.pgnum,
                       pgoff |-> IF ~aligned THEN 0 ELSE IF full THEN c.pgoff ELSE tocopy,
                       left  |-> c.left - tocopy,
                       to    |-> c.to + tocopy,
                       out   |-> c.out \o FromPage(i_pages[c.pgnum + 1], c.pgoff, tocopy)])

aout_copy_section(o, len) ==
    CopyLoop([pgnum |-> o \div FPAGE, pgoff |-> o % FPAGE, left |-> len, to |-> 0,
              out |-> <<>>])

PagesInit ==
    /\ fsize \in 1..MaxFileSize
    /\ i_pages = fs_stuff_inode(fsize)
    /\ foff = 0 /\ received = <<>> /\ beyond = 0 /\ straddled = FALSE
    /\ image = [off |-> 0, bytes |-> <<>>]

\* A read that generic_read is made for: inside a page, or from a page to the end.
InPages(o, len) ==
    \/ (o % FPAGE) + len <= FPAGE /\ len < FPAGE
    \/ o % FPAGE = 0 /\ o + len = fsize

\* read: 0 at the end of the file.
ReadFile(n) ==
    LET len == IF foff + n > fsize THEN fsize - foff ELSE n
        buf == generic_read(foff, len)
    IN  /\ foff # fsize
        /\ received' = received \o SubSeq(buf, 1, len)
        /\ beyond' = beyond + Len(buf) - len
        /\ foff' = foff + len
        /\ straddled' = (straddled \/ ~InPages(foff, len))
        /\ UNCHANGED <<fsize, i_pages, image>>

\* aout_load copies the text and the data section.
LoadSection(o, len) ==
    /\ o + len <= fsize
    /\ image' = [off |-> o, bytes |-> aout_copy_section(o, len)]
    /\ UNCHANGED <<fsize, i_pages, foff, received, beyond, straddled>>

PagesNext ==
    \/ \E n \in 1..(2 * FPAGE) : ReadFile(n)
    \/ \E o \in 0..fsize, len \in 1..fsize : LoadSection(o, len)

PagesSpec == PagesInit /\ [][PagesNext]_page_vars

-----------------------------------------------------------------------------
(* Properties. *)

(***************************************************************************)
(* Reads of any lengths hand out the file from its start, byte by byte,    *)
(* and write nothing behind a buffer, as long as each one stays in a page  *)
(* or takes whole pages to the end of the file.                            *)
(***************************************************************************)
ReadsFile ==
    ~straddled => received = [i \in 1..foff |-> i - 1] /\ beyond = 0

(***************************************************************************)
(* aout_copy_section copies the bytes of the section, wherever in its page *)
(* it begins and however long it is.                                       *)
(***************************************************************************)
SectionCopied == image.bytes = [i \in 1..Len(image.bytes) |-> image.off + i - 1]

----------------------------------------------------------------------------
(***************************************************************************)
(* Listing directories (readdir in kernel/fs/file.c, and the methods of    *)
(* virtfs.c, virtfs_proc.c and virtfs_dev.c), and the list of devices that *)
(* one of them shows (device.c).  An entry goes to the front of its list,  *)
(* as klist0_append does.  A system call is one step.  A name is a tuple   *)
(* of its parts.                                                           *)
(***************************************************************************)

CONSTANTS
    Dirs,       \* "root" (generic), "virt", "proc", "devices", or a file
    Names,      \* names of files, and of drivers
    Devs,       \* device numbers
    MaxEntries, \* bound of every list
    SLOTS       \* slots of memory at the user's udents

VARIABLES
    entries,    \* the children of the directories, and the tasks for proc
    devices,    \* [name, dev], the newest first
    udents, listed  \* the user's array, and the last call: dir, count, ret

dir_vars == <<entries, devices, udents, listed>>
OLD == <<"old">>
ERROR == -1

DirInit ==
    /\ entries = [d \in {"root", "virt", "proc"} |-> <<>>]
    /\ devices = <<>>
    /\ udents = [k \in 1 .. SLOTS |-> OLD]
    /\ listed = [dir |-> "root", count |-> 0, ret |-> 0]

----------------------------------------------------------------------------
\* fs_add_entry, VE_ADD_SIBLING and thread_create, as the lists see them.
AddSibling(d, n) ==
    /\ Len(entries[d]) < MaxEntries /\ ~Contains(entries[d], n)
    /\ entries' = [entries EXCEPT ![d] = <<n>> \o @]
    /\ UNCHANGED <<devices, udents, listed>>

Registered(d) == <<d>> \o devices
register_device(n, dev) ==
    /\ Len(devices) < MaxEntries
    /\ devices' = Registered([name |-> n, dev |-> dev])
    /\ UNCHANGED <<entries, udents, listed>>

\* The first one on the list; 0: none.
get_device(dev) == SelectInSeq(devices, LAMBDA d : d.dev = dev)
get_device_by_name(n) == SelectInSeq(devices, LAMBDA d : d.name = n)

----------------------------------------------------------------------------
\* A fresh array with the first n names of a directory.
Filled(names, n) == [k \in 1 .. SLOTS |-> IF k <= n THEN names[k] ELSE OLD]
Least(a, b) == IF a < b THEN a ELSE b
Returns(dir, count, ret, mem) == listed' = [dir |-> dir, count |-> count, ret |-> ret] /\ udents' = mem

\* Copies an entry before it looks at the count.
generic_readdir(names, count) == Least(Len(names), count + 1)
\* Mutant: one entry less than asked for.
VirtfsShort(names, count) == Least(Len(names), count - 1)
virtfs_readdir(names, count) == Least(Len(names), count)
\* These never look at it.
virtfs_proc_readdir(names, count) == Len(names)
virtfs_dev_readdir(names, count) == Len(names)

NamesOf(dir) ==
    CASE dir = "proc" -> [k \in DOMAIN entries.proc |-> <<"task", entries.proc[k]>>]
      [] dir = "devices" -> [k \in DOMAIN devices |-> <<devices[k].name, devices[k].dev>>]
      [] OTHER -> [k \in DOMAIN entries[dir] |-> <<entries[dir][k]>>]
NumberOf(dir, count) ==
    CASE dir = "root" -> generic_readdir(NamesOf(dir), count)
      [] dir = "virt" -> virtfs_readdir(NamesOf(dir), count)
      [] dir = "proc" -> virtfs_proc_readdir(NamesOf(dir), count)
      [] dir = "devices" -> virtfs_dev_readdir(NamesOf(dir), count)

readdir(dir, count) ==
    /\ IF dir \notin {"root", "virt", "proc", "devices"} \/ (dir = "root" /\ count = 0)
       THEN Returns(dir, count, ERROR, Filled(<<>>, 0))
       ELSE Returns(dir, count, NumberOf(dir, count), Filled(NamesOf(dir), NumberOf(dir, count)))
    /\ UNCHANGED <<entries, devices>>

DirNext ==
    \/ \E d \in {"root", "virt", "proc"}, n \in Names : AddSibling(d, n)
    \/ \E n \in Names, dev \in Devs : register_device(n, dev)
    \/ \E dir \in Dirs, count \in 0 .. MaxEntries : readdir(dir, count)
DirSpec == DirInit /\ [][DirNext]_dir_vars

----------------------------------------------------------------------------
\* What readdir says it has read is there, in the order of the list: the number
\* of names it returns, and all of them when it returns fewer than were asked
\* for.  That it reads no more than were asked for is AtMostCount.
ListsEntries ==
    [][listed'.ret # ERROR =>
        LET names == NamesOf(listed'.dir) IN
          /\ \A k \in 1 .. listed'.ret : udents'[k] = names[k]
          /\ listed'.ret < listed'.count => listed'.ret = Len(names)
      ]_<<listed, udents>>


\* The driver registered last for a device number is the one get_device finds,
\* and no driver hides one with another number: a driver can be replaced.
LatestFound ==
    [][\A n \in Names, dev \in Devs : register_device(n, dev) =>
        /\ devices'[SelectInSeq(devices', LAMBDA d : d.dev = dev)] = [name |-> n, dev |-> dev]
        /\ \A other \in Devs \ {dev} : get_device(other) # 0 =>
             devices'[SelectInSeq(devices', LAMBDA d : d.dev = other)] = devices[get_device(other)]
      ]_dir_vars

\* The counts that decide when an inode is freed, and the tree they keep
\* (open, close, lookup_path): FilesTypeOK, CountsRight and TreeSound.
FilesCounted == FilesTypeOK /\ CountsRight /\ TreeSound

\* The bytes of a file: those read() hands out and those aout_copy_section loads.
BytesOfFile == ReadsFile /\ SectionCopied

\* readdir lists a directory, and get_device finds the latest driver.
Listings == ListsEntries /\ LatestFound
============================================================================

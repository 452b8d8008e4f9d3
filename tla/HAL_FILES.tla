----------------------------- MODULE HAL_FILES -----------------------------
(***************************************************************************)
(* The file descriptors of the HAL: the pool, the lists of devices and     *)
(* file systems, the redirection of the standard streams before main, and  *)
(* the system calls that map a descriptor to its driver.                   *)
(*                                                                         *)
(* The board support package is single-threaded and no interrupt routine   *)
(* uses descriptors, so that a call is one step.  What a driver's callback *)
(* returns is left open.  Calls are made with descriptors that are open,   *)
(* or negative: the code trusts any other number and follows it.  A name   *)
(* is a C string: a sequence of characters that memory continues with NUL  *)
(* and then with something else.                                           *)
(***************************************************************************)
EXTENDS Integers, SequencesExt

CONSTANTS
  ALT_MAX_FD,   \* the size of the pool, 32 on this board
  Devices,      \* what alt_sys_init may register: [name, fs, ops] records
  Stdio,        \* the names that the standard streams are redirected to
  Names,        \* the names that the program opens
  OpenModes,    \* the access modes it opens them with
  Flags,        \* the flags beside the access mode that it passes
  Settable      \* bound: the descriptors whose flags it changes

Modes == {"O_RDONLY", "O_WRONLY", "O_RDWR"}
FCNTL_FLAGS == {"O_APPEND", "O_NONBLOCK"}

EIO == 5
EACCES == 13
ENODEV == 19
EINVAL == 22
EMFILE == 24
ENOTTY == 25
EBADFD == 81
ENOTSUP == 134

NUL == "NUL"
\* A null pointer for a name, which no C string is, and for a device.
NoName == <<NUL>>
None == [name |-> NoName, fs |-> FALSE, ops |-> {}]

\* The byte at an offset from the start of a string; beyond lies garbage.
Byte(s, i, garbage) ==
  IF i < Len(s) THEN s[i + 1] ELSE IF i = Len(s) THEN NUL ELSE garbage

\* memcmp(a, b, len) = 0
SameBytes(a, b, len, garbage) ==
  \A i \in 0..len - 1 : Byte(a, i, garbage) = Byte(b, i, garbage)

\* The first entry of a list that passes a test.
FirstMatch(list, Test(_)) ==
  LET i == SelectInSeq(list, Test) IN IF i = 0 THEN None ELSE list[i]

\* Entries are records with a field name.
FindDev(name, list, garbage) ==
  FirstMatch(list, LAMBDA d : SameBytes(d.name, name, Len(name) + 1, garbage))

MountLength(mount) == IF Last(mount) = "/" THEN Len(mount) - 1 ELSE Len(mount)

\* Slip: only the bytes of the mount point are compared.
FindFile_NoBoundary(name, list, garbage) ==
  FirstMatch(list, LAMBDA d : SameBytes(d.name, name, MountLength(d.name), garbage))

FindFile(name, list, garbage) ==
  FirstMatch(list, LAMBDA d :
    /\ Byte(name, MountLength(d.name), garbage) \in {"/", NUL}
    /\ SameBytes(d.name, name, MountLength(d.name), garbage))

\* alt_llist_insert puts an entry first.  A device without a name is refused.
Registered(list, d) == IF d.name = NoName THEN list ELSE <<d>> \o list

FilesAssumption ==
  /\ ALT_MAX_FD \in Nat /\ ALT_MAX_FD > 2
  /\ None \notin Devices /\ \A d \in Devices : d.fs \in BOOLEAN
  /\ OpenModes \subseteq Modes

\* The device that swallows everything, the only one before alt_sys_init.
alt_dev_null == [name |-> <<"n">>, fs |-> FALSE, ops |-> {"write"}]

VARIABLES
  alt_dev_list, alt_fs_list,
  alt_fd_list,  \* the pool
  alt_max_fd,   \* the highest descriptor ever allocated
  phase,        \* what start-up has still to do; "main" once the program runs
  held,         \* the descriptors the program has opened and not closed
  last          \* the last call, and what it returned

lists == <<alt_dev_list, alt_fs_list>>
pool == <<alt_fd_list, alt_max_fd>>
vars == <<lists, pool, phase, held, last>>

Fds == 0..ALT_MAX_FD - 1
Standard == 0..2
Free == [dev |-> None, mode |-> "O_RDONLY", flags |-> {}, isdev |-> FALSE, excl |-> FALSE]
Allocated == {i \in Fds : alt_fd_list[i].dev # None}
AnyDevice == Devices \cup {alt_dev_null}
Phases == {"register", "stdout", "stdin", "stderr", "main"}

TypeOK ==
  /\ alt_dev_list \in Seq(AnyDevice) /\ alt_fs_list \in Seq(Devices)
  /\ alt_fd_list \in [Fds -> [dev : AnyDevice \cup {None}, mode : Modes,
                              flags : SUBSET (FCNTL_FLAGS \cup Flags),
                              isdev : BOOLEAN, excl : BOOLEAN]]
  /\ alt_max_fd \in -1..ALT_MAX_FD - 1
  /\ phase \in Phases /\ held \subseteq Fds
  /\ last.rc \in Int

Init ==
  /\ alt_dev_list = <<alt_dev_null>> /\ alt_fs_list = <<>>
  /\ alt_fd_list = [i \in Fds |-> IF i \in Standard THEN [Free EXCEPT !.dev = alt_dev_null] ELSE Free]
  /\ alt_max_fd = -1
  /\ phase = "register" /\ held = {} /\ last = [call |-> "none", rc |-> 0]

-----------------------------------------------------------------------------
\* Most calls turn a negative code into -1 (and errno, left out here).
Returns(call, rc) == last' = [call |-> call, rc |-> IF rc < 0 THEN -1 ELSE rc]

\* What a callback may return.
Callback(dev, op, missing) == IF op \in dev.ops THEN {0, -EIO} ELSE {missing}

\* alt_find_dev, or else alt_find_file.
Lookup(name) ==
  LET d == FindDev(name, alt_dev_list, NUL) IN
    IF d # None THEN d ELSE FindFile(name, alt_fs_list, NUL)

\* Slips: no lock counts; no descriptor is freed.
Locked_Never(dev, max) == FALSE
Released_None(fds, i) == fds

\* A descriptor of the same device, up to the high-water mark, is locked.
Locked(dev, max) == \E i \in Fds : i <= max /\ alt_fd_list[i].dev = dev /\ alt_fd_list[i].excl
Marked(i) == IF i > alt_max_fd THEN i ELSE alt_max_fd
Released(fds, i) == IF i > 2 THEN [fds EXCEPT ![i] = Free] ELSE fds

\* What open() makes of the pool: the first free descriptor, unless the device
\* is locked or its driver refuses with status; the mark stays up when the
\* descriptor is released again.
AllocFd(dev, mode, flags, status) ==
  LET free == Fds \ Allocated
      i == Min(free)
      fds == [alt_fd_list EXCEPT ![i] = [dev |-> dev, mode |-> mode, flags |-> flags,
                                         isdev |-> ~dev.fs, excl |-> FALSE]]
      rc == IF ~dev.fs /\ Locked(dev, Marked(i)) THEN -EACCES ELSE status
  IN IF dev = None THEN [rc |-> -ENODEV, fds |-> alt_fd_list, max |-> alt_max_fd]
     ELSE IF free = {} THEN [rc |-> -EMFILE, fds |-> alt_fd_list, max |-> alt_max_fd]
     ELSE IF rc < 0 THEN [rc |-> rc, fds |-> Released(fds, i), max |-> Marked(i)]
     ELSE [rc |-> i, fds |-> fds, max |-> Marked(i)]

OpenStatus(dev) == IF dev = None THEN {0} ELSE Callback(dev, "open", 0)

-----------------------------------------------------------------------------
\* Start-up: alt_sys_init registers some of the devices and file systems, then
\* alt_io_redirect opens the three streams and moves the descriptors down.
Register(d) ==
  /\ phase = "register" /\ d \notin Range(alt_dev_list) \cup Range(alt_fs_list)
  /\ IF d.fs THEN alt_fs_list' = Registered(alt_fs_list, d) /\ UNCHANGED alt_dev_list
     ELSE alt_dev_list' = Registered(alt_dev_list, d) /\ UNCHANGED alt_fs_list
  /\ UNCHANGED <<pool, phase, held, last>>

RegisterEnds == phase = "register" /\ phase' = "stdout" /\ UNCHANGED <<lists, pool, held, last>>

Redirect(stream, mode, nextPhase) ==
  \E status \in {0, -EIO} :
    LET dev == Lookup(Stdio)
        o == AllocFd(dev, mode, {}, status)
        fd == (CASE stream = "stdout" -> 1 [] stream = "stdin" -> 0 [] OTHER -> 2)
    IN /\ phase = stream /\ status \in OpenStatus(dev)
       /\ alt_fd_list' = IF o.rc < 0 THEN o.fds
                         ELSE Released([o.fds EXCEPT ![fd] = o.fds[o.rc]], o.rc)
       /\ alt_max_fd' = o.max /\ phase' = nextPhase
       /\ UNCHANGED <<lists, held, last>>

StartUp ==
  \/ \E d \in Devices : Register(d)
  \/ RegisterEnds
  \/ Redirect("stdout", "O_WRONLY", "stdin")
  \/ Redirect("stdin", "O_RDONLY", "stderr")
  \/ Redirect("stderr", "O_WRONLY", "main")

-----------------------------------------------------------------------------
\* The system calls.
Running == phase = "main" /\ UNCHANGED <<lists, phase>>
Only(call, rc) == Returns(call, rc) /\ UNCHANGED <<pool, held>>

\* On a negative descriptor.
BadFd(call) == Running /\ Only(call, IF call = "isatty" THEN 0 ELSE -EBADFD)

Open(name, mode, flags) ==
  \E status \in {0, -EIO} :
    LET o == AllocFd(Lookup(name), mode, flags, status) IN
      /\ Running /\ status \in OpenStatus(Lookup(name))
      /\ alt_fd_list' = o.fds /\ alt_max_fd' = o.max
      /\ held' = IF o.rc < 0 THEN held ELSE held \cup {o.rc}
      /\ Returns("open", o.rc)

\* A standard stream stays as it is.
Close(i) ==
  /\ Running
  /\ alt_fd_list' = Released(alt_fd_list, i) /\ held' = held \ {i}
  /\ \E rc \in Callback(alt_fd_list[i].dev, "close", 0) : Returns("close", rc)
  /\ UNCHANGED alt_max_fd

Read(i) ==
  LET fd == alt_fd_list[i] IN
    /\ Running
    /\ \E rc \in IF fd.mode # "O_WRONLY" THEN Callback(fd.dev, "read", -EACCES) ELSE {-EACCES} :
         Only("read", rc)

\* Before main too: a device driver may print.
Write(i) ==
  LET fd == alt_fd_list[i] IN
    /\ \E rc \in IF fd.mode = "O_RDONLY" THEN {-EACCES}
                 ELSE IF fd.dev = alt_dev_null THEN {0} ELSE Callback(fd.dev, "write", -EACCES) :
         Only("write", rc)
    /\ UNCHANGED <<lists, phase>>

Lseek(i) == Running /\ \E rc \in Callback(alt_fd_list[i].dev, "lseek", -ENOTSUP) : Only("lseek", rc)

\* A driver's own fstat returns its code unchanged; isatty is 1 without one.
Fstat(i) ==
  /\ Running /\ UNCHANGED <<pool, held>>
  /\ \E rc \in Callback(alt_fd_list[i].dev, "fstat", 0) : last' = [call |-> "fstat", rc |-> rc]
Isatty(i) ==
  Running /\ \E rc \in IF "fstat" \in alt_fd_list[i].dev.ops THEN {0, 1} ELSE {1} : Only("isatty", rc)

\* fcntl F_SETFL: two of the flags.
SetFlags(i, flags) ==
  /\ Running /\ Returns("fcntl", 0)
  /\ alt_fd_list' = [alt_fd_list EXCEPT ![i].flags = (@ \ FCNTL_FLAGS) \cup (flags \cap FCNTL_FLAGS)]
  /\ UNCHANGED <<alt_max_fd, held>>

OtherFcntl(i) == Running /\ Only("fcntl", -EINVAL)

\* ioctl returns its code as it is.
Ioctl(rc) == last' = [call |-> "ioctl", rc |-> rc]
DriverIoctl(i) ==
  /\ Running /\ UNCHANGED <<pool, held>>
  /\ \E rc \in Callback(alt_fd_list[i].dev, "ioctl", -ENOTTY) : Ioctl(rc)

\* alt_fd_lock looks at the descriptors below the high-water mark.
Lock(i) ==
  LET others == {j \in Fds : j < alt_max_fd /\ j # i /\ alt_fd_list[j].dev = alt_fd_list[i].dev} IN
    /\ Running /\ alt_fd_list[i].isdev /\ UNCHANGED <<alt_max_fd, held>>
    /\ IF others = {}
       THEN alt_fd_list' = [alt_fd_list EXCEPT ![i].excl = TRUE] /\ Ioctl(0)
       ELSE Ioctl(-EACCES) /\ UNCHANGED alt_fd_list

Unlock(i) ==
  /\ Running /\ alt_fd_list[i].isdev /\ Ioctl(0)
  /\ alt_fd_list' = [alt_fd_list EXCEPT ![i].excl = FALSE]
  /\ UNCHANGED <<alt_max_fd, held>>

\* open, fstat and close; a failed open leaves -1 for the other two.
Stat(name) ==
  \E status \in {0, -EIO} :
    LET o == AllocFd(Lookup(name), "O_RDONLY", {}, status) IN
      /\ Running /\ status \in OpenStatus(Lookup(name))
      /\ alt_fd_list' = (IF o.rc < 0 THEN o.fds ELSE Released(o.fds, o.rc)) /\ alt_max_fd' = o.max
      /\ IF o.rc < 0 THEN Returns("stat", -EBADFD)
         ELSE \E rc \in Callback(Lookup(name), "fstat", 0) : last' = [call |-> "stat", rc |-> rc]
      /\ UNCHANGED held

OnDescriptor(i) ==
  \/ Close(i) \/ Read(i) \/ Write(i) \/ Lseek(i) \/ Fstat(i) \/ Isatty(i)
  \/ i \in Settable /\ \E flags \in SUBSET Flags : SetFlags(i, flags)
  \/ OtherFcntl(i) \/ DriverIoctl(i) \/ Lock(i) \/ Unlock(i)

Next ==
  \/ StartUp
  \/ \E name \in Names : Stat(name) \/ \E mode \in OpenModes, flags \in SUBSET Flags : Open(name, mode, flags)
  \/ \E i \in Allocated : OnDescriptor(i)
  \/ \E call \in {"close", "read", "write", "lseek", "fstat", "isatty", "fcntl"} : BadFd(call)

Spec == Init /\ [][Next]_vars

-----------------------------------------------------------------------------
\* Descriptors do not leak: above the standard three, what is allocated is
\* exactly what the program holds, whatever failed on the way - a lock, a
\* driver, a redirection, the open inside stat.
NoLeak == Allocated \ Standard = held \ Standard

\* The standard streams always have a device behind them, also after they have
\* been closed: printf never follows a null pointer.
StandardUsable == Standard \subseteq Allocated

\* The high-water mark that alt_file_locked relies on to see every lock.
BelowHighWater == \A i \in Allocated \ Standard : i <= alt_max_fd

\* While a descriptor of a device is locked no other is opened for it.
LockKeepsOut ==
  [][\A i \in Fds : (i \notin Allocated /\ i \in Allocated') =>
       \A j \in Allocated : alt_fd_list[j].excl => alt_fd_list'[i].dev # alt_fd_list[j].dev]_vars

\* Between open and close a descriptor keeps its device and its access mode.
ModeIsKept ==
  [][phase = "main" => \A i \in Allocated : i \in Allocated' =>
       /\ alt_fd_list'[i].dev = alt_fd_list[i].dev
       /\ alt_fd_list'[i].mode = alt_fd_list[i].mode]_vars
=============================================================================

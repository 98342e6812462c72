------------------------------- MODULE Upgrade -------------------------------
(***************************************************************************)
(* The self-upgrade of src/util/upgrade.go: DoUpgrade asks GitHub for the  *)
(* releases (CheckUpdate), picks the asset of this platform (findAsset),   *)
(* downloads it into a temporary file, and renames that file over the      *)
(* running binary (FindHilbertspace).                                      *)
(*                                                                         *)
(* The model follows the DoUpgrade of each of a set of processes (the     *)
(* command run more than once on one machine) through its steps, each of   *)
(* which may fail as the code handles it (return err), together with the   *)
(* file system under them. The temporary file has one fixed path,          *)
(* os.TempDir()/hilbertspace-upgrade, so the file system is modelled as   *)
(* inodes, each with a content and whether that content has reached the   *)
(* disk, and two paths naming inodes: the temporary path and the binary.   *)
(* A process writes through the descriptor it opened, whatever path names  *)
(* that inode by then; os.Rename moves whatever the temporary path names.  *)
(* The code never calls Sync or Close, so data is durable only once the    *)
(* kernel writes it back (Writeback, at any time); a rename is atomic. A   *)
(* crash of the machine may happen at any time; file data not yet written  *)
(* back is then lost, in whole or in part.                                 *)
(*                                                                         *)
(* A file content is a record: a program binary of some version, an error  *)
(* page, or an empty or partial file. Versions are numbers; a release tag  *)
(* is "v" and a version, a version without the "v", or empty.             *)
(***************************************************************************)
EXTENDS Integers, FiniteSets, TLC

CONSTANTS
    Versions,   \* release versions, numbers ordered by age
    Current,    \* the version of the running binary
    Procs       \* processes running DoUpgrade

ASSUME Current \in Versions

VARIABLES
    pc,         \* pc[p]: the step p's DoUpgrade is at, or how it ended
    available,  \* available[p]: p's UpdateAvailable, or NoRelease
    body,       \* body[p]: what p's download response carries
    fd,         \* fd[p]: the inode p's temporary file descriptor refers to
    data,       \* data[i]: the content of inode i
    durable,    \* durable[i]: inode i's content is on disk
    tmpPath,    \* the inode at os.TempDir()/hilbertspace-upgrade, or NoIno
    binPath,    \* the inode at cmdPath
    nextIno     \* the inode the next file creation gets

vars == <<pc, available, body, fd, data, durable, tmpPath, binPath, nextIno>>

Binary(v) == [kind |-> "binary", ver |-> v]
ErrorPage == [kind |-> "errpage", ver |-> 0]
EmptyFile == [kind |-> "empty", ver |-> 0]
PartialFile == [kind |-> "partial", ver |-> 0]
NoBody == [kind |-> "none", ver |-> 0]
Contents == {Binary(v) : v \in Versions} \cup {ErrorPage, EmptyFile, PartialFile}

\* Inode 0 is the installed binary; each file creation takes the next one.
NoIno == -1
Inodes == 0..Cardinality(Procs)

\* A release's tag: "v1.2" (prefixed), "1.2" (plain) or "".
Tags == [text : {"prefixed", "plain"}, ver : Versions] \cup {[text |-> "empty", ver |-> 0]}
NoRelease == [text |-> "none", ver |-> 0]

\* (*tag)[1:]: the version for a "v"-prefixed tag; for a plain tag the
\* first digit is cut, which equals no version; an empty tag panics.
TagVersion(t) == IF t.text = "prefixed" THEN t.ver ELSE 0

Pcs == {"check", "asset", "open", "get", "copy", "find", "rename",
        "done", "failed", "panic", "crashed"}

TypeOK ==
    /\ pc \in [Procs -> Pcs]
    /\ available \in [Procs -> Tags \cup {NoRelease}]
    /\ body \in [Procs -> Contents \cup {NoBody}]
    /\ fd \in [Procs -> Inodes \cup {NoIno}]
    /\ data \in [0..(nextIno - 1) -> Contents]
    /\ durable \in [0..(nextIno - 1) -> BOOLEAN]
    /\ tmpPath \in Inodes \cup {NoIno} /\ binPath \in Inodes

Init ==
    /\ pc = [p \in Procs |-> "check"]
    /\ available = [p \in Procs |-> NoRelease]
    /\ body = [p \in Procs |-> NoBody]
    /\ fd = [p \in Procs |-> NoIno]
    /\ data = (0 :> Binary(Current)) /\ durable = (0 :> TRUE)
    /\ tmpPath = NoIno /\ binPath = 0
    /\ nextIno = 1

Fail(p) == pc' = [pc EXCEPT ![p] = "failed"]

Goto(p, s) == pc' = [pc EXCEPT ![p] = s]

\* Inode i now holds c, not yet on disk.
Write(i, c) ==
    /\ data' = [data EXCEPT ![i] = c]
    /\ durable' = [durable EXCEPT ![i] = FALSE]

fsVars == <<fd, data, durable, tmpPath, binPath, nextIno>>

(***************************************************************************)
(* DoUpgrade, one action per call that can fail.                           *)
(***************************************************************************)
\* CheckUpdate: ListReleases may fail; UpdateAvailable is releases[0] when
\* its tag without the first character differs from the version.
CheckUpdate(p) ==
    /\ pc[p] = "check"
    /\ \/ /\ Fail(p)
          /\ UNCHANGED available
       \/ /\ available' = [available EXCEPT ![p] = NoRelease]
          /\ Goto(p, "done")
       \/ \E t \in Tags :
            \/ /\ t.text = "empty"
               /\ Goto(p, "panic")
               /\ UNCHANGED available
            \/ /\ t.text # "empty"
               /\ available' = [available EXCEPT ![p] =
                                  IF TagVersion(t) # Current THEN t ELSE NoRelease]
               /\ Goto(p, IF TagVersion(t) # Current THEN "asset" ELSE "done")
    /\ UNCHANGED <<body, fsVars>>

\* findAsset: the release may have no asset for this GOOS and GOARCH.
FindAsset(p) ==
    /\ pc[p] = "asset"
    /\ Fail(p) \/ Goto(p, "open")
    /\ UNCHANGED <<available, body, fsVars>>

\* os.OpenFile(tmpPath, O_CREATE|O_TRUNC|O_RDWR): the file at the path,
\* truncated, whoever else has it open; or a new file when there is none.
OpenTmp(p) ==
    /\ pc[p] = "open"
    /\ \/ /\ Fail(p)
          /\ UNCHANGED fsVars
       \/ /\ Goto(p, "get")
          /\ tmpPath # NoIno
          /\ fd' = [fd EXCEPT ![p] = tmpPath]
          /\ Write(tmpPath, EmptyFile)
          /\ UNCHANGED <<tmpPath, binPath, nextIno>>
       \/ /\ Goto(p, "get")
          /\ tmpPath = NoIno
          /\ fd' = [fd EXCEPT ![p] = nextIno]
          /\ data' = data @@ (nextIno :> EmptyFile)
          /\ durable' = durable @@ (nextIno :> FALSE)
          /\ tmpPath' = nextIno
          /\ nextIno' = nextIno + 1
          /\ UNCHANGED binPath
    /\ UNCHANGED <<available, body>>

\* http.Get: a transport error fails; any HTTP status is accepted, so the
\* body is the release binary or an error page.
Download(p) ==
    /\ pc[p] = "get"
    /\ \/ /\ Fail(p)
          /\ UNCHANGED body
       \/ /\ Goto(p, "copy")
          /\ \E b \in {Binary(available[p].ver), ErrorPage} :
                body' = [body EXCEPT ![p] = b]
    /\ UNCHANGED <<available, fsVars>>

\* io.Copy through p's descriptor: a broken connection leaves a partial
\* file.
Copy(p) ==
    /\ pc[p] = "copy"
    /\ \/ /\ Fail(p)
          /\ Write(fd[p], PartialFile)
       \/ /\ Goto(p, "find")
          /\ Write(fd[p], body[p])
    /\ UNCHANGED <<available, body, fd, tmpPath, binPath, nextIno>>

\* FindHilbertspace: LookPath, else the absolute path of os.Args[0].
FindBinary(p) ==
    /\ pc[p] = "find"
    /\ Fail(p) \/ Goto(p, "rename")
    /\ UNCHANGED <<available, body, fsVars>>

\* os.Rename(tmpPath, cmdPath): atomic; it moves whatever file is at the
\* temporary path, and fails when there is none (another process renamed
\* it). Success returns nil and exits the process three seconds later.
Rename(p) ==
    /\ pc[p] = "rename"
    /\ \/ /\ Fail(p)
          /\ UNCHANGED <<tmpPath, binPath>>
       \/ /\ tmpPath # NoIno
          /\ Goto(p, "done")
          /\ binPath' = tmpPath
          /\ tmpPath' = NoIno
    /\ UNCHANGED <<available, body, fd, data, durable, nextIno>>

(***************************************************************************)
(* The file system and the machine.                                        *)
(***************************************************************************)
\* The kernel writes a dirty inode back to disk.
Writeback ==
    /\ \E i \in DOMAIN durable :
          /\ ~durable[i]
          /\ durable' = [durable EXCEPT ![i] = TRUE]
    /\ UNCHANGED <<pc, available, body, fd, data, tmpPath, binPath, nextIno>>

\* What a file holds after a crash: its data if written back, else some or
\* none of it.
AfterCrash(c, isDurable) == IF isDurable THEN {c} ELSE {c, EmptyFile, PartialFile}

\* The machine crashes: every DoUpgrade is gone, and nothing restarts one.
Crash ==
    /\ \E p \in Procs : pc[p] # "crashed"
    /\ pc' = [p \in Procs |-> "crashed"]
    /\ data' \in {d \in [DOMAIN data -> Contents] :
                    \A i \in DOMAIN data : d[i] \in AfterCrash(data[i], durable[i])}
    /\ durable' = [i \in DOMAIN durable |-> TRUE]
    /\ UNCHANGED <<available, body, fd, tmpPath, binPath, nextIno>>

Next ==
    \/ \E p \in Procs :
          \/ CheckUpdate(p) \/ FindAsset(p) \/ OpenTmp(p) \/ Download(p)
          \/ Copy(p) \/ FindBinary(p) \/ Rename(p)
    \/ Writeback
    \/ Crash

SpecUpgrade == Init /\ [][Next]_vars

(***************************************************************************)
(* Properties                                                              *)
(***************************************************************************)
\* Whatever step a DoUpgrade fails at, however the upgrades interleave and
\* wherever the machine crashes, the file at cmdPath is a complete program
\* binary no older than the one that ran the upgrade: the old binary, or
\* the complete binary of a newer release.
InstalledBinaryRunnable ==
    data[binPath].kind = "binary" /\ data[binPath].ver >= Current

====

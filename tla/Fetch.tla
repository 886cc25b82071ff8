-------------------------------- MODULE Fetch --------------------------------
(***************************************************************************)
(* fetch(): every archive the launcher installs from is taken from a cache *)
(* whose file is verified against the manifest's sha256 on each use, and   *)
(* is filled by curl into one <filename>.partial that is renamed once its  *)
(* digest is right.  The model is of one archive, named by a path in the   *)
(* cache and a path for the partial download; two invocations share both.  *)
(***************************************************************************)
EXTENDS Naturals

CONSTANTS
  Fetchers,  \* invocations that fetch the archive
  Chunks,    \* a download is written chunk by chunk, 1..Chunks
  Inodes,    \* files that the two paths can name
  None,      \* a path that names no file
  Overlap    \* may two invocations fetch the archive at one time?

ASSUME FetchAssumption ==
  /\ Chunks \in Nat \ {0}
  /\ None \notin Inodes
  /\ Overlap \in BOOLEAN

VARIABLES
  dest,     \* the file that cache/<filename> names
  partial,  \* the file that cache/<filename>.partial names
  content,  \* the chunks of every file
  pc,       \* where each invocation is
  fd,       \* the file that an invocation's curl has open
  pos,      \* the next chunk its curl writes
  server    \* whether its download delivers the pinned bytes

vars == <<dest, partial, content, pc, fd, pos, server>>

Bytes == {"hole", "good", "bad"}
Labels == {"idle", "check", "curl", "write", "digest", "replace", "use"}

(* digest(path) equals the manifest's sha256 exactly when all bytes do. *)
Pinned(file) == content[file] = [k \in 1..Chunks |-> "good"]

TypeOK ==
  /\ dest \in Inodes \cup {None} /\ partial \in Inodes \cup {None}
  /\ content \in [Inodes -> [1..Chunks -> Bytes]]
  /\ pc \in [Fetchers -> Labels]
  /\ fd \in [Fetchers -> Inodes \cup {None}]
  /\ pos \in [Fetchers -> 1..Chunks + 1]
  /\ server \in [Fetchers -> {"good", "bad"}]
  /\ \A f \in Fetchers : pc[f] = "write" => fd[f] \in Inodes

Init ==
  /\ dest \in Inodes \cup {None} /\ partial = None
  /\ content \in [Inodes -> [1..Chunks -> {"good", "bad"}]]
  /\ pc = [f \in Fetchers |-> "idle"]
  /\ fd = [f \in Fetchers |-> None]
  /\ pos = [f \in Fetchers |-> 1]
  /\ server = [f \in Fetchers |-> "good"]

Goto(f, label) == pc' = [pc EXCEPT ![f] = label]

-----------------------------------------------------------------------------
Begin(f) ==
  /\ pc[f] = "idle"
  /\ ~Overlap => \A g \in Fetchers : pc[g] = "idle"
  /\ Goto(f, "check")
  /\ UNCHANGED <<dest, partial, content, fd, pos, server>>

\* Mutant: a cached file is trusted because it exists.
CheckCacheExists(f) ==
  /\ pc[f] = "check"
  /\ Goto(f, IF dest # None THEN "use" ELSE "curl")
  /\ UNCHANGED <<dest, partial, content, fd, pos, server>>

(* A cached file is used only if its digest is still the pinned one. *)
CheckCache(f) ==
  /\ pc[f] = "check"
  /\ Goto(f, IF dest # None /\ Pinned(dest) THEN "use" ELSE "curl")
  /\ UNCHANGED <<dest, partial, content, fd, pos, server>>

(* curl opens --output: an existing file is truncated, by whomever it was  *)
(* created; otherwise a new file, one that no path and no curl holds.      *)
OpenPartial(f) ==
  /\ pc[f] = "curl"
  /\ \E i \in Inodes :
       /\ IF partial # None THEN i = partial
          ELSE i # dest /\ \A g \in Fetchers : pc[g] = "write" => fd[g] # i
       /\ partial' = i
       /\ content' = [content EXCEPT ![i] = [k \in 1..Chunks |-> "hole"]]
       /\ fd' = [fd EXCEPT ![f] = i]
  /\ pos' = [pos EXCEPT ![f] = 1]
  /\ \E s \in {"good", "bad"} : server' = [server EXCEPT ![f] = s]
  /\ Goto(f, "write")
  /\ UNCHANGED dest

WriteChunk(f) ==
  /\ pc[f] = "write" /\ pos[f] <= Chunks
  /\ content' = [content EXCEPT ![fd[f]][pos[f]] = server[f]]
  /\ pos' = [pos EXCEPT ![f] = @ + 1]
  /\ UNCHANGED <<dest, partial, pc, fd, server>>

(* curl has succeeded and closed its file. *)
CurlReturns(f) ==
  /\ pc[f] = "write" /\ pos[f] = Chunks + 1
  /\ fd' = [fd EXCEPT ![f] = None]
  /\ Goto(f, "digest")
  /\ UNCHANGED <<dest, partial, content, pos, server>>

\* Mutant: what curl has downloaded is not verified.
VerifyPartialSkipped(f) ==
  /\ pc[f] = "digest"
  /\ Goto(f, IF partial # None THEN "replace" ELSE "idle")
  /\ UNCHANGED <<dest, partial, content, fd, pos, server>>

(* The partial file is verified by its path; a mismatch leaves it there,   *)
(* and a missing file raises.                                              *)
VerifyPartial(f) ==
  /\ pc[f] = "digest"
  /\ Goto(f, IF partial # None /\ Pinned(partial) THEN "replace" ELSE "idle")
  /\ UNCHANGED <<dest, partial, content, fd, pos, server>>

Promote(f) ==
  /\ pc[f] = "replace"
  /\ IF partial # None
       THEN dest' = partial /\ partial' = None /\ Goto(f, "use")
       ELSE UNCHANGED <<dest, partial>> /\ Goto(f, "idle")
  /\ UNCHANGED <<content, fd, pos, server>>

(* The caller reads the returned path: extraction, installation. *)
Use(f) ==
  /\ pc[f] = "use"
  /\ Goto(f, "idle")
  /\ UNCHANGED <<dest, partial, content, fd, pos, server>>

\* Mutant: a failed download is resumed on the file that curl has closed.
FailsResumes(f) ==
  /\ pc[f] # "idle"
  /\ fd' = [fd EXCEPT ![f] = None]
  /\ UNCHANGED <<dest, partial, content, pc, pos, server>>

(* curl fails and run() raises, or the invocation is interrupted with its  *)
(* curl; the partial file stays.                                           *)
Fails(f) ==
  /\ pc[f] # "idle"
  /\ fd' = [fd EXCEPT ![f] = None]
  /\ Goto(f, "idle")
  /\ UNCHANGED <<dest, partial, content, pos, server>>

(* Between invocations a file of the cache decays or is edited. *)
Damage ==
  /\ \A f \in Fetchers : pc[f] = "idle"
  /\ dest # None
  /\ \E k \in 1..Chunks : content' = [content EXCEPT ![dest][k] = "bad"]
  /\ UNCHANGED <<dest, partial, pc, fd, pos, server>>

FetchStep(f) ==
  \/ CheckCache(f) \/ OpenPartial(f) \/ WriteChunk(f) \/ CurlReturns(f)
  \/ VerifyPartial(f) \/ Promote(f) \/ Use(f)

Next ==
  \/ \E f \in Fetchers : Begin(f) \/ FetchStep(f) \/ Fails(f)
  \/ Damage

Spec == Init /\ [][Next]_vars

-----------------------------------------------------------------------------
(* Properties. *)

CachePinned == dest # None /\ Pinned(dest)

(* Whoever reads the path that fetch() returned reads the pinned bytes,    *)
(* from a first download, from a cache that was damaged since, or after    *)
(* any number of failed and interrupted downloads.                         *)
VerifiedUse ==
  \A f \in Fetchers : pc[f] = "use" => CachePinned

(* A partial download becomes the cached archive only with the pinned      *)
(* digest.                                                                 *)
PromotesPinned == [][dest' # dest => CachePinned']_vars
=============================================================================

----------------------------- MODULE PackageCache -----------------------------
(***************************************************************************)
(* The host's cache of OpenSSH packages for one guest distribution         *)
(* (internal/incusclient/netboot.go).  A guest that cannot install OpenSSH *)
(* with apt gets the packages from the host: EnsureOpenSSHDebs resolves    *)
(* and downloads what it does not find in the cache directory, and         *)
(* InstallOpenSSHFromHost pushes every .deb of the directory.  Several     *)
(* guests are set up at once; nothing locks the directory, which outlives  *)
(* the process.                                                            *)
(***************************************************************************)
EXTENDS Integers, Sequences

CONSTANTS
  Warm,       \* the goroutine of Connect, which fills the cache at start-up
  Installer,  \* goroutines that set up a guest; each runs once
  Name,       \* package names
  Server,     \* openssh-server
  Required,   \* the roots that must be in the index
  Roots,      \* the packages resolution starts from, in order
  Base,       \* baseDebSkip
  Depends,    \* the first alternative of every dependency of a package, in order
  Suites,     \* the package indexes: each a set of names
  Failures,   \* which external calls may fail
  MaxFaults   \* bound on the failed calls and crashes

Failure == {"detect", "index", "fetch", "copy", "push", "crash"}

Elements(s) == {s[i] : i \in DOMAIN s}

ASSUME PackageAssumption ==
  /\ Warm \notin Installer
  /\ (Installer \cup {Warm}) \cap {"absent", "torn", "whole"} = {}
  /\ Server \in Required /\ Required \subseteq Elements(Roots)
  /\ Roots \in Seq(Name)
  /\ Base \subseteq Name /\ Base \cap Elements(Roots) = {}
  /\ Depends \in [Name -> Seq(Name)]
  /\ Suites \subseteq SUBSET Name
  /\ Failures \subseteq Failure
  /\ MaxFaults \in Nat

Proc == Installer \cup {Warm}

VARIABLES
  deb,     \* the .deb file of a package; a process: being written by it
  part,    \* the .deb.partial file, likewise
  pc,      \* where each process is
  index,   \* the names in the index a process has loaded
  need,    \* resolveOpenSSHDebs: names still to look at
  out,     \* resolveOpenSSHDebs: the packages found, in order
  rest,    \* of those, the ones still to download
  warms,   \* the cache is the one Connect fills
  faults,  \* failures and crashes so far
  shared,  \* history: two processes downloaded the same package at once
  calm     \* history: nothing failed and no two processes used the cache at once

files == <<deb, part>>
local == <<index, need, out, rest>>
hist  == <<faults, shared, calm>>
vars  == <<files, pc, local, warms, hist>>

------------------------------------------------------------------------------
Location == {"idle", "detect", "glob", "index", "resolve", "fetch", "copy", "rename",
             "push", "ok", "failed"}

Package == Name \ Base

TypeOK ==
  /\ deb \in [Package -> {"absent", "torn", "whole"} \cup Proc]
  /\ part \in [Package -> {"absent", "torn", "whole"} \cup Proc]
  /\ pc \in [Proc -> Location]
  /\ index \in [Proc -> SUBSET Name]
  /\ need \in [Proc -> Seq(Name)]
  /\ out \in [Proc -> Seq(Package)]
  /\ rest \in [Proc -> Seq(Package)]
  /\ warms \in BOOLEAN
  /\ faults \in 0..MaxFaults
  /\ shared \in BOOLEAN
  /\ calm \in BOOLEAN

\* The guests are of the default distribution, or of another one.
Init ==
  /\ deb = [p \in Package |-> "absent"]
  /\ part = [p \in Package |-> "absent"]
  /\ warms \in BOOLEAN
  /\ pc = [x \in Proc |-> IF x = Warm /\ ~warms THEN "ok" ELSE "idle"]
  /\ index = [x \in Proc |-> {}]
  /\ need = [x \in Proc |-> <<>>]
  /\ out = [x \in Proc |-> <<>>]
  /\ rest = [x \in Proc |-> <<>>]
  /\ faults = 0
  /\ shared = FALSE
  /\ calm = TRUE

Ended(x) == pc[x] \in {"ok", "failed"}

Goto(x, l) == pc' = [pc EXCEPT ![x] = l]

\* EnsureOpenSSHDebs returns nil: Connect is done, an installer pushes.
Ensured(x) == Goto(x, IF x = Warm THEN "ok" ELSE "push")

Ok == UNCHANGED hist

Fault(f) ==
  /\ f \in Failures
  /\ faults < MaxFaults
  /\ faults' = faults + 1
  /\ calm' = FALSE
  /\ UNCHANGED shared

------------------------------------------------------------------------------
(***************************************************************************)
(* EnsureOpenSSHDebs.                                                      *)
(***************************************************************************)

\* Connect's warm-up begins.
EnsureHostOpenSSHDebs ==
  /\ pc[Warm] = "idle"
  /\ Goto(Warm, "glob")
  /\ Ok
  /\ UNCHANGED <<files, local, warms>>

\* Once the server is up: apt installs OpenSSH in the guest, or the cache is needed.
EnsureSSH(x) ==
  /\ pc[x] = "idle"
  /\ Ended(Warm)
  /\ Goto(x, "ok") \/ Goto(x, "detect")
  /\ Ok
  /\ UNCHANGED <<files, local, warms>>

DetectGuestOS(x) ==
  /\ pc[x] = "detect"
  /\ \/ /\ Goto(x, "glob")
        /\ calm' = (calm /\ \A y \in Proc : pc[y] \in {"idle", "detect"} \/ Ended(y))
        /\ UNCHANGED <<faults, shared>>
     \/ Fault("detect") /\ Goto(x, "failed")
  /\ UNCHANGED <<files, local, warms>>

\* The cache counts as filled when openssh-server is in it.
FindServerDeb(x) ==
  /\ pc[x] = "glob"
  /\ \/ deb[Server] # "absent" /\ Ensured(x)
     \/ deb[Server] = "absent" /\ Goto(x, "index")
  /\ Ok
  /\ UNCHANGED <<files, local, warms>>

\* An index that cannot be loaded is left out; none at all is an error.
LoadPackagesIndex(x) ==
  /\ pc[x] = "index"
  /\ \E loaded \in SUBSET Suites :
       /\ index' = [index EXCEPT ![x] = UNION loaded]
       /\ (loaded = Suites /\ Ok) \/ (loaded # Suites /\ Fault("index"))
       /\ Goto(x, IF UNION loaded = {} THEN "failed" ELSE "resolve")
  /\ need' = [need EXCEPT ![x] = Roots]
  /\ out' = [out EXCEPT ![x] = <<>>]
  /\ UNCHANGED <<files, rest, warms>>

\* Mistaken variant of ResolveNext: a missing optional package ends the search.
ResolveNextEnds(x) ==
  LET n == Head(need[x]) IN
  /\ pc[x] = "resolve"
  /\ need[x] # <<>>
  /\ \/ /\ n \in Elements(out[x]) \cup Base
        /\ need' = [need EXCEPT ![x] = Tail(@)]
        /\ UNCHANGED <<pc, out>>
     \/ /\ n \notin index[x] \cup Base
        /\ need' = [need EXCEPT ![x] = <<>>]
        /\ IF n \in Required THEN Goto(x, "failed") ELSE UNCHANGED pc
        /\ UNCHANGED out
     \/ /\ n \in index[x] \ (Elements(out[x]) \cup Base)
        /\ need' = [need EXCEPT ![x] = Tail(@) \o Depends[n]]
        /\ out' = [out EXCEPT ![x] = Append(@, n)]
        /\ UNCHANGED pc
  /\ Ok
  /\ UNCHANGED <<files, index, rest, warms>>

\* Mistaken variant of ResolveNext: packages of the base system are not skipped.
ResolveNextBase(x) ==
  LET n == Head(need[x]) IN
  /\ pc[x] = "resolve"
  /\ need[x] # <<>>
  /\ \/ /\ n \in Elements(out[x]) \/ n \notin index[x]
        /\ need' = [need EXCEPT ![x] = Tail(@)]
        /\ UNCHANGED out
     \/ /\ n \in index[x] \ Elements(out[x])
        /\ need' = [need EXCEPT ![x] = Tail(@) \o Depends[n]]
        /\ out' = [out EXCEPT ![x] = Append(@, n)]
  /\ Ok
  /\ UNCHANGED <<files, pc, index, rest, warms>>

\* One turn of the loop of resolveOpenSSHDebs: the name has been seen or belongs
\* to the base system, or is not in the index, or is taken with what it needs.
\* The code also leaves out what is known when it appends; here that is skipped at
\* its turn, to the same effect.
ResolveNext(x) ==
  LET n == Head(need[x])
      known == Elements(out[x]) \cup Base
  IN
  /\ pc[x] = "resolve"
  /\ need[x] # <<>>
  /\ \/ /\ n \in known
        /\ need' = [need EXCEPT ![x] = Tail(@)]
        /\ UNCHANGED <<pc, out>>
     \/ /\ n \notin known \cup index[x]
        /\ need' = [need EXCEPT ![x] = Tail(@)]
        /\ IF n \in Required THEN Goto(x, "failed") ELSE UNCHANGED pc
        /\ UNCHANGED out
     \/ /\ n \in index[x] \ known
        /\ need' = [need EXCEPT ![x] = Tail(@) \o Depends[n]]
        /\ out' = [out EXCEPT ![x] = Append(@, n)]
        /\ UNCHANGED pc
  /\ Ok
  /\ UNCHANGED <<files, index, rest, warms>>

\* Mistaken variant of Resolved: the last package is left out.
ResolvedShort(x) ==
  /\ pc[x] = "resolve"
  /\ need[x] = <<>>
  /\ rest' = [rest EXCEPT ![x] = SubSeq(out[x], 1, Len(out[x]) - 1)]
  /\ Goto(x, "fetch")
  /\ Ok
  /\ UNCHANGED <<files, index, need, out, warms>>

Resolved(x) ==
  /\ pc[x] = "resolve"
  /\ need[x] = <<>>
  /\ rest' = [rest EXCEPT ![x] = out[x]]
  /\ Goto(x, "fetch")
  /\ Ok
  /\ UNCHANGED <<files, index, need, out, warms>>

------------------------------------------------------------------------------
(***************************************************************************)
(* downloadDebFile.  The file a process writes to may be renamed or removed *)
(* by another one, and os.Create truncates a file that somebody else is    *)
(* writing: it is whole again when the last process that truncated it has  *)
(* written everything.                                                     *)
(***************************************************************************)

NextPackage(x) == rest' = [rest EXCEPT ![x] = Tail(@)]

\* Another process is between creating and renaming the partial file of p.
Busy(x, p) ==
  \E y \in Proc \ {x} : pc[y] \in {"copy", "rename"} /\ Head(rest[y]) = p

\* The loop ends; or a package is there already, and not empty; or a mirror answers
\* and the partial file is created.
FetchDeb(x) ==
  LET p == Head(rest[x]) IN
  /\ pc[x] = "fetch"
  /\ \/ /\ rest[x] = <<>>
        /\ \/ deb[Server] # "absent" /\ Ensured(x)
           \/ deb[Server] = "absent" /\ Goto(x, "failed")
        /\ Ok
        /\ UNCHANGED <<part, rest>>
     \/ /\ rest[x] # <<>> /\ deb[p] # "absent"
        /\ NextPackage(x)
        /\ Ok
        /\ UNCHANGED <<part, pc>>
     \/ /\ rest[x] # <<>> /\ deb[p] # "whole"
        /\ part' = [part EXCEPT ![p] = x]
        /\ Goto(x, "copy")
        /\ shared' = (shared \/ Busy(x, p))
        /\ UNCHANGED <<rest, faults, calm>>
     \/ /\ rest[x] # <<>> /\ deb[p] # "whole"
        /\ Fault("fetch")
        /\ Goto(x, "failed")
        /\ UNCHANGED <<part, rest>>
  /\ UNCHANGED <<deb, index, need, out, warms>>

\* The file of a process, wherever it is now, is complete, or will never be.
Settle(f, p, x, content) == [f EXCEPT ![p] = IF @ = x THEN content ELSE @]

CopyDeb(x) ==
  LET p == Head(rest[x]) IN
  /\ pc[x] = "copy"
  /\ part' = Settle(part, p, x, "whole")
  /\ deb' = Settle(deb, p, x, "whole")
  /\ Goto(x, "rename")
  /\ Ok
  /\ UNCHANGED <<local, warms>>

\* Mistaken variant of CopyFails: the error of io.Copy is not looked at.
CopyFailsUnseen(x) ==
  LET p == Head(rest[x]) IN
  /\ pc[x] = "copy"
  /\ Fault("copy")
  /\ part' = Settle(part, p, x, "torn")
  /\ deb' = Settle(deb, p, x, "torn")
  /\ Goto(x, "rename")
  /\ UNCHANGED <<local, warms>>

\* The partial file is removed, whoever writes it; the next mirror is tried, or
\* there is none.
CopyFails(x) ==
  LET p == Head(rest[x]) IN
  /\ pc[x] = "copy"
  /\ Fault("copy")
  /\ part' = [part EXCEPT ![p] = "absent"]
  /\ deb' = Settle(deb, p, x, "torn")
  /\ Goto(x, "fetch") \/ Goto(x, "failed")
  /\ UNCHANGED <<local, warms>>

\* os.Rename, of whatever the partial file is by now.
RenameDeb(x) ==
  LET p == Head(rest[x]) IN
  /\ pc[x] = "rename"
  /\ \/ /\ part[p] # "absent"
        /\ deb' = [deb EXCEPT ![p] = part[p]]
        /\ part' = [part EXCEPT ![p] = "absent"]
        /\ NextPackage(x)
        /\ Goto(x, "fetch")
     \/ /\ part[p] = "absent"
        /\ Goto(x, "failed")
        /\ UNCHANGED <<files, rest>>
  /\ Ok
  /\ UNCHANGED <<index, need, out, warms>>

------------------------------------------------------------------------------
(***************************************************************************)
(* InstallOpenSSHFromHost.                                                 *)
(***************************************************************************)

\* Every .deb of the directory is pushed.  dpkg refuses a file that is not whole,
\* and a package whose dependencies are not there.
InstallOpenSSHFromHost(x) ==
  LET pushed == {p \in Package : deb[p] # "absent"}
      met == \A p \in pushed :
               deb[p] = "whole" /\ Elements(Depends[p]) \subseteq pushed \cup Base
  IN
  /\ pc[x] = "push"
  /\ \/ Goto(x, IF met THEN "ok" ELSE "failed") /\ Ok
     \/ Fault("push") /\ Goto(x, "failed")
  /\ UNCHANGED <<files, local, warms>>

\* What was being written stays as it is.
Crash ==
  /\ Fault("crash")
  /\ LET left(f) == [p \in Package |-> IF f[p] \in Proc THEN "torn" ELSE f[p]]
     IN  deb' = left(deb) /\ part' = left(part)
  /\ pc' = [x \in Proc |-> IF x = Warm THEN IF warms THEN "idle" ELSE "ok"
                           ELSE IF pc[x] = "idle" THEN "idle" ELSE "failed"]
  /\ UNCHANGED <<local, warms>>

EnsureOpenSSHDebs(x) ==
  \/ FindServerDeb(x) \/ LoadPackagesIndex(x)
  \/ ResolveNext(x)   \/ Resolved(x)  \/ FetchDeb(x)
  \/ CopyDeb(x)       \/ CopyFails(x) \/ RenameDeb(x)

Install(x) == EnsureSSH(x) \/ DetectGuestOS(x) \/ InstallOpenSSHFromHost(x)

Next ==
  \/ EnsureHostOpenSSHDebs
  \/ \E x \in Proc : EnsureOpenSSHDebs(x)
  \/ \E x \in Installer : Install(x)
  \/ Crash

Spec == Init /\ [][Next]_vars

------------------------------------------------------------------------------
(***************************************************************************)
(* Properties.                                                             *)
(***************************************************************************)

\* What an index offers for OpenSSH: the least set that has the roots of the index
\* and, with a package, the dependencies that the index has.
Closure(names) ==
  LET closed(S) ==
        /\ Elements(Roots) \cap names \subseteq S
        /\ \A p \in S : (Elements(Depends[p]) \cap names) \ Base \subseteq S
  IN  {p \in Package : \A S \in SUBSET Package : closed(S) => p \in S}

\* A .deb file is whole whenever it exists, whatever fails and wherever the server
\* dies (.partial and rename), as long as no two goroutines download the same
\* package at once.
PackagesWhole == ~shared => \A p \in Package : deb[p] \in {"absent", "whole"}

\* resolveOpenSSHDebs, with its queue, its seen set and its early exits, finds
\* exactly the closure of its roots, each package once.
ResolvedClosed ==
  \A x \in Proc : pc[x] \in {"fetch", "copy", "rename"} =>
    /\ Elements(out[x]) = Closure(index[x])
    /\ \A i, j \in DOMAIN out[x] : out[x][i] = out[x][j] => i = j

\* The directory holds everything the guest needs when its packages are pushed.
PushedComplete ==
  \A x \in Installer : pc[x] = "push" =>
    \A p \in Closure(UNION Suites) : deb[p] # "absent"

\* So it does, and the guest gets its OpenSSH, when nothing has failed yet and the
\* guests came one after another.
CompleteWhenCalm ==
  calm => PushedComplete /\ \A x \in Proc : pc[x] # "failed"
================================================================================

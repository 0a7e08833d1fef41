-------------------------- MODULE PackageCacheProofs --------------------------
(***************************************************************************)
(* The package cache, for every dependency graph, every number of guests   *)
(* set up at once, every failure and crash: no .deb file is ever half      *)
(* written, resolution finds exactly the closure of its roots, and while   *)
(* nothing has failed every guest finds all it needs.                      *)
(***************************************************************************)
EXTENDS PackageCache, SequenceTheorems, TLAPS

------------------------------------------------------------------------------
(***************************************************************************)
(* The inductive invariant.                                                *)
(***************************************************************************)

\* A process between creating and renaming a partial file.
Downloading(x) == pc[x] \in {"copy", "rename"}

\* Connect fills the cache before any guest is set up, and what is downloaded is
\* the first package that is left.
PathInv ==
  /\ pc[Warm] \notin {"detect", "push"}
  /\ \A x \in Installer : pc[x] \in {"idle", "ok", "failed"} \/ Ended(Warm)
  /\ \A x \in Proc : Downloading(x) => rest[x] # <<>>

\* While no package is downloaded by two processes, a partial file belongs to the
\* process that downloads the package, and is whole when it is renamed.
FileInv ==
  /\ \A x, y \in Proc :
       x # y /\ Downloading(x) /\ Downloading(y) => Head(rest[x]) # Head(rest[y])
  /\ \A x \in Proc : /\ pc[x] = "copy" => part[Head(rest[x])] = x
                     /\ pc[x] = "rename" => part[Head(rest[x])] = "whole"
  /\ \A p \in Package : deb[p] \in {"absent", "whole"}

Distinct(s) == \A i, j \in DOMAIN s : s[i] = s[j] => i = j

\* Resolution has taken only what the closure has, and has still to look at the
\* roots and dependencies that it has not taken.
ResolveAt(x) ==
  LET found == Elements(out[x]) \cup Elements(need[x]) IN
  /\ Elements(out[x]) \subseteq Closure(index[x])
  /\ (Elements(need[x]) \cap index[x]) \ Base \subseteq Closure(index[x])
  /\ Elements(Roots) \cap index[x] \subseteq found
  /\ \A p \in Elements(out[x]) : (Elements(Depends[p]) \cap index[x]) \ Base \subseteq found
  /\ Distinct(out[x])

ResolveInv ==
  \A x \in Proc :
    /\ pc[x] = "resolve" => ResolveAt(x)
    /\ pc[x] \in {"fetch", "copy", "rename"} =>
         Elements(out[x]) = Closure(index[x]) /\ Distinct(out[x])

\* The indexes have the required roots and, with a package of the closure, all that it
\* depends on: an archive from which OpenSSH can be installed.
Offered ==
  /\ Required \subseteq UNION Suites
  /\ \A p \in Closure(UNION Suites) : Elements(Depends[p]) \subseteq (UNION Suites) \cup Base

\* The cache has these packages and no other.
Has(P) == \A p \in Package : deb[p] = IF p \in P THEN "whole" ELSE "absent"

Needed == Closure(UNION Suites)

Working(x) == pc[x] \notin {"idle", "detect", "ok", "failed"}

\* The cache of a process that has it for itself: nothing until the index is resolved,
\* then what has been downloaded so far, then everything.
CalmAt(x) ==
  /\ pc[x] # "failed"
  /\ pc[x] \in {"index", "resolve"} => Has({})
  /\ pc[x] \in {"resolve", "fetch", "copy", "rename"} => index[x] = UNION Suites
  /\ pc[x] \in {"fetch", "copy", "rename"} =>
       /\ Elements(rest[x]) \subseteq Elements(out[x]) /\ Distinct(rest[x])
       /\ Has(Elements(out[x]) \ Elements(rest[x]))
  /\ pc[x] = "push" => Has(Needed)

CalmInv ==
  calm => /\ ~shared
          /\ \A x, y \in Proc : Working(x) /\ Working(y) => x = y
          /\ \A x \in Proc : CalmAt(x)
          /\ (\A x \in Proc : Working(x) => pc[x] \in {"glob", "push"})
               => Has({}) \/ Has(Needed)

IInv ==
  /\ TypeOK /\ PathInv /\ ResolveInv
  /\ ~shared => FileInv
  /\ Offered => CalmInv

------------------------------------------------------------------------------
(***************************************************************************)
(* Lemmas about sequences and closures.                                    *)
(***************************************************************************)

\* A list with one more element.
LEMMA Appended ==
  ASSUME NEW S, NEW s \in Seq(S), NEW e \in S
  PROVE  /\ Append(s, e) \in Seq(S)
         /\ Elements(Append(s, e)) = Elements(s) \cup {e}
         /\ Distinct(s) /\ e \notin Elements(s) => Distinct(Append(s, e))
  <1>1. /\ Append(s, e) \in Seq(S) /\ Len(s) \in Nat
        /\ DOMAIN Append(s, e) = 1..Len(s) + 1 /\ DOMAIN s = 1..Len(s)
        /\ \A i \in 1..Len(s) : Append(s, e)[i] = s[i]
        /\ Append(s, e)[Len(s) + 1] = e
    BY AppendProperties, LenProperties
  <1>2. \A i \in 1..Len(s) + 1 : i \in 1..Len(s) \/ i = Len(s) + 1
    BY <1>1
  <1>3. \A i \in 1..Len(s) : i \in 1..Len(s) + 1
    BY <1>1
  <1>4. Len(s) + 1 \in 1..Len(s) + 1
    BY <1>1
  <1>5. Elements(Append(s, e)) = Elements(s) \cup {e}
    BY <1>1, <1>2, <1>3, <1>4, Zenon DEF Elements
  <1>6. ASSUME Distinct(s), e \notin Elements(s)  PROVE Distinct(Append(s, e))
    <2>1. \A i \in 1..Len(s) : s[i] # e
      BY <1>1, <1>6 DEF Elements
    <2> QED
      BY <1>1, <1>2, <1>6, <2>1 DEF Distinct
  <1> QED
    BY <1>1, <1>5, <1>6

\* A list followed by another.
LEMMA Joined ==
  ASSUME NEW S, NEW s \in Seq(S), NEW t \in Seq(S)
  PROVE  s \o t \in Seq(S) /\ Elements(s \o t) = Elements(s) \cup Elements(t)
  <1>1. /\ s \o t \in Seq(S)
        /\ Len(s \o t) = Len(s) + Len(t)
        /\ \A i \in 1..Len(s) + Len(t) :
             (s \o t)[i] = IF i <= Len(s) THEN s[i] ELSE t[i - Len(s)]
    BY ConcatProperties, Zenon
  <1>2. /\ Len(s) \in Nat /\ Len(t) \in Nat
        /\ DOMAIN s = 1..Len(s) /\ DOMAIN t = 1..Len(t)
        /\ DOMAIN (s \o t) = 1..Len(s) + Len(t)
    BY <1>1, LenProperties
  <1>3. ASSUME NEW i \in 1..Len(s) + Len(t)
        PROVE  (s \o t)[i] \in Elements(s) \cup Elements(t)
    <2>1. CASE i <= Len(s)
      <3>1. i \in 1..Len(s)
        BY <1>2, <2>1
      <3> QED
        BY <1>1, <1>2, <2>1, <3>1 DEF Elements
    <2>2. CASE ~(i <= Len(s))
      <3>1. i - Len(s) \in 1..Len(t)
        BY <1>2, <2>2
      <3> QED
        BY <1>1, <1>2, <2>2, <3>1 DEF Elements
    <2> QED
      BY <2>1, <2>2
  <1>4. ASSUME NEW i \in 1..Len(s)  PROVE s[i] \in Elements(s \o t)
    <2>1. i \in 1..Len(s) + Len(t) /\ i <= Len(s)
      BY <1>2
    <2> QED
      BY <1>1, <1>2, <2>1 DEF Elements
  <1>5. ASSUME NEW i \in 1..Len(t)  PROVE t[i] \in Elements(s \o t)
    <2>1. Len(s) + i \in 1..Len(s) + Len(t) /\ ~(Len(s) + i <= Len(s)) /\ (Len(s) + i) - Len(s) = i
      BY <1>2
    <2>2. (s \o t)[Len(s) + i] = t[i]
      BY <1>1, <2>1
    <2> QED
      BY <1>2, <2>1, <2>2 DEF Elements
  <1>6. Elements(s \o t) \subseteq Elements(s) \cup Elements(t)
    <2>1. \A e \in Elements(s \o t) : \E i \in 1..Len(s) + Len(t) : e = (s \o t)[i]
      BY <1>2, Zenon DEF Elements
    <2> QED
      BY <1>3, <2>1
  <1>7. Elements(s) \cup Elements(t) \subseteq Elements(s \o t)
    <2>1. \A e \in Elements(s) : \E i \in 1..Len(s) : e = s[i]
      BY <1>2, Zenon DEF Elements
    <2>2. \A e \in Elements(t) : \E i \in 1..Len(t) : e = t[i]
      BY <1>2, Zenon DEF Elements
    <2> QED
      BY <1>4, <1>5, <2>1, <2>2
  <1> QED
    BY <1>1, <1>6, <1>7

\* A list without its first element.
LEMMA Rested ==
  ASSUME NEW S, NEW s \in Seq(S), s # <<>>
  PROVE  /\ Head(s) \in S /\ Tail(s) \in Seq(S)
         /\ Elements(s) = {Head(s)} \cup Elements(Tail(s))
         /\ Distinct(s) => Distinct(Tail(s)) /\ Head(s) \notin Elements(Tail(s))
  <1>1. /\ Head(s) \in S /\ Tail(s) \in Seq(S)
        /\ Len(Tail(s)) = Len(s) - 1
        /\ \A i \in 1..Len(Tail(s)) : Tail(s)[i] = s[i + 1]
    BY HeadTailProperties
  <1>2. /\ Len(s) \in Nat /\ Len(s) # 0 /\ Head(s) = s[1]
        /\ DOMAIN s = 1..Len(s) /\ DOMAIN Tail(s) = 1..Len(s) - 1
    <2>1. Len(s) \in Nat /\ DOMAIN s = 1..Len(s) /\ DOMAIN Tail(s) = 1..Len(Tail(s))
      BY <1>1, LenProperties
    <2>2. Len(s) # 0
      BY EmptySeq
    <2> QED
      BY <1>1, <2>1, <2>2
  <1> DEFINE t == Tail(s)
             h == Head(s)
  <1>3. /\ h = s[1] /\ DOMAIN t = 1..Len(s) - 1
        /\ \A i \in 1..Len(s) - 1 : t[i] = s[i + 1]
    BY <1>1, <1>2
  <1>4. /\ 1 \in 1..Len(s)
        /\ \A i \in 1..Len(s) - 1 : i + 1 \in 1..Len(s) /\ i + 1 # 1
        /\ \A i \in 1..Len(s) : i = 1 \/ (i - 1 \in 1..Len(s) - 1 /\ (i - 1) + 1 = i)
        /\ \A i, j \in 1..Len(s) - 1 : i + 1 = j + 1 => i = j
    BY <1>2
  <1> HIDE DEF t, h
  <1>5. Elements(s) = {h} \cup Elements(t)
    <2>1. ASSUME NEW e \in Elements(s)  PROVE e \in {h} \cup Elements(t)
      <3>1. PICK i \in 1..Len(s) : e = s[i]
        BY <1>2 DEF Elements
      <3>2. CASE i = 1
        BY <1>3, <3>1, <3>2
      <3>3. CASE i # 1
        <4>1. t[i - 1] = e /\ i - 1 \in DOMAIN t
          BY <1>3, <1>4, <3>1, <3>3
        <4> QED
          BY <4>1 DEF Elements
      <3> QED
        BY <3>2, <3>3
    <2>2. h \in Elements(s)
      BY <1>2, <1>3, <1>4 DEF Elements
    <2>3. ASSUME NEW e \in Elements(t)  PROVE e \in Elements(s)
      <3>1. PICK i \in 1..Len(s) - 1 : e = t[i]
        BY <1>3 DEF Elements
      <3>2. e = s[i + 1] /\ i + 1 \in DOMAIN s
        BY <1>2, <1>3, <1>4, <3>1
      <3> QED
        BY <3>2 DEF Elements
    <2> QED
      BY <2>1, <2>2, <2>3
  <1>6. ASSUME Distinct(s)  PROVE Distinct(t) /\ h \notin Elements(t)
    <2>1. \A i, j \in 1..Len(s) - 1 : t[i] = t[j] => i = j
      BY <1>2, <1>3, <1>4, <1>6 DEF Distinct
    <2>2. \A i \in 1..Len(s) - 1 : t[i] # h
      BY <1>2, <1>3, <1>4, <1>6 DEF Distinct
    <2>3. h \notin Elements(t)
      BY <1>3, <2>2 DEF Elements
    <2> QED
      BY <1>3, <2>1, <2>3 DEF Distinct
  <1> QED
    BY <1>1, <1>5, <1>6 DEF t, h

\* The empty list.
LEMMA Nothing == Elements(<<>>) = {} /\ Distinct(<<>>)
  BY DEF Elements, Distinct

USE PackageAssumption

\* The closure has the roots, and with a package what it depends on.
LEMMA ClosureHas ==
  ASSUME NEW names \in SUBSET Name
  PROVE  /\ Closure(names) \subseteq Package
         /\ Elements(Roots) \cap names \subseteq Closure(names)
         /\ \A p \in Closure(names) :
              (Elements(Depends[p]) \cap names) \ Base \subseteq Closure(names)
  <1>1. Elements(Roots) \cap names \subseteq Package
    BY DEF Package
  <1>2. names \ Base \subseteq Package
    BY DEF Package
  <1> QED
    BY <1>1, <1>2 DEF Closure

\* And it is the least such set.
LEMMA ClosureLeast ==
  ASSUME NEW names \in SUBSET Name, NEW S \in SUBSET Package,
         Elements(Roots) \cap names \subseteq S,
         \A p \in S : (Elements(Depends[p]) \cap names) \ Base \subseteq S
  PROVE  Closure(names) \subseteq S
  BY DEF Closure

\* openssh-server is a package that every archive that is offered has.
LEMMA ServerNeeded ==
  /\ Server \in Package
  /\ Offered => Server \in Needed /\ Required \subseteq Needed /\ UNION Suites \in SUBSET Name
  <1>1. Elements(Roots) \subseteq Name
    BY LenProperties DEF Elements
  <1>2. Server \in Package
    BY <1>1 DEF Package
  <1>3. UNION Suites \in SUBSET Name
    OBVIOUS
  <1>4. Offered => Required \subseteq Needed
    BY <1>3, ClosureHas DEF Offered, Needed
  <1> QED
    BY <1>2, <1>3, <1>4

------------------------------------------------------------------------------
(***************************************************************************)
(* What a step of one process leaves as it is.                             *)
(***************************************************************************)

\* A process moves, the others stay.
LEMMA Moves ==
  ASSUME TypeOK, NEW x \in Proc, NEW l \in Location, Goto(x, l)
  PROVE  pc' \in [Proc -> Location] /\ pc'[x] = l /\ \A y \in Proc \ {x} : pc'[y] = pc[y]
  BY DEF TypeOK, Goto

\* The paths are kept by a process that has not ended.
LEMMA PathStays ==
  ASSUME TypeOK, PathInv, NEW x \in Proc, NEW l \in Location, Goto(x, l),
         ~Ended(x), x # Warm /\ pc[x] = "idle" => Ended(Warm),
         x = Warm => l \notin {"detect", "push"},
         l \in {"copy", "rename"} => rest'[x] # <<>>,
         \A y \in Proc \ {x} : rest'[y] = rest[y]
  PROVE  PathInv'
  <1>1. pc' \in [Proc -> Location] /\ pc'[x] = l /\ \A y \in Proc \ {x} : pc'[y] = pc[y]
    BY Moves
  <1>2. Warm \in Proc /\ Installer \subseteq Proc
    BY DEF Proc
  <1>3. \A y \in Proc : Downloading(y)' => rest'[y] # <<>>
    BY <1>1 DEF PathInv, Downloading
  <1>4. CASE x = Warm
    BY <1>1, <1>2, <1>3, <1>4 DEF PathInv, Ended
  <1>5. CASE x # Warm
    <2>1. Ended(Warm) /\ pc'[Warm] = pc[Warm]
      BY <1>1, <1>2, <1>5 DEF PathInv, Ended, Proc
    <2> QED
      BY <1>1, <1>2, <1>3, <1>5, <2>1 DEF PathInv, Ended
  <1> QED
    BY <1>4, <1>5

\* What the others have resolved, and what a process has that goes on downloading.
LEMMA ResolveStays ==
  ASSUME TypeOK, ResolveInv, NEW x \in Proc, NEW l \in Location, Goto(x, l),
         \A y \in Proc \ {x} : index'[y] = index[y] /\ need'[y] = need[y] /\ out'[y] = out[y],
         \/ l \notin {"resolve", "fetch", "copy", "rename"}
         \/ l = "resolve" /\ ResolveAt(x)'
         \/ /\ l \in {"fetch", "copy", "rename"}
            /\ Elements(out'[x]) = Closure(index'[x]) /\ Distinct(out'[x])
  PROVE  ResolveInv'
  <1>1. pc' \in [Proc -> Location] /\ pc'[x] = l /\ \A y \in Proc \ {x} : pc'[y] = pc[y]
    BY Moves
  <1>2. ASSUME NEW y \in Proc \ {x}
        PROVE  /\ pc'[y] = "resolve" => ResolveAt(y)'
               /\ pc'[y] \in {"fetch", "copy", "rename"} =>
                    Elements(out'[y]) = Closure(index'[y]) /\ Distinct(out'[y])
    BY <1>1 DEF ResolveInv, ResolveAt
  <1>3. /\ pc'[x] = "resolve" => ResolveAt(x)'
        /\ pc'[x] \in {"fetch", "copy", "rename"} =>
             Elements(out'[x]) = Closure(index'[x]) /\ Distinct(out'[x])
    BY <1>1
  <1> QED
    BY <1>2, <1>3 DEF ResolveInv

\* The same when nothing has been resolved.
LEMMA LocalStays ==
  ASSUME TypeOK, ResolveInv, NEW x \in Proc, NEW l \in Location, Goto(x, l),
         UNCHANGED <<index, need, out>>,
         l # "resolve", l \in {"fetch", "copy", "rename"} => pc[x] \in {"fetch", "copy", "rename"}
  PROVE  ResolveInv'
  BY ResolveStays DEF ResolveInv

\* The files, by a process that does not download, or no longer.
LEMMA FilesStay ==
  ASSUME TypeOK, FileInv, NEW x \in Proc, NEW l \in Location, Goto(x, l),
         UNCHANGED files, l \notin {"copy", "rename"},
         \A y \in Proc \ {x} : rest'[y] = rest[y]
  PROVE  FileInv'
  <1>1. pc' \in [Proc -> Location] /\ pc'[x] = l /\ \A y \in Proc \ {x} : pc'[y] = pc[y]
    BY Moves
  <1> QED
    BY <1>1 DEF FileInv, Downloading, files

\* The cache, by a process that has it for itself.
LEMMA CalmStays ==
  ASSUME TypeOK, CalmInv, NEW x \in Proc, NEW l \in Location, Goto(x, l),
         calm' => calm /\ ~shared' /\ CalmAt(x)',
         calm => \A y \in Proc \ {x} : ~Working(y),
         calm' /\ l \in {"idle", "detect", "ok", "glob", "push"} => Has({})' \/ Has(Needed)'
  PROVE  CalmInv'
  <1> SUFFICES ASSUME calm' PROVE CalmInv'
    BY DEF CalmInv
  <1>1. pc' \in [Proc -> Location] /\ pc'[x] = l /\ \A y \in Proc \ {x} : pc'[y] = pc[y]
    BY Moves
  <1>2. \A y \in Proc \ {x} : pc'[y] \in {"idle", "detect", "ok"}
    BY <1>1 DEF CalmInv, CalmAt, Working
  <1>3. \A y \in Proc : Working(y)' => y = x
    BY <1>2 DEF Working
  <1>4. \A y \in Proc : CalmAt(y)'
    BY <1>2 DEF CalmAt
  <1>5. (\A y \in Proc : Working(y)' => pc'[y] \in {"glob", "push"}) => Has({})' \/ Has(Needed)'
    <2>1. pc'[x] = "failed" => FALSE
      BY <1>4 DEF CalmAt
    <2> QED
      BY <1>1, <2>1 DEF Working
  <1> QED
    BY <1>3, <1>4, <1>5 DEF CalmInv

\* While nothing has failed the process that works is alone.
LEMMA Alone ==
  ASSUME CalmInv, NEW x \in Proc, Working(x)
  PROVE  calm => \A y \in Proc \ {x} : ~Working(y)
  BY DEF CalmInv

\* A fault ends what is promised while there is none.
LEMMA Faulty ==
  ASSUME NEW f \in Failure, Fault(f)
  PROVE  ~calm' /\ CalmInv' /\ shared' = shared /\ (TypeOK => faults' \in 0..MaxFaults)
  BY DEF Fault, CalmInv, TypeOK

------------------------------------------------------------------------------
(***************************************************************************)
(* The steps.                                                              *)
(***************************************************************************)

\* Connect's warm-up begins.
LEMMA EnsureHostOpenSSHDebsStep ==
  ASSUME IInv, EnsureHostOpenSSHDebs
  PROVE  IInv'
  <1> USE DEF IInv
  <1>1. /\ Warm \in Proc /\ pc[Warm] = "idle" /\ Goto(Warm, "glob")
        /\ UNCHANGED <<files, local, warms, hist>>
    BY DEF EnsureHostOpenSSHDebs, Proc, Ok
  <1>2. "glob" \in Location
    BY DEF Location
  <1>3. pc' \in [Proc -> Location] /\ pc'[Warm] = "glob"
    BY <1>1, <1>2, Moves
  <1>4. TypeOK'
    BY <1>1, <1>3 DEF TypeOK, files, local, hist
  <1>5. PathInv'
    BY <1>1, <1>2, PathStays DEF Ended, local
  <1>6. ResolveInv'
    BY <1>1, <1>2, LocalStays DEF local
  <1>7. ~shared' => FileInv'
    BY <1>1, <1>2, FilesStay DEF local, hist
  <1>8. Offered => CalmInv'
    <2> SUFFICES ASSUME Offered PROVE CalmInv'
      OBVIOUS
    <2>1. \A y \in Proc \ {Warm} : pc[y] \in {"idle", "ok", "failed"}
      BY <1>1 DEF PathInv, Ended, Proc
    <2>2. calm => Has({})' \/ Has(Needed)'
      BY <1>1, <2>1 DEF CalmInv, Working, Has, files
    <2>3. calm' => calm /\ ~shared' /\ CalmAt(Warm)'
      BY <1>1, <1>3 DEF CalmInv, CalmAt, hist
    <2> QED
      BY <1>1, <1>2, <2>1, <2>2, <2>3, CalmStays DEF Working, hist
  <1> QED
    BY <1>4, <1>5, <1>6, <1>7, <1>8

\* A guest is up: apt works in it or the cache is needed, whose distribution is asked for.
LEMMA EnsureSSHStep ==
  ASSUME IInv, NEW x \in Installer, EnsureSSH(x) \/ DetectGuestOS(x)
  PROVE  IInv'
  <1> USE DEF IInv
  <1>1. PICK l \in {"ok", "detect", "glob", "failed"} :
          /\ Goto(x, l)
          /\ l = "glob" => /\ UNCHANGED <<faults, shared>>
                           /\ calm' = (calm /\ \A y \in Proc : pc[y] \in {"idle", "detect"}
                                                               \/ Ended(y))
          /\ l = "failed" => \E f \in Failure : Fault(f)
          /\ l \in {"ok", "detect"} => UNCHANGED hist
    BY DEF EnsureSSH, DetectGuestOS, Ok, Failure
  <1>2. /\ x \in Proc /\ x # Warm /\ l \in Location
        /\ pc[x] \in {"idle", "detect"} /\ (pc[x] = "idle" => Ended(Warm))
        /\ UNCHANGED <<files, local, warms>>
    BY DEF EnsureSSH, DetectGuestOS, Proc, Location
  <1>3. /\ pc' \in [Proc -> Location] /\ pc'[x] = l
        /\ \A y \in Proc \ {x} : pc'[y] = pc[y]
    BY <1>1, <1>2, Moves
  <1>4. TypeOK'
    <2>1. faults' \in 0..MaxFaults /\ shared' \in BOOLEAN /\ calm' \in BOOLEAN
      <3>1. CASE l = "failed"
        BY <1>1, <3>1, Faulty DEF TypeOK, Fault
      <3>2. CASE l = "glob"
        BY <1>1, <3>2 DEF TypeOK
      <3>3. CASE l \in {"ok", "detect"}
        BY <1>1, <3>3 DEF TypeOK, hist
      <3> QED
        BY <3>1, <3>2, <3>3
    <2> QED
      BY <1>2, <1>3, <2>1 DEF TypeOK, files, local
  <1>5. PathInv'
    BY <1>1, <1>2, PathStays DEF Ended, local
  <1>6. ResolveInv'
    BY <1>1, <1>2, LocalStays DEF local
  <1>7. ~shared' => FileInv'
    <2>1. shared' = shared
      BY <1>1 DEF hist, Fault
    <2> QED
      BY <1>1, <1>2, <2>1, FilesStay DEF local
  <1>8. Offered => CalmInv'
    <2> SUFFICES ASSUME Offered PROVE CalmInv'
      OBVIOUS
    <2>1. CASE l = "failed"
      BY <1>1, <2>1, Faulty
    <2>2. CASE l = "glob"
      <3> SUFFICES ASSUME calm' PROVE CalmInv'
        BY DEF CalmInv
      <3>1. calm /\ ~shared' /\ \A y \in Proc : ~Working(y)
        <4>1. calm /\ \A y \in Proc : pc[y] \in {"idle", "detect"} \/ Ended(y)
          BY <1>1, <2>2, Zenon
        <4>2. shared' = shared
          BY <1>1, <2>2
        <4> QED
          BY <4>1, <4>2 DEF CalmInv, Working, Ended
      <3>2. Has({})' \/ Has(Needed)'
        BY <1>2, <3>1 DEF CalmInv, Has, files
      <3>3. CalmAt(x)'
        BY <1>3, <2>2 DEF CalmAt
      <3> QED
        BY <1>1, <1>2, <3>1, <3>2, <3>3, CalmStays
    <2>3. CASE l \in {"ok", "detect"}
      <3>1. UNCHANGED <<shared, calm, deb, index, out, rest>>
        BY <1>1, <1>2, <2>3 DEF hist, files, local
      <3>2. \A y \in Proc : Working(y)' => Working(y) /\ pc'[y] = pc[y]
        BY <1>3, <2>3 DEF Working
      <3>3. \A y \in Proc : Working(y) => Working(y)' /\ pc'[y] = pc[y]
        BY <1>2, <1>3 DEF Working
      <3>4. ASSUME calm, NEW y \in Proc  PROVE CalmAt(y)'
        <4>1. CalmAt(y)
          BY <3>4 DEF CalmInv
        <4> QED
          BY <1>3, <2>3, <3>1, <4>1 DEF CalmAt, Has
      <3> QED
        BY <3>1, <3>2, <3>3, <3>4 DEF CalmInv, Has
    <2> QED
      BY <2>1, <2>2, <2>3
  <1> QED
    BY <1>4, <1>5, <1>6, <1>7, <1>8

\* What Ensured does with its process.
LEMMA EnsuredMoves ==
  ASSUME NEW x \in Proc, Ensured(x)
  PROVE  \E l \in {"ok", "push"} : Goto(x, l) /\ (l = "push" <=> x # Warm)
  <1>1. CASE x = Warm
    BY <1>1 DEF Ensured, Goto
  <1>2. CASE x # Warm
    BY <1>2 DEF Ensured, Goto
  <1> QED
    BY <1>1, <1>2

\* Is openssh-server there?
LEMMA FindServerDebStep ==
  ASSUME IInv, NEW x \in Proc, FindServerDeb(x)
  PROVE  IInv'
  <1> USE DEF IInv
  <1>1. PICK l \in {"ok", "push", "index"} :
          /\ Goto(x, l)
          /\ l = "push" => x # Warm
          /\ l = "index" <=> deb[Server] = "absent"
    BY EnsuredMoves DEF FindServerDeb
  <1>2. /\ pc[x] = "glob" /\ l \in Location
        /\ UNCHANGED <<files, local, warms, hist>>
    BY DEF FindServerDeb, Ok, Location
  <1>3. pc' \in [Proc -> Location] /\ pc'[x] = l
    BY <1>1, <1>2, Moves
  <1>4. TypeOK'
    BY <1>2, <1>3 DEF TypeOK, files, local, hist
  <1>5. PathInv'
    BY <1>1, <1>2, PathStays DEF Ended, local
  <1>6. ResolveInv'
    BY <1>1, <1>2, LocalStays DEF local
  <1>7. ~shared' => FileInv'
    BY <1>1, <1>2, FilesStay DEF local, hist
  <1>8. Offered => CalmInv'
    <2> SUFFICES ASSUME Offered PROVE CalmInv'
      OBVIOUS
    <2>1. Working(x) /\ (calm => \A y \in Proc \ {x} : ~Working(y))
      BY <1>2, Alone DEF Working
    <2>2. calm => Has({}) \/ Has(Needed)
      BY <1>2, <2>1 DEF CalmInv
    <2>3. calm => (l = "index" => Has({})) /\ (l # "index" => Has(Needed))
      BY <1>1, <2>2, ServerNeeded DEF Has
    <2>4. calm' => calm /\ ~shared' /\ CalmAt(x)' /\ (l # "index" => Has(Needed)')
      BY <1>2, <1>3, <2>3 DEF CalmInv, CalmAt, Has, hist, files
    <2> QED
      BY <1>1, <1>2, <2>1, <2>4, CalmStays
  <1> QED
    BY <1>4, <1>5, <1>6, <1>7, <1>8

\* The indexes are loaded, and the search starts from its roots.
LEMMA LoadPackagesIndexStep ==
  ASSUME IInv, NEW x \in Proc, LoadPackagesIndex(x)
  PROVE  IInv'
  <1> USE DEF IInv
  <1>1. PICK loaded \in SUBSET Suites :
          /\ index' = [index EXCEPT ![x] = UNION loaded]
          /\ (loaded = Suites /\ Ok) \/ (loaded # Suites /\ Fault("index"))
          /\ Goto(x, IF UNION loaded = {} THEN "failed" ELSE "resolve")
    BY DEF LoadPackagesIndex
  <1>2. PICK l \in {"failed", "resolve"} :
          Goto(x, l) /\ (l = "failed" <=> UNION loaded = {})
    <2>1. CASE UNION loaded = {}
      BY <1>1, <2>1 DEF Goto
    <2>2. CASE UNION loaded # {}
      BY <1>1, <2>2 DEF Goto
    <2> QED
      BY <2>1, <2>2
  <1>3. /\ pc[x] = "index" /\ l \in Location
        /\ need' = [need EXCEPT ![x] = Roots] /\ out' = [out EXCEPT ![x] = <<>>]
        /\ UNCHANGED <<files, rest, warms>>
    BY DEF LoadPackagesIndex, Location
  <1>4. pc' \in [Proc -> Location] /\ pc'[x] = l
    BY <1>2, <1>3, Moves
  <1>5. UNION loaded \in SUBSET Name
    OBVIOUS
  <1>6. /\ index' \in [Proc -> SUBSET Name] /\ index'[x] = UNION loaded
        /\ need' \in [Proc -> Seq(Name)] /\ need'[x] = Roots
        /\ out' \in [Proc -> Seq(Package)] /\ out'[x] = <<>>
        /\ \A y \in Proc \ {x} : index'[y] = index[y] /\ need'[y] = need[y] /\ out'[y] = out[y]
    <2>1. <<>> \in Seq(Package)
      OBVIOUS
    <2> QED
      BY <1>1, <1>3, <1>5, <2>1 DEF TypeOK
  <1>7. TypeOK'
    <2>1. faults' \in 0..MaxFaults /\ shared' \in BOOLEAN /\ calm' \in BOOLEAN
      BY <1>1, Faulty DEF TypeOK, Ok, hist, Failure, Fault
    <2> QED
      BY <1>3, <1>4, <1>6, <2>1 DEF TypeOK, files
  <1>8. PathInv'
    BY <1>2, <1>3, PathStays DEF Ended
  <1>9. ResolveInv'
    <2>1. l = "resolve" => ResolveAt(x)'
      <3>1. (Elements(Roots) \cap UNION loaded) \ Base \subseteq Closure(UNION loaded)
        BY <1>5, ClosureHas
      <3> QED
        BY <1>6, <3>1, Nothing DEF ResolveAt
    <2> QED
      BY <1>2, <1>3, <1>6, <2>1, ResolveStays
  <1>10. ~shared' => FileInv'
    <2>1. shared' = shared
      BY <1>1 DEF Ok, hist, Fault
    <2> QED
      BY <1>2, <1>3, <2>1, FilesStay
  <1>11. Offered => CalmInv'
    <2> SUFFICES ASSUME Offered PROVE CalmInv'
      OBVIOUS
    <2>1. CASE Fault("index")
      BY <2>1, Faulty DEF Failure
    <2>2. CASE loaded = Suites /\ Ok
      <3>1. Working(x) /\ (calm => \A y \in Proc \ {x} : ~Working(y))
        BY <1>3, Alone DEF Working
      <3>2. UNION loaded # {}
        BY <2>2 DEF Offered
      <3>3. calm' => calm /\ ~shared' /\ CalmAt(x)'
        BY <1>2, <1>3, <1>4, <1>6, <2>2, <3>2 DEF CalmInv, CalmAt, Has, Ok, hist, files
      <3> QED
        BY <1>2, <1>3, <3>1, <3>2, <3>3, CalmStays
    <2> QED
      BY <1>1, <2>1, <2>2
  <1> QED
    BY <1>7, <1>8, <1>9, <1>10, <1>11

\* A name is known, not offered, or taken.
LEMMA ResolveNextStep ==
  ASSUME IInv, NEW x \in Proc, ResolveNext(x)
  PROVE  IInv'
  <1> USE DEF IInv
  <1> DEFINE n == Head(need[x])
             t == Tail(need[x])
             known == Elements(out[x]) \cup Base
             N == index[x]
             C == Closure(N)
  <1>1. /\ pc[x] = "resolve" /\ need[x] # <<>>
        /\ UNCHANGED <<files, index, rest, warms, hist>>
    BY DEF ResolveNext, Ok
  <1>2. /\ n \in Name /\ t \in Seq(Name)
        /\ Elements(need[x]) = {n} \cup Elements(t)
        /\ out[x] \in Seq(Package) /\ N \in SUBSET Name
        /\ Depends[n] \in Seq(Name)
    <2>1. need[x] \in Seq(Name) /\ out[x] \in Seq(Package) /\ N \in SUBSET Name
      BY DEF TypeOK
    <2> QED
      BY <1>1, <2>1, Rested
  <1>3. PICK l \in {"resolve", "failed"} :
          /\ Goto(x, l)
          /\ l = "failed" => n \in Required /\ n \notin N
    <2>1. UNCHANGED pc => Goto(x, "resolve")
      BY <1>1 DEF Goto, TypeOK
    <2>2. CASE n \notin known \cup N /\ (IF n \in Required THEN Goto(x, "failed")
                                         ELSE UNCHANGED pc)
      BY <2>1, <2>2
    <2>3. CASE UNCHANGED pc
      BY <2>1, <2>3
    <2> QED
      BY <2>2, <2>3 DEF ResolveNext
  <1>4. l \in Location /\ \A y \in Proc \ {x} : pc'[y] = pc[y]
    BY <1>3, Moves DEF Location
  <1>5. pc' \in [Proc -> Location] /\ pc'[x] = l
    BY <1>3, <1>4, Moves
  <1>6. \/ /\ n \in known \/ n \notin N
           /\ need' = [need EXCEPT ![x] = t] /\ out' = out
        \/ /\ n \in N \ known
           /\ need' = [need EXCEPT ![x] = t \o Depends[n]]
           /\ out' = [out EXCEPT ![x] = Append(out[x], n)]
    BY DEF ResolveNext
  <1>7. ResolveAt(x)
    BY <1>1 DEF ResolveInv
  <1> HIDE DEF n, t, N, C
  <1>8. ASSUME n \in known \/ n \notin N,
               need' = [need EXCEPT ![x] = t], out' = out
        PROVE  /\ need' \in [Proc -> Seq(Name)]
               /\ out' \in [Proc -> Seq(Package)]
               /\ \A y \in Proc \ {x} : need'[y] = need[y] /\ out'[y] = out[y]
               /\ ResolveAt(x)'
    <2>1. /\ need' \in [Proc -> Seq(Name)] /\ need'[x] = t
          /\ out' \in [Proc -> Seq(Package)]
          /\ \A y \in Proc \ {x} : need'[y] = need[y] /\ out'[y] = out[y]
      BY <1>2, <1>8 DEF TypeOK
    <2>2. ResolveAt(x)'
      <3>1. index' = index /\ out' = out
        BY <1>1, <1>8
      <3>2. \A r \in Elements(Roots) : r \notin Base
        OBVIOUS
      <3>3. Elements(Roots) \cap N \subseteq Elements(out[x]) \cup Elements(t)
        BY <1>2, <1>7, <1>8, <3>2 DEF ResolveAt, N
      <3>4. \A p \in Elements(out[x]) :
              (Elements(Depends[p]) \cap N) \ Base \subseteq Elements(out[x]) \cup Elements(t)
        BY <1>2, <1>7, <1>8 DEF ResolveAt, N
      <3> QED
        BY <1>2, <1>7, <2>1, <3>1, <3>3, <3>4 DEF ResolveAt, N
    <2> QED
      BY <2>1, <2>2
  <1>9. ASSUME n \in N \ known,
               need' = [need EXCEPT ![x] = t \o Depends[n]],
               out' = [out EXCEPT ![x] = Append(out[x], n)]
        PROVE  /\ need' \in [Proc -> Seq(Name)]
               /\ out' \in [Proc -> Seq(Package)]
               /\ \A y \in Proc \ {x} : need'[y] = need[y] /\ out'[y] = out[y]
               /\ ResolveAt(x)'
    <2>1. n \in Package
      BY <1>2, <1>9 DEF Package
    <2>2. /\ t \o Depends[n] \in Seq(Name)
          /\ Elements(t \o Depends[n]) = Elements(t) \cup Elements(Depends[n])
      BY <1>2, Joined
    <2>3. /\ Append(out[x], n) \in Seq(Package)
          /\ Elements(Append(out[x], n)) = Elements(out[x]) \cup {n}
          /\ Distinct(out[x]) => Distinct(Append(out[x], n))
      BY <1>2, <1>9, <2>1, Appended
    <2>4. /\ need' \in [Proc -> Seq(Name)] /\ need'[x] = t \o Depends[n]
          /\ out' \in [Proc -> Seq(Package)] /\ out'[x] = Append(out[x], n)
          /\ \A y \in Proc \ {x} : need'[y] = need[y] /\ out'[y] = out[y]
      BY <1>9, <2>2, <2>3 DEF TypeOK
    <2>5. n \in C
      BY <1>2, <1>7, <1>9 DEF ResolveAt, N, C
    <2>6. (Elements(Depends[n]) \cap N) \ Base \subseteq C
      BY <1>2, <2>5, ClosureHas DEF C
    <2>7. ResolveAt(x)'
      <3> DEFINE found == Elements(out'[x]) \cup Elements(need'[x])
      <3>1. index'[x] = N /\ Elements(out'[x]) = Elements(out[x]) \cup {n}
            /\ Elements(need'[x]) = Elements(t) \cup Elements(Depends[n])
            /\ Distinct(out'[x])
        BY <1>1, <1>7, <2>2, <2>3, <2>4 DEF N, ResolveAt
      <3>2. Elements(out'[x]) \subseteq C
        BY <1>7, <2>5, <3>1 DEF ResolveAt, C, N
      <3>3. (Elements(need'[x]) \cap N) \ Base \subseteq C
        BY <1>2, <1>7, <2>6, <3>1 DEF ResolveAt, C, N
      <3>4. Elements(Roots) \cap N \subseteq found
        BY <1>2, <1>7, <3>1 DEF ResolveAt, N
      <3>5. \A p \in Elements(out'[x]) : (Elements(Depends[p]) \cap N) \ Base \subseteq found
        BY <1>2, <1>7, <3>1 DEF ResolveAt, N
      <3> QED
        BY <3>1, <3>2, <3>3, <3>4, <3>5 DEF ResolveAt, C
    <2> QED
      BY <2>4, <2>7
  <1>10. /\ need' \in [Proc -> Seq(Name)]
         /\ out' \in [Proc -> Seq(Package)]
         /\ \A y \in Proc \ {x} : need'[y] = need[y] /\ out'[y] = out[y]
         /\ ResolveAt(x)'
    BY <1>6, <1>8, <1>9
  <1>11. TypeOK'
    BY <1>1, <1>5, <1>10 DEF TypeOK, files, hist
  <1>12. PathInv'
    BY <1>1, <1>3, <1>4, PathStays DEF Ended
  <1>13. ResolveInv'
    BY <1>1, <1>3, <1>4, <1>10, ResolveStays
  <1>14. ~shared' => FileInv'
    BY <1>1, <1>3, <1>4, FilesStay DEF hist
  <1>15. Offered => CalmInv'
    <2> SUFFICES ASSUME Offered PROVE CalmInv'
      OBVIOUS
    <2>1. Working(x) /\ (calm => \A y \in Proc \ {x} : ~Working(y))
      BY <1>1, Alone DEF Working
    <2>2. calm => l = "resolve"
      BY <1>1, <1>3 DEF CalmInv, CalmAt, Offered, N
    <2>3. calm' => calm /\ ~shared' /\ CalmAt(x)'
      BY <1>1, <1>5, <2>2 DEF CalmInv, CalmAt, Has, hist, files
    <2> QED
      BY <1>3, <1>4, <2>1, <2>2, <2>3, CalmStays
  <1> QED
    BY <1>11, <1>12, <1>13, <1>14, <1>15

\* The search is over: what has been taken is the closure.
LEMMA ResolvedStep ==
  ASSUME IInv, NEW x \in Proc, Resolved(x)
  PROVE  IInv'
  <1> USE DEF IInv
  <1>1. /\ pc[x] = "resolve" /\ need[x] = <<>> /\ Goto(x, "fetch")
        /\ rest' = [rest EXCEPT ![x] = out[x]]
        /\ UNCHANGED <<files, index, need, out, warms, hist>>
    BY DEF Resolved, Ok
  <1>2. "fetch" \in Location
    BY DEF Location
  <1>3. pc' \in [Proc -> Location] /\ pc'[x] = "fetch"
    BY <1>1, <1>2, Moves
  <1>4. /\ rest' \in [Proc -> Seq(Package)] /\ rest'[x] = out[x]
        /\ \A y \in Proc \ {x} : rest'[y] = rest[y]
    BY <1>1 DEF TypeOK
  <1>5. Elements(out[x]) = Closure(index[x]) /\ Distinct(out[x])
    <2>1. ResolveAt(x) /\ Elements(need[x]) = {}
      BY <1>1, Nothing DEF ResolveInv
    <2>2. Elements(out[x]) \in SUBSET Package
      BY LenProperties DEF TypeOK, Elements
    <2>3. Closure(index[x]) \subseteq Elements(out[x])
      <3>1. index[x] \in SUBSET Name
        BY DEF TypeOK
      <3> QED
        BY <2>1, <2>2, <3>1, ClosureLeast DEF ResolveAt
    <2> QED
      BY <2>1, <2>3 DEF ResolveAt
  <1>6. TypeOK'
    BY <1>1, <1>3, <1>4 DEF TypeOK, files, hist
  <1>7. PathInv'
    BY <1>1, <1>2, <1>4, PathStays DEF Ended
  <1>8. ResolveInv'
    BY <1>1, <1>2, <1>5, ResolveStays
  <1>9. ~shared' => FileInv'
    BY <1>1, <1>2, <1>4, FilesStay DEF hist
  <1>10. Offered => CalmInv'
    <2> SUFFICES ASSUME Offered PROVE CalmInv'
      OBVIOUS
    <2>1. Working(x) /\ (calm => \A y \in Proc \ {x} : ~Working(y))
      BY <1>1, Alone DEF Working
    <2>2. calm' => calm /\ ~shared' /\ CalmAt(x)'
      BY <1>1, <1>3, <1>4, <1>5 DEF CalmInv, CalmAt, Has, hist, files
    <2> QED
      BY <1>1, <1>2, <2>1, <2>2, CalmStays
  <1> QED
    BY <1>6, <1>7, <1>8, <1>9, <1>10

\* The package that is next.
LEMMA NextType ==
  ASSUME TypeOK, NEW x \in Proc, rest[x] # <<>>
  PROVE  /\ Head(rest[x]) \in Package /\ Tail(rest[x]) \in Seq(Package)
         /\ Elements(rest[x]) = {Head(rest[x])} \cup Elements(Tail(rest[x]))
         /\ Distinct(rest[x]) => /\ Distinct(Tail(rest[x]))
                                 /\ Head(rest[x]) \notin Elements(Tail(rest[x]))
  <1>1. rest[x] \in Seq(Package)
    BY DEF TypeOK
  <1> QED
    BY <1>1, Rested

\* The loop ends.
LEMMA FetchEnds ==
  ASSUME IInv, NEW x \in Proc, pc[x] = "fetch", rest[x] = <<>>,
         \/ deb[Server] # "absent" /\ Ensured(x)
         \/ deb[Server] = "absent" /\ Goto(x, "failed"),
         Ok, UNCHANGED <<part, rest, deb, index, need, out, warms>>
  PROVE  IInv'
  <1> USE DEF IInv
  <1>1. PICK l \in {"ok", "push", "failed"} :
          /\ Goto(x, l)
          /\ l = "push" => x # Warm
          /\ l = "failed" => deb[Server] = "absent"
    BY EnsuredMoves
  <1>2. l \in Location /\ UNCHANGED hist /\ UNCHANGED files
    BY DEF Location, Ok, files
  <1>3. pc' \in [Proc -> Location] /\ pc'[x] = l
    BY <1>1, <1>2, Moves
  <1>4. TypeOK'
    BY <1>2, <1>3 DEF TypeOK, files, hist
  <1>5. PathInv'
    BY <1>1, <1>2, PathStays DEF Ended
  <1>6. ResolveInv'
    BY <1>1, <1>2, LocalStays
  <1>7. ~shared' => FileInv'
    BY <1>1, <1>2, FilesStay DEF hist
  <1>8. Offered => CalmInv'
    <2> SUFFICES ASSUME Offered PROVE CalmInv'
      OBVIOUS
    <2>1. Working(x) /\ (calm => \A y \in Proc \ {x} : ~Working(y))
      BY Alone DEF Working
    <2>2. calm => Has(Needed)
      <3>1. calm => /\ index[x] = UNION Suites
                    /\ Has(Elements(out[x]) \ Elements(rest[x]))
        BY DEF CalmInv, CalmAt
      <3>2. Elements(out[x]) = Closure(index[x]) /\ Elements(rest[x]) = {}
        BY Nothing DEF ResolveInv
      <3> QED
        BY <3>1, <3>2 DEF Has, Needed
    <2>3. calm => l # "failed"
      BY <1>1, <2>2, ServerNeeded DEF Has
    <2>4. calm' => calm /\ ~shared' /\ CalmAt(x)' /\ Has(Needed)'
      BY <1>1, <1>2, <1>3, <2>2, <2>3 DEF CalmInv, CalmAt, Has, hist, files
    <2> QED
      BY <1>1, <1>2, <2>1, <2>4, CalmStays
  <1> QED
    BY <1>4, <1>5, <1>6, <1>7, <1>8

\* A package that is there is left as it is.
LEMMA FetchSkips ==
  ASSUME IInv, NEW x \in Proc, pc[x] = "fetch", rest[x] # <<>>,
         deb[Head(rest[x])] # "absent", NextPackage(x),
         Ok, UNCHANGED <<part, pc, deb, index, need, out, warms>>
  PROVE  IInv'
  <1> USE DEF IInv
  <1>1. "fetch" \in Location /\ Goto(x, "fetch") /\ UNCHANGED hist /\ UNCHANGED files
    BY DEF Location, Goto, TypeOK, Ok, files
  <1>2. /\ rest' \in [Proc -> Seq(Package)] /\ rest'[x] = Tail(rest[x])
        /\ \A y \in Proc \ {x} : rest'[y] = rest[y]
    <2>1. Tail(rest[x]) \in Seq(Package)
      BY NextType
    <2> QED
      BY <2>1 DEF TypeOK, NextPackage
  <1>3. TypeOK'
    BY <1>1, <1>2 DEF TypeOK, files, hist
  <1>4. PathInv'
    BY <1>1, <1>2, PathStays DEF Ended
  <1>5. ResolveInv'
    BY <1>1, LocalStays
  <1>6. ~shared' => FileInv'
    BY <1>1, <1>2, FilesStay DEF hist
  <1>7. Offered => CalmInv'
    <2>1. Offered => ~calm
      BY NextType DEF CalmInv, CalmAt, Has
    <2> QED
      BY <1>1, <2>1 DEF CalmInv, hist
  <1> QED
    BY <1>3, <1>4, <1>5, <1>6, <1>7

\* A mirror answers and the partial file is created.
LEMMA FetchStarts ==
  ASSUME IInv, NEW x \in Proc, pc[x] = "fetch", rest[x] # <<>>,
         deb[Head(rest[x])] # "whole",
         part' = [part EXCEPT ![Head(rest[x])] = x], Goto(x, "copy"),
         shared' = (shared \/ Busy(x, Head(rest[x]))),
         UNCHANGED <<rest, faults, calm, deb, index, need, out, warms>>
  PROVE  IInv'
  <1> USE DEF IInv
  <1> DEFINE p == Head(rest[x])
  <1>1. "copy" \in Location /\ p \in Package
    BY NextType DEF Location
  <1>2. /\ pc' \in [Proc -> Location] /\ pc'[x] = "copy"
        /\ \A y \in Proc \ {x} : pc'[y] = pc[y]
    BY <1>1, Moves
  <1>3. /\ part' \in [Package -> {"absent", "torn", "whole"} \cup Proc] /\ part'[p] = x
        /\ \A q \in Package \ {p} : part'[q] = part[q]
    BY <1>1 DEF TypeOK
  <1>4. shared' \in BOOLEAN /\ (~shared' => ~shared /\ ~Busy(x, p))
    BY Zenon DEF TypeOK
  <1>5. TypeOK'
    BY <1>2, <1>3, <1>4 DEF TypeOK
  <1>6. PathInv'
    BY <1>1, PathStays DEF Ended
  <1>7. ResolveInv'
    BY <1>1, LocalStays
  <1>8. ~shared' => FileInv'
    <2> SUFFICES ASSUME ~shared' PROVE FileInv'
      OBVIOUS
    <2>1. FileInv /\ \A y \in Proc \ {x} : Downloading(y) => Head(rest[y]) # p
      BY <1>4 DEF Busy, Downloading
    <2>2. \A y \in Proc : Downloading(y) => Head(rest[y]) \in Package
      BY NextType DEF PathInv
    <2> HIDE DEF p
    <2>3. \A y, z \in Proc :
            y # z /\ Downloading(y)' /\ Downloading(z)' => Head(rest'[y]) # Head(rest'[z])
      BY <1>2, <2>1 DEF FileInv, Downloading, p
    <2>4. \A y \in Proc : /\ pc'[y] = "copy" => part'[Head(rest'[y])] = y
                          /\ pc'[y] = "rename" => part'[Head(rest'[y])] = "whole"
      <3> SUFFICES ASSUME NEW y \in Proc
                   PROVE  /\ pc'[y] = "copy" => part'[Head(rest'[y])] = y
                          /\ pc'[y] = "rename" => part'[Head(rest'[y])] = "whole"
        OBVIOUS
      <3>1. CASE y = x
        BY <1>2, <1>3, <3>1 DEF p
      <3>2. CASE y # x
        BY <1>2, <1>3, <2>1, <2>2, <3>2 DEF FileInv, Downloading
      <3> QED
        BY <3>1, <3>2
    <2> QED
      BY <2>1, <2>3, <2>4 DEF FileInv
  <1>9. Offered => CalmInv'
    <2> SUFFICES ASSUME Offered PROVE CalmInv'
      OBVIOUS
    <2>1. Working(x) /\ (calm => \A y \in Proc \ {x} : ~Working(y))
      BY Alone DEF Working
    <2>2. calm => ~shared'
      BY <2>1, Zenon DEF Busy, Working, CalmInv
    <2>3. calm' => calm /\ ~shared' /\ CalmAt(x)'
      BY <1>2, <2>2 DEF CalmInv, CalmAt, Has
    <2> QED
      BY <1>1, <2>1, <2>3, CalmStays
  <1> QED
    BY <1>5, <1>6, <1>7, <1>8, <1>9

\* A process fails before it has touched a file.
LEMMA FailsStep ==
  ASSUME IInv, NEW x \in Proc, NEW f \in Failure, ~Ended(x), pc[x] # "idle",
         Fault(f), Goto(x, "failed"), UNCHANGED <<files, local, warms>>
  PROVE  IInv'
  <1> USE DEF IInv
  <1>1. "failed" \in Location
    BY DEF Location
  <1>2. pc' \in [Proc -> Location] /\ pc'[x] = "failed"
    BY <1>1, Moves
  <1>3. TypeOK'
    <2>1. faults' \in 0..MaxFaults /\ calm' \in BOOLEAN /\ shared' = shared
      BY Faulty DEF Fault
    <2> QED
      BY <1>2, <2>1 DEF TypeOK, files, local
  <1>4. PathInv'
    BY <1>1, PathStays DEF local
  <1>5. ResolveInv'
    BY <1>1, LocalStays DEF local
  <1>6. ~shared' => FileInv'
    BY <1>1, FilesStay, Faulty DEF local
  <1>7. CalmInv'
    BY Faulty
  <1> QED
    BY <1>3, <1>4, <1>5, <1>6, <1>7

\* One package: the loop ends, or it is there, or it is downloaded, or that fails.
LEMMA FetchDebStep ==
  ASSUME IInv, NEW x \in Proc, FetchDeb(x)
  PROVE  IInv'
  <1>1. CASE Fault("fetch") /\ Goto(x, "failed") /\ UNCHANGED <<part, rest>>
    <2>1. ~Ended(x) /\ pc[x] # "idle" /\ UNCHANGED <<files, local, warms>>
      BY <1>1 DEF FetchDeb, Ended, files, local
    <2> QED
      BY <1>1, <2>1, FailsStep DEF Failure
  <1>2. CASE rest[x] = <<>>
    BY <1>2, FetchEnds DEF FetchDeb
  <1>3. CASE rest[x] # <<>> /\ deb[Head(rest[x])] # "absent" /\ NextPackage(x) /\ Ok
             /\ UNCHANGED <<part, pc>>
    BY <1>3, FetchSkips DEF FetchDeb
  <1>4. CASE /\ rest[x] # <<>> /\ deb[Head(rest[x])] # "whole"
             /\ part' = [part EXCEPT ![Head(rest[x])] = x]
             /\ Goto(x, "copy")
             /\ shared' = (shared \/ Busy(x, Head(rest[x])))
             /\ UNCHANGED <<rest, faults, calm>>
    BY <1>4, FetchStarts DEF FetchDeb
  <1> QED
    BY <1>1, <1>2, <1>3, <1>4 DEF FetchDeb

\* Everything has been written.
LEMMA CopyDebStep ==
  ASSUME IInv, NEW x \in Proc, CopyDeb(x)
  PROVE  IInv'
  <1> USE DEF IInv
  <1> DEFINE p == Head(rest[x])
             F == {"absent", "torn", "whole"} \cup Proc
  <1>1. /\ pc[x] = "copy" /\ Goto(x, "rename")
        /\ part' = Settle(part, p, x, "whole") /\ deb' = Settle(deb, p, x, "whole")
        /\ UNCHANGED <<local, warms, hist>>
    BY DEF CopyDeb, Ok
  <1>2. "rename" \in Location /\ rest[x] # <<>>
    BY <1>1 DEF Location, PathInv, Downloading
  <1>3. p \in Package
    BY <1>2, NextType
  <1>4. /\ pc' \in [Proc -> Location] /\ pc'[x] = "rename"
        /\ \A y \in Proc \ {x} : pc'[y] = pc[y]
    BY <1>1, <1>2, Moves
  <1> HIDE DEF p
  <1>5. /\ part' \in [Package -> F] /\ deb' \in [Package -> F]
        /\ part'[p] = IF part[p] = x THEN "whole" ELSE part[p]
        /\ deb'[p] = IF deb[p] = x THEN "whole" ELSE deb[p]
        /\ \A q \in Package \ {p} : part'[q] = part[q] /\ deb'[q] = deb[q]
    <2>1. part \in [Package -> F] /\ deb \in [Package -> F] /\ "whole" \in F
      BY DEF TypeOK
    <2> HIDE DEF F
    <2>2. /\ Settle(part, p, x, "whole") \in [Package -> F]
          /\ Settle(part, p, x, "whole")[p] = IF part[p] = x THEN "whole" ELSE part[p]
          /\ \A q \in Package \ {p} : Settle(part, p, x, "whole")[q] = part[q]
      BY <1>3, <2>1 DEF Settle
    <2>3. /\ Settle(deb, p, x, "whole") \in [Package -> F]
          /\ Settle(deb, p, x, "whole")[p] = IF deb[p] = x THEN "whole" ELSE deb[p]
          /\ \A q \in Package \ {p} : Settle(deb, p, x, "whole")[q] = deb[q]
      BY <1>3, <2>1 DEF Settle
    <2> QED
      BY <1>1, <2>2, <2>3
  <1>6. TypeOK'
    BY <1>1, <1>4, <1>5 DEF TypeOK, local, hist
  <1>7. PathInv'
    BY <1>1, <1>2, PathStays DEF Ended, local
  <1>8. ResolveInv'
    BY <1>1, <1>2, LocalStays DEF local
  <1>9. ~shared' => FileInv'
    <2> SUFFICES ASSUME ~shared' PROVE FileInv'
      OBVIOUS
    <2>1. FileInv /\ rest' = rest
      BY <1>1 DEF hist, local
    <2>2. part'[p] = "whole"
      BY <1>1, <1>5, <2>1 DEF FileInv, p
    <2>3. \A y \in Proc : Downloading(y)' <=> Downloading(y)
      BY <1>1, <1>4 DEF Downloading
    <2>4. \A y \in Proc \ {x} : Downloading(y) => Head(rest[y]) \in Package \ {p}
      BY <1>1, <2>1, NextType DEF PathInv, FileInv, Downloading, p
    <2>5. \A y, z \in Proc :
            y # z /\ Downloading(y)' /\ Downloading(z)' => Head(rest'[y]) # Head(rest'[z])
      BY <2>1, <2>3 DEF FileInv
    <2>6. \A y \in Proc : /\ pc'[y] = "copy" => part'[Head(rest'[y])] = y
                          /\ pc'[y] = "rename" => part'[Head(rest'[y])] = "whole"
      <3> SUFFICES ASSUME NEW y \in Proc
                   PROVE  /\ pc'[y] = "copy" => part'[Head(rest'[y])] = y
                          /\ pc'[y] = "rename" => part'[Head(rest'[y])] = "whole"
        OBVIOUS
      <3>1. CASE y = x
        BY <1>4, <2>1, <2>2, <3>1 DEF p
      <3>2. CASE y # x
        BY <1>4, <1>5, <2>1, <2>4, <3>2 DEF FileInv, Downloading
      <3> QED
        BY <3>1, <3>2
    <2>7. \A q \in Package : deb'[q] \in {"absent", "whole"}
      BY <1>5, <2>1 DEF FileInv
    <2> QED
      BY <2>5, <2>6, <2>7 DEF FileInv
  <1>10. Offered => CalmInv'
    <2> SUFFICES ASSUME Offered PROVE CalmInv'
      OBVIOUS
    <2>1. Working(x) /\ (calm => \A y \in Proc \ {x} : ~Working(y))
      BY <1>1, Alone DEF Working
    <2>2. calm => deb' = deb
      <3> SUFFICES ASSUME calm PROVE deb' = deb
        OBVIOUS
      <3>1. deb[p] \in {"absent", "whole"}
        BY <1>3 DEF CalmInv, FileInv
      <3>2. deb[p] # x
        BY <3>1 DEF Proc
      <3>3. \A q \in Package : deb'[q] = deb[q]
        BY <1>5, <3>2
      <3>4. deb \in [Package -> F]
        BY DEF TypeOK
      <3> HIDE DEF F
      <3> QED
        BY <1>5, <3>3, <3>4
    <2>3. calm' => calm /\ ~shared' /\ CalmAt(x)'
      BY <1>1, <1>4, <2>2 DEF CalmInv, CalmAt, Has, hist, local
    <2> QED
      BY <1>1, <1>2, <2>1, <2>3, CalmStays
  <1> QED
    BY <1>6, <1>7, <1>8, <1>9, <1>10

\* The copy ends early, and the partial file is removed.
LEMMA CopyFailsStep ==
  ASSUME IInv, NEW x \in Proc, CopyFails(x)
  PROVE  IInv'
  <1> USE DEF IInv
  <1> DEFINE p == Head(rest[x])
             F == {"absent", "torn", "whole"} \cup Proc
  <1>1. PICK l \in {"fetch", "failed"} : Goto(x, l)
    BY DEF CopyFails
  <1>2. /\ pc[x] = "copy" /\ Fault("copy") /\ "copy" \in Failure
        /\ part' = [part EXCEPT ![p] = "absent"] /\ deb' = Settle(deb, p, x, "torn")
        /\ UNCHANGED <<local, warms>>
    BY DEF CopyFails, Failure
  <1>3. l \in Location /\ rest[x] # <<>>
    BY <1>2 DEF Location, PathInv, Downloading
  <1>4. p \in Package
    BY <1>3, NextType
  <1>5. /\ pc' \in [Proc -> Location] /\ pc'[x] = l
        /\ \A y \in Proc \ {x} : pc'[y] = pc[y]
    BY <1>1, <1>3, Moves
  <1> HIDE DEF p
  <1>6. /\ part' \in [Package -> F] /\ deb' \in [Package -> F]
        /\ deb'[p] = IF deb[p] = x THEN "torn" ELSE deb[p]
        /\ \A q \in Package \ {p} : part'[q] = part[q] /\ deb'[q] = deb[q]
    <2>1. part \in [Package -> F] /\ deb \in [Package -> F] /\ "torn" \in F /\ "absent" \in F
      BY DEF TypeOK
    <2> HIDE DEF F
    <2>2. /\ Settle(deb, p, x, "torn") \in [Package -> F]
          /\ Settle(deb, p, x, "torn")[p] = IF deb[p] = x THEN "torn" ELSE deb[p]
          /\ \A q \in Package \ {p} : Settle(deb, p, x, "torn")[q] = deb[q]
      BY <1>4, <2>1 DEF Settle
    <2>3. /\ part' \in [Package -> F]
          /\ \A q \in Package \ {p} : part'[q] = part[q]
      BY <1>2, <1>4, <2>1
    <2> QED
      BY <1>2, <2>2, <2>3
  <1>7. TypeOK'
    <2>1. faults' \in 0..MaxFaults /\ calm' \in BOOLEAN /\ shared' = shared
      BY <1>2, Faulty DEF Fault
    <2> QED
      BY <1>2, <1>5, <1>6, <2>1 DEF TypeOK, local
  <1>8. PathInv'
    BY <1>1, <1>2, <1>3, PathStays DEF Ended, local
  <1>9. ResolveInv'
    BY <1>1, <1>2, <1>3, LocalStays DEF local
  <1>10. ~shared' => FileInv'
    <2> SUFFICES ASSUME ~shared' PROVE FileInv'
      OBVIOUS
    <2>1. FileInv /\ rest' = rest
      BY <1>2, Faulty DEF local
    <2>2. \A y \in Proc : Downloading(y)' => Downloading(y) /\ y # x /\ pc'[y] = pc[y]
      BY <1>5 DEF Downloading
    <2>3. \A y \in Proc \ {x} : Downloading(y) => Head(rest[y]) \in Package \ {p}
      BY <1>2, <2>1, NextType DEF PathInv, FileInv, Downloading, p
    <2>4. \A y, z \in Proc :
            y # z /\ Downloading(y)' /\ Downloading(z)' => Head(rest'[y]) # Head(rest'[z])
      BY <2>1, <2>2 DEF FileInv
    <2>5. \A y \in Proc : /\ pc'[y] = "copy" => part'[Head(rest'[y])] = y
                          /\ pc'[y] = "rename" => part'[Head(rest'[y])] = "whole"
      BY <1>6, <2>1, <2>2, <2>3 DEF FileInv, Downloading
    <2>6. \A q \in Package : deb'[q] \in {"absent", "whole"}
      <3>1. deb[p] # x
        BY <1>4, <2>1 DEF FileInv, Proc
      <3> QED
        BY <1>6, <2>1, <3>1 DEF FileInv
    <2> QED
      BY <2>4, <2>5, <2>6 DEF FileInv
  <1>11. CalmInv'
    BY <1>2, Faulty
  <1> QED
    BY <1>7, <1>8, <1>9, <1>10, <1>11

\* The partial file becomes the package.
LEMMA RenameDebStep ==
  ASSUME IInv, NEW x \in Proc, RenameDeb(x)
  PROVE  IInv'
  <1> USE DEF IInv
  <1> DEFINE p == Head(rest[x])
             F == {"absent", "torn", "whole"} \cup Proc
  <1>1. PICK l \in {"fetch", "failed"} :
          /\ Goto(x, l)
          /\ l = "fetch" => /\ part[p] # "absent"
                            /\ deb' = [deb EXCEPT ![p] = part[p]]
                            /\ part' = [part EXCEPT ![p] = "absent"]
                            /\ NextPackage(x)
          /\ l = "failed" => part[p] = "absent" /\ UNCHANGED <<files, rest>>
    BY DEF RenameDeb
  <1>2. /\ pc[x] = "rename"
        /\ UNCHANGED <<index, need, out, warms, hist>>
    BY DEF RenameDeb, Ok
  <1>3. l \in Location /\ rest[x] # <<>>
    BY <1>2 DEF Location, PathInv, Downloading
  <1>4. p \in Package
    BY <1>3, NextType
  <1>5. /\ pc' \in [Proc -> Location] /\ pc'[x] = l
        /\ \A y \in Proc \ {x} : pc'[y] = pc[y]
    BY <1>1, <1>3, Moves
  <1>6. /\ rest' \in [Proc -> Seq(Package)]
        /\ l = "fetch" => rest'[x] = Tail(rest[x])
        /\ \A y \in Proc \ {x} : rest'[y] = rest[y]
    <2>1. Tail(rest[x]) \in Seq(Package)
      BY <1>3, NextType
    <2>2. rest \in [Proc -> Seq(Package)]
      BY DEF TypeOK
    <2>3. CASE l = "fetch"
      BY <1>1, <2>1, <2>2, <2>3 DEF NextPackage
    <2>4. CASE l = "failed"
      BY <1>1, <2>2, <2>4
    <2> QED
      BY <2>3, <2>4
  <1> HIDE DEF p
  <1>7. /\ part' \in [Package -> F] /\ deb' \in [Package -> F]
        /\ deb'[p] = IF l = "fetch" THEN part[p] ELSE deb[p]
        /\ \A q \in Package \ {p} : part'[q] = part[q] /\ deb'[q] = deb[q]
    <2>1. part \in [Package -> F] /\ deb \in [Package -> F] /\ "absent" \in F /\ part[p] \in F
      BY <1>4 DEF TypeOK
    <2> HIDE DEF F
    <2> QED
      BY <1>1, <1>4, <2>1 DEF files
  <1>8. TypeOK'
    BY <1>2, <1>5, <1>6, <1>7 DEF TypeOK, hist
  <1>9. PathInv'
    BY <1>1, <1>2, <1>3, <1>6, PathStays DEF Ended
  <1>10. ResolveInv'
    BY <1>1, <1>2, <1>3, LocalStays
  <1>11. ~shared' => FileInv'
    <2> SUFFICES ASSUME ~shared' PROVE FileInv'
      OBVIOUS
    <2>1. FileInv
      BY <1>2 DEF hist
    <2>2. \A y \in Proc : Downloading(y)' => Downloading(y) /\ y # x /\ pc'[y] = pc[y]
                                              /\ rest'[y] = rest[y]
      BY <1>5, <1>6 DEF Downloading
    <2>3. \A y \in Proc \ {x} : Downloading(y) => Head(rest[y]) \in Package \ {p}
      BY <1>2, <2>1, NextType DEF PathInv, FileInv, Downloading, p
    <2>4. \A y, z \in Proc :
            y # z /\ Downloading(y)' /\ Downloading(z)' => Head(rest'[y]) # Head(rest'[z])
      BY <2>1, <2>2 DEF FileInv
    <2>5. \A y \in Proc : /\ pc'[y] = "copy" => part'[Head(rest'[y])] = y
                          /\ pc'[y] = "rename" => part'[Head(rest'[y])] = "whole"
      BY <1>7, <2>1, <2>2, <2>3 DEF FileInv, Downloading
    <2>6. \A q \in Package : deb'[q] \in {"absent", "whole"}
      <3>1. part[p] = "whole"
        BY <1>2, <2>1 DEF FileInv, p
      <3> QED
        BY <1>7, <2>1, <3>1 DEF FileInv
    <2> QED
      BY <2>4, <2>5, <2>6 DEF FileInv
  <1>12. Offered => CalmInv'
    <2> SUFFICES ASSUME Offered PROVE CalmInv'
      OBVIOUS
    <2>1. Working(x) /\ (calm => \A y \in Proc \ {x} : ~Working(y))
      BY <1>2, Alone DEF Working
    <2>2. calm => CalmAt(x) /\ ~shared /\ part[p] = "whole"
      BY <1>2 DEF CalmInv, FileInv, p
    <2>3. calm => l = "fetch"
      BY <1>1, <2>2
    <2>4. /\ Elements(rest[x]) = {p} \cup Elements(Tail(rest[x]))
          /\ Distinct(rest[x]) => /\ Distinct(Tail(rest[x]))
                                  /\ p \notin Elements(Tail(rest[x]))
      BY <1>3, NextType DEF p
    <2>5. calm => Has(Elements(out[x]) \ Elements(rest[x]))'
      <3> SUFFICES ASSUME calm PROVE Has(Elements(out[x]) \ Elements(rest[x]))'
        OBVIOUS
      <3>1. out' = out /\ rest'[x] = Tail(rest[x])
        BY <1>2, <1>6, <2>3
      <3>2. Has(Elements(out[x]) \ Elements(rest[x])) /\ p \in Elements(out[x])
            /\ p \notin Elements(Tail(rest[x]))
        BY <1>2, <2>2, <2>4 DEF CalmAt
      <3>3. \A q \in Package : deb'[q] = IF q \in Elements(out[x]) \ Elements(Tail(rest[x]))
                                         THEN "whole" ELSE "absent"
        BY <1>7, <2>2, <2>3, <2>4, <3>2 DEF Has
      <3> QED
        BY <3>1, <3>3 DEF Has
    <2>6. calm' => calm /\ ~shared' /\ CalmAt(x)'
      BY <1>2, <1>5, <1>6, <2>2, <2>3, <2>4, <2>5 DEF CalmAt, hist
    <2> QED
      BY <1>1, <1>3, <2>1, <2>3, <2>6, CalmStays
  <1> QED
    BY <1>8, <1>9, <1>10, <1>11, <1>12

\* The files are pushed to the guest.
LEMMA InstallOpenSSHFromHostStep ==
  ASSUME IInv, NEW x \in Installer, InstallOpenSSHFromHost(x)
  PROVE  IInv'
  <1> USE DEF IInv
  <1> DEFINE pushed == {p \in Package : deb[p] # "absent"}
             met == \A p \in pushed :
                      deb[p] = "whole" /\ Elements(Depends[p]) \subseteq pushed \cup Base
  <1>1. /\ x \in Proc /\ pc[x] = "push" /\ UNCHANGED <<files, local, warms>>
        /\ \/ Goto(x, IF met THEN "ok" ELSE "failed") /\ UNCHANGED hist
           \/ Fault("push") /\ Goto(x, "failed")
    BY DEF InstallOpenSSHFromHost, Proc, Ok
  <1>2. CASE Fault("push") /\ Goto(x, "failed")
    BY <1>1, <1>2, FailsStep DEF Ended, Failure
  <1>3. CASE Goto(x, IF met THEN "ok" ELSE "failed") /\ UNCHANGED hist
    <2> HIDE DEF met
    <2>1. PICK l \in {"ok", "failed"} : Goto(x, l) /\ (l = "failed" => ~met)
      BY <1>3 DEF Goto
    <2>2. l \in Location
      BY DEF Location
    <2>3. pc' \in [Proc -> Location] /\ pc'[x] = l
      BY <1>1, <2>1, <2>2, Moves
    <2>4. TypeOK'
      BY <1>1, <1>3, <2>3 DEF TypeOK, files, local, hist
    <2>5. PathInv'
      BY <1>1, <2>1, <2>2, PathStays DEF Ended, local
    <2>6. ResolveInv'
      BY <1>1, <2>1, <2>2, LocalStays DEF local
    <2>7. ~shared' => FileInv'
      BY <1>1, <1>3, <2>1, <2>2, FilesStay DEF local, hist
    <2>8. Offered => CalmInv'
      <3> SUFFICES ASSUME Offered PROVE CalmInv'
        OBVIOUS
      <3>1. Working(x) /\ (calm => \A y \in Proc \ {x} : ~Working(y))
        BY <1>1, Alone DEF Working
      <3>2. calm => Has(Needed)
        BY <1>1 DEF CalmInv, CalmAt
      <3>3. Has(Needed) => met
        <4> SUFFICES ASSUME Has(Needed) PROVE met
          OBVIOUS
        <4>1. Needed \subseteq Package
          BY ServerNeeded, ClosureHas DEF Needed
        <4>2. pushed = Needed /\ \A p \in pushed : deb[p] = "whole"
          BY <4>1 DEF Has
        <4>3. \A p \in Needed : Elements(Depends[p]) \subseteq Needed \cup Base
          <5>1. \A p \in Needed : (Elements(Depends[p]) \cap UNION Suites) \ Base \subseteq Needed
            BY ServerNeeded, ClosureHas DEF Needed
          <5>2. \A p \in Needed : Elements(Depends[p]) \subseteq (UNION Suites) \cup Base
            BY DEF Offered, Needed
          <5> SUFFICES ASSUME NEW p \in Needed, NEW d \in Elements(Depends[p]), d \notin Base
                       PROVE  d \in Needed
            OBVIOUS
          <5>3. d \in UNION Suites
            BY <5>2
          <5> QED
            BY <5>1, <5>3
        <4> HIDE DEF pushed
        <4> QED
          BY <4>2, <4>3 DEF met
      <3>4. calm' => calm /\ ~shared' /\ CalmAt(x)' /\ Has(Needed)'
        BY <1>1, <1>3, <2>1, <2>3, <3>2, <3>3 DEF CalmInv, CalmAt, Has, hist, files
      <3> QED
        BY <1>1, <2>1, <2>2, <3>1, <3>4, CalmStays
    <2> QED
      BY <2>4, <2>5, <2>6, <2>7, <2>8
  <1> QED
    BY <1>1, <1>2, <1>3

\* The server dies, and with it every download.
LEMMA CrashStep ==
  ASSUME IInv, Crash
  PROVE  IInv'
  <1> USE DEF IInv
  <1>1. "crash" \in Failure /\ Fault("crash") /\ UNCHANGED <<local, warms>>
    BY DEF Crash, Failure
  <1>2. /\ pc' \in [Proc -> Location]
        /\ pc'[Warm] \in {"idle", "ok"}
        /\ \A x \in Proc : pc'[x] \in {"idle", "ok", "failed"}
    BY DEF Crash, Location, Proc
  <1>3. deb' = [p \in Package |-> IF deb[p] \in Proc THEN "torn" ELSE deb[p]]
    BY DEF Crash
  <1>4. part' = [p \in Package |-> IF part[p] \in Proc THEN "torn" ELSE part[p]]
    BY DEF Crash
  <1>5. TypeOK'
    <2>1. faults' \in 0..MaxFaults /\ calm' \in BOOLEAN /\ shared' = shared
      BY <1>1, Faulty DEF Fault
    <2> QED
      BY <1>1, <1>2, <1>3, <1>4, <2>1 DEF TypeOK, local
  <1>6. PathInv'
    BY <1>2 DEF PathInv, Downloading, Proc
  <1>7. ResolveInv'
    BY <1>2 DEF ResolveInv
  <1>8. ~shared' => FileInv'
    <2> SUFFICES ASSUME ~shared' PROVE FileInv'
      OBVIOUS
    <2>1. FileInv
      BY <1>1, Faulty
    <2>2. \A p \in Package : deb'[p] \in {"absent", "whole"}
      BY <1>3, <2>1 DEF FileInv, Proc
    <2> QED
      BY <1>2, <2>2 DEF FileInv, Downloading
  <1>9. CalmInv'
    BY <1>1, Faulty
  <1> QED
    BY <1>5, <1>6, <1>7, <1>8, <1>9

------------------------------------------------------------------------------
(***************************************************************************)
(* The invariant holds.                                                    *)
(***************************************************************************)

\* It holds when the cache is empty.
LEMMA InitInv == Init => IInv
  <1> SUFFICES ASSUME Init PROVE IInv
    OBVIOUS
  <1>1. pc \in [Proc -> Location] /\ \A x \in Proc : pc[x] \in {"idle", "ok"}
    BY DEF Init, Location
  <1>2. TypeOK
    <2>1. <<>> \in Seq(Name) /\ <<>> \in Seq(Package)
      OBVIOUS
    <2>2. /\ need \in [Proc -> Seq(Name)] /\ out \in [Proc -> Seq(Package)]
          /\ rest \in [Proc -> Seq(Package)] /\ index \in [Proc -> SUBSET Name]
      BY <2>1 DEF Init
    <2>3. /\ deb \in [Package -> {"absent", "torn", "whole"} \cup Proc]
          /\ part \in [Package -> {"absent", "torn", "whole"} \cup Proc]
      BY DEF Init
    <2>4. MaxFaults \in Nat
      OBVIOUS
    <2>5. warms \in BOOLEAN /\ shared \in BOOLEAN /\ calm \in BOOLEAN
      BY Zenon DEF Init
    <2>6. faults \in 0..MaxFaults
      <3>1. faults = 0
        BY DEF Init
      <3> QED
        BY <2>4, <3>1
    <2> QED
      BY <1>1, <2>2, <2>3, <2>5, <2>6 DEF TypeOK
  <1>3. PathInv /\ ResolveInv
    BY <1>1 DEF PathInv, ResolveInv, Downloading, Proc
  <1>4. FileInv
    BY <1>1 DEF FileInv, Downloading, Init
  <1>5. CalmInv
    <2>1. Has({}) /\ ~shared
      BY DEF Init, Has
    <2>2. \A x \in Proc : ~Working(x) /\ CalmAt(x)
      BY <1>1 DEF Working, CalmAt
    <2> QED
      BY <2>1, <2>2 DEF CalmInv
  <1> QED
    BY <1>2, <1>3, <1>4, <1>5 DEF IInv

\* Every step keeps it.
LEMMA NextInv == IInv /\ [Next]_vars => IInv'
  <1> SUFFICES ASSUME IInv, [Next]_vars PROVE IInv'
    OBVIOUS
  <1>1. CASE EnsureHostOpenSSHDebs
    BY <1>1, EnsureHostOpenSSHDebsStep
  <1>2. CASE \E x \in Proc : EnsureOpenSSHDebs(x)
    BY <1>2, FindServerDebStep, LoadPackagesIndexStep, ResolveNextStep, ResolvedStep,
       FetchDebStep, CopyDebStep, CopyFailsStep, RenameDebStep DEF EnsureOpenSSHDebs
  <1>3. CASE \E x \in Installer : Install(x)
    BY <1>3, EnsureSSHStep, InstallOpenSSHFromHostStep DEF Install
  <1>4. CASE Crash
    BY <1>4, CrashStep
  <1>5. CASE UNCHANGED vars
    <2>1. TypeOK' /\ PathInv' /\ FileInv' = FileInv /\ shared' = shared
      BY <1>5 DEF IInv, TypeOK, PathInv, FileInv, Downloading, Ended, vars, files, local, hist
    <2>2. ResolveInv'
      BY <1>5 DEF IInv, ResolveInv, ResolveAt, vars, local
    <2>3. CalmInv => CalmInv'
      BY <1>5 DEF CalmInv, CalmAt, Has, Working, vars, files, local, hist
    <2> QED
      BY <2>1, <2>2, <2>3 DEF IInv
  <1> QED
    BY <1>1, <1>2, <1>3, <1>4, <1>5 DEF Next

\* The inductive invariant, of every guest, failure and crash.
THEOREM Invariance == Spec => []IInv
  BY InitInv, NextInv, PTL DEF Spec

\* Every variable has its type.
THEOREM TypeCorrect == Spec => []TypeOK
  BY Invariance, PTL DEF IInv

\* downloadDebFile leaves no .deb file that is not whole, whatever fails and wherever the
\* server dies, as long as no two goroutines download the same package at once.
THEOREM Whole == Spec => []PackagesWhole
  <1>1. IInv => PackagesWhole
    BY DEF IInv, FileInv, PackagesWhole
  <1> QED
    BY <1>1, Invariance, PTL

\* resolveOpenSSHDebs finds the closure of its roots, each package once, in every index and
\* every dependency graph, cyclic ones included.
THEOREM Resolution == Spec => []ResolvedClosed
  <1>1. IInv => ResolvedClosed
    BY DEF IInv, ResolveInv, ResolvedClosed, Distinct
  <1> QED
    BY <1>1, Invariance, PTL

\* While nothing has failed and the guests come one after another, InstallOpenSSHFromHost
\* pushes everything that is needed and nothing fails, with an archive that offers it.
THEOREM Complete == ASSUME Offered PROVE Spec => []CompleteWhenCalm
  <1>1. IInv => CompleteWhenCalm
    <2> SUFFICES ASSUME IInv, calm PROVE CompleteWhenCalm
      BY DEF CompleteWhenCalm
    <2>1. \A x \in Proc : CalmAt(x)
      BY DEF IInv, CalmInv
    <2>2. \A x \in Installer : pc[x] = "push" => Has(Needed)
      BY <2>1 DEF CalmAt, Proc
    <2>3. Needed \subseteq Package
      BY ServerNeeded, ClosureHas DEF Needed
    <2>4. PushedComplete
      BY <2>2, <2>3 DEF PushedComplete, Has, Needed
    <2> QED
      BY <2>1, <2>4 DEF CompleteWhenCalm, CalmAt
  <1> QED
    BY <1>1, Invariance, PTL
================================================================================

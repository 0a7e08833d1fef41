--------------------------- MODULE ApiAccessProofs ---------------------------
(***************************************************************************)
(* Access to the API, for every number of connections and clients, every   *)
(* limit, window and deadline: goincus create says that an instance runs   *)
(* only when its provisioning is over or an operation wrote its status     *)
(* before, and an address that guesses keys is held to its limit, but for  *)
(* the requests that are under way when it is blocked.                     *)
(***************************************************************************)
EXTENDS ApiAccess, FiniteSetTheorems, TLAPS

------------------------------------------------------------------------------
(***************************************************************************)
(* The inductive invariant.                                                *)
(***************************************************************************)

\* The parts of TypeOK: an address has one bucket at most.
HitsType == hits = {} \/ \E b \in Bucket : hits = {b}

Request ==
  [at : {"idle", "limit", "key", "serve", "insert"}, kind : {"health", "get", "create"},
   good : BOOLEAN, who : Client \cup {NoOne}]

Waiter ==
  [at : {"idle", "post", "sleep", "poll"}, polls : 0..MaxPolls,
   told : {"none", "accepted", "running", "error"}]

Row == [status : Status, prov : {"none", "begin", "busy", "over"}, early : BOOLEAN]

Types ==
  /\ HitsType
  /\ conn \in [Conn -> Request]
  /\ client \in [Client -> Waiter]
  /\ inst \in Row
  /\ guesses \in [0..Window - 1 -> Nat]

\* No reader of the row takes the provisioning for over before it is, unless an operation
\* wrote the status.
Told == inst.prov = "over" \/ inst.early

StageInv ==
  /\ inst.status = "none" <=> inst.prov = "none"
  /\ inst.status \in {"running", "stopped", "error"} => Told

\* The requests that have passed the limiter and whose key is not checked yet.
Keys == {q \in Conn : conn[q].at = "key"}

\* Each of them may add a failure to those that have been counted.
FailsInv == \A b \in hits : b.fails + Cardinality(Keys) < MaxFails + Cardinality(Conn)

\* What a window may see at most.
Limit == MaxFails + Cardinality(Conn) - 1

\* Since the current bucket was made no key was refused that it has not counted, and in the
\* rest of the last window not more than the bucket before it could count.  Once the time
\* of the bucket has passed, it is the whole window; and nothing is added to it then.
Counted(b) ==
  /\ b.left > 0 => /\ guesses[Window - b.left] <= b.fails
                   /\ guesses[Window - 1] <= guesses[Window - b.left] + Limit
  /\ b.left <= 0 => guesses[Window - 1] <= b.fails
  /\ b.left < 0 => guesses[0] = 0

GuessInv ==
  /\ \A i, j \in 0..Window - 1 : i <= j => guesses[i] <= guesses[j]
  /\ hits = {} => \A i \in 0..Window - 1 : guesses[i] = 0
  /\ \A b \in hits : Counted(b)

IInv == Types /\ StageInv /\ ReportedWhenOver /\ FailsInv /\ GuessInv

\* The requests on the other connections are all that exceeds the limit of a bucket.
FailsBounded == \A b \in hits : b.fails < MaxFails + Cardinality(Conn)

------------------------------------------------------------------------------
(***************************************************************************)
(* Lemmas.                                                                 *)
(***************************************************************************)
USE AccessAssumption

\* The types are those of TypeOK.
LEMMA TypesType ==
  ASSUME Types
  PROVE  TypeOK
  <1>1. hits \subseteq Bucket /\ Cardinality(hits) <= 1
    <2>1. CASE hits = {}
      <3>1. Cardinality(hits) = 0
        BY <2>1, FS_EmptySet, Zenon
      <3> QED
        BY <2>1, <3>1
    <2>2. CASE \E b \in Bucket : hits = {b}
      <3>1. PICK b \in Bucket : hits = {b}
        BY <2>2
      <3>2. Cardinality(hits) = 1
        BY <3>1, FS_Singleton, Zenon
      <3> QED
        BY <3>1, <3>2
    <2> QED
      BY <2>1, <2>2 DEF Types, HitsType
  <1> QED
    BY <1>1 DEF TypeOK, Types, Request, Waiter, Row

\* The bucket that the limiter uses is the one there is, or a new one; its time is not over.
LEMMA CurrentBucketType ==
  ASSUME Types
  PROVE  /\ CurrentBucket \in Bucket /\ CurrentBucket.left >= 0
         /\ CurrentBucket \in hits \/ CurrentBucket.fails = 0
  <1>1. CASE \A b \in hits : b.left < 0
    BY <1>1 DEF CurrentBucket, Bucket
  <1>2. CASE ~ \A b \in hits : b.left < 0
    <2>1. PICK b \in Bucket : hits = {b} /\ ~(b.left < 0)
      BY <1>2 DEF Types, HitsType
    <2>2. CurrentBucket = CHOOSE c \in hits : TRUE
      BY <1>2 DEF CurrentBucket
    <2>3. CurrentBucket = b
      BY <2>1, <2>2
    <2>4. b.left \in -1..Window
      BY DEF Bucket
    <2> QED
      BY <2>1, <2>3, <2>4
  <1> QED
    BY <1>1, <1>2

\* Connections are finitely many, and so are the requests whose key is checked.
LEMMA KeysCount ==
  /\ Cardinality(Conn) \in Nat
  /\ IsFiniteSet(Keys) /\ Cardinality(Keys) \in Nat /\ Cardinality(Keys) <= Cardinality(Conn)
  <1>1. Keys \in SUBSET Conn
    BY DEF Keys
  <1> QED
    BY <1>1, FS_Subset, FS_CardinalityType

\* And after a step as well.
LEMMA KeysCountNext ==
  /\ IsFiniteSet(Keys') /\ Cardinality(Keys') \in Nat
  /\ Cardinality(Keys') <= Cardinality(Conn)
  <1>1. Keys' \in SUBSET Conn
    BY DEF Keys
  <1> QED
    BY <1>1, FS_Subset, FS_CardinalityType

\* The limiter's bucket satisfies FailsInv, also when it is new and every request waits for
\* its key to be checked.
LEMMA CurrentBucketFails ==
  ASSUME Types, FailsInv
  PROVE  CurrentBucket.fails + Cardinality(Keys) < MaxFails + Cardinality(Conn)
  <1>1. CASE CurrentBucket \in hits
    BY <1>1 DEF FailsInv
  <1>2. CASE CurrentBucket.fails = 0
    BY <1>2, KeysCount
  <1> QED
    BY <1>1, <1>2, CurrentBucketType

\* No more requests wait for their key to be checked, and what was counted stays.
LEMMA FailsStay ==
  ASSUME Types, FailsInv, GuessInv, UNCHANGED <<hits, guesses>>, Keys' \subseteq Keys
  PROVE  FailsInv' /\ GuessInv'
  <1>1. Keys' \in SUBSET Keys
    OBVIOUS
  <1>2. Cardinality(Keys') <= Cardinality(Keys)
    BY <1>1, KeysCount, FS_Subset
  <1>3. ASSUME NEW b \in hits'
        PROVE  b.fails + Cardinality(Keys') < MaxFails + Cardinality(Conn)
    <2>1. b.fails + Cardinality(Keys) < MaxFails + Cardinality(Conn) /\ b.fails \in Nat
      BY <1>3 DEF FailsInv, Types, HitsType, Bucket
    <2> QED
      BY <1>2, <2>1, KeysCount, KeysCountNext
  <1>4. GuessInv'
    BY DEF GuessInv, Counted
  <1> QED
    BY <1>3, <1>4 DEF FailsInv

\* The bucket that the limiter uses counts what has been refused, also when it is new.
LEMMA CurrentBucketCounts ==
  ASSUME Types, FailsInv, GuessInv
  PROVE  Counted(CurrentBucket)
  <1>1. CASE hits # {} /\ ~ \A b \in hits : b.left < 0
    <2>1. CurrentBucket = CHOOSE b \in hits : TRUE
      BY <1>1 DEF CurrentBucket
    <2>2. CurrentBucket \in hits
      BY <1>1, <2>1
    <2> QED
      BY <2>2 DEF GuessInv
  <1>2. CASE hits = {} \/ \A b \in hits : b.left < 0
    <2>1. CurrentBucket = [fails |-> 0, left |-> Window]
      BY <1>2 DEF CurrentBucket
    <2>2. Limit \in Nat
      BY KeysCount DEF Limit
    <2>3. guesses[0] = 0 /\ guesses[Window - 1] <= Limit /\ guesses[Window - 1] \in Nat
      <3>1. guesses \in [0..Window - 1 -> Nat] /\ 0 \in 0..Window - 1
            /\ Window - 1 \in 0..Window - 1
        BY DEF Types
      <3>2. CASE hits = {}
        BY <2>2, <3>1, <3>2 DEF GuessInv
      <3>3. CASE hits # {}
        <4>1. PICK b \in Bucket : hits = {b} /\ b.left < 0
          BY <1>2, <3>3 DEF Types, HitsType
        <4>2. guesses[0] = 0 /\ guesses[Window - 1] <= b.fails
          <5>1. Counted(b)
            BY <4>1 DEF GuessInv
          <5>2. b.left <= 0
            BY <4>1 DEF Bucket
          <5> QED
            BY <4>1, <5>1, <5>2 DEF Counted
        <4>3. b.fails <= Limit
          <5>1. b.fails + Cardinality(Keys) < MaxFails + Cardinality(Conn)
            BY <4>1 DEF FailsInv
          <5>2. b.fails \in Nat
            BY <4>1 DEF Bucket
          <5> QED
            BY <5>1, <5>2, KeysCount DEF Limit
        <4>4. b.fails \in Nat
          BY <4>1 DEF Bucket
        <4> QED
          BY <2>2, <3>1, <4>2, <4>3, <4>4
      <3> QED
        BY <3>2, <3>3
    <2>4. /\ CurrentBucket.fails = 0 /\ CurrentBucket.left = Window
          /\ Window - CurrentBucket.left = 0
      BY <2>1
    <2> QED
      BY <2>2, <2>3, <2>4 DEF Counted
  <1> QED
    BY <1>1, <1>2

\* A client that is answered is told that the instance runs only by such an answer.
LEMMA ReceiveType ==
  ASSUME Types, NEW c \in Client, NEW code, NEW view, Receive(c, code, view)
  PROVE  /\ client' \in [Client -> Waiter]
         /\ \A d \in Client : client'[d].told = "running" =>
              client[d].told = "running" \/ (view.status = "running" /\ view.ports)
  <1>1. client \in [Client -> Waiter]
    BY DEF Types
  <1>2. PICK w \in Waiter :
          /\ client' = [client EXCEPT ![c] = w]
          /\ w.told = "running" =>
               client[c].told = "running" \/ (view.status = "running" /\ view.ports)
    <2>1. MaxPolls \in 0..MaxPolls /\ 0 \in 0..MaxPolls
      OBVIOUS
    <2>2. ASSUME NEW t \in {"accepted", "running", "error"}
          PROVE  [at |-> "idle", polls |-> 0, told |-> t] \in Waiter
      BY <2>1 DEF Waiter
    <2>3. CASE client' = [client EXCEPT ![c].at = "sleep", ![c].polls = MaxPolls]
      <3> DEFINE w == [client[c] EXCEPT !.at = "sleep", !.polls = MaxPolls]
      <3>1. w \in Waiter /\ w.told = client[c].told
        BY <1>1, <2>1 DEF Waiter
      <3>2. client' = [client EXCEPT ![c] = w]
        BY <1>1, <2>3
      <3> QED
        BY <3>1, <3>2
    <2>4. CASE client' = [client EXCEPT ![c].at = "sleep"]
      <3> DEFINE w == [client[c] EXCEPT !.at = "sleep"]
      <3>1. w \in Waiter /\ w.told = client[c].told
        BY <1>1 DEF Waiter
      <3>2. client' = [client EXCEPT ![c] = w]
        BY <1>1, <2>4
      <3> QED
        BY <3>1, <3>2
    <2>5. CASE Exit(c, "running") /\ view.status = "running" /\ view.ports
      BY <2>2, <2>5 DEF Exit
    <2>6. CASE \E t \in {"accepted", "error"} : Exit(c, t)
      BY <2>2, <2>6 DEF Exit
    <2>7. \/ client' = [client EXCEPT ![c].at = "sleep", ![c].polls = MaxPolls]
          \/ client' = [client EXCEPT ![c].at = "sleep"]
          \/ Exit(c, "running") /\ view.status = "running" /\ view.ports
          \/ \E t \in {"accepted", "error"} : Exit(c, t)
      BY DEF Receive
    <2> QED
      BY <2>3, <2>4, <2>5, <2>6, <2>7
  <1>3. \A d \in Client : client'[d] = IF d = c THEN w ELSE client[d]
    BY <1>1, <1>2
  <1> QED
    BY <1>1, <1>2, <1>3

\* A request that is answered is gone, and its client was told the truth.
LEMMA AnswerType ==
  ASSUME Types, NEW q \in Conn, NEW code, NEW view, Answer(q, code, view)
  PROVE  /\ conn' \in [Conn -> Request]
         /\ conn'[q].at = "idle" /\ \A p \in Conn \ {q} : conn'[p] = conn[p]
         /\ client' \in [Client -> Waiter]
         /\ \A d \in Client : client'[d].told = "running" =>
              client[d].told = "running" \/ (view.status = "running" /\ view.ports)
  <1>1. Idle \in Request /\ Idle.at = "idle"
    BY DEF Idle, Request
  <1>2. conn \in [Conn -> Request] /\ conn' = [conn EXCEPT ![q] = Idle]
    BY DEF Types, Answer
  <1>3. CASE conn[q].who = NoOne
    BY <1>1, <1>2, <1>3 DEF Answer, Types
  <1>4. CASE conn[q].who # NoOne
    <2>1. conn[q].who \in Client
      BY <1>2, <1>4 DEF Request
    <2> QED
      BY <1>1, <1>2, <1>4, <2>1, ReceiveType DEF Answer
  <1> QED
    BY <1>3, <1>4

\* An answer without an instance tells nobody that it runs.
LEMMA NoViewType ==
  ASSUME Types, NEW q \in Conn, NEW code, Answer(q, code, NoView)
  PROVE  /\ conn' \in [Conn -> Request]
         /\ conn'[q].at = "idle" /\ \A p \in Conn \ {q} : conn'[p] = conn[p]
         /\ client' \in [Client -> Waiter]
         /\ \A d \in Client : client'[d].told = "running" => client[d].told = "running"
  <1>1. NoView.status # "running"
    BY DEF NoView
  <1> QED
    BY <1>1, AnswerType

\* Nobody who was told that the instance runs has to be told otherwise.
LEMMA ReportStays ==
  ASSUME ReportedWhenOver, Told => Told',
         \A d \in Client : client'[d].told = "running" => client[d].told = "running" \/ Told'
  PROVE  ReportedWhenOver'
  BY DEF ReportedWhenOver, Told

\* An answer that leaves the bucket and the instance alone.
LEMMA AnswerStep ==
  ASSUME IInv, NEW q \in Conn, NEW code, Answer(q, code, NoView),
         UNCHANGED <<hits, inst, guesses>>
  PROVE  IInv'
  <1> USE DEF IInv
  <1>1. /\ conn' \in [Conn -> Request]
        /\ conn'[q].at = "idle" /\ \A p \in Conn \ {q} : conn'[p] = conn[p]
        /\ client' \in [Client -> Waiter]
        /\ \A d \in Client : client'[d].told = "running" => client[d].told = "running"
    BY NoViewType
  <1>2. Types'
    BY <1>1 DEF Types, HitsType
  <1>3. StageInv' /\ (Told => Told')
    BY DEF StageInv, Told
  <1>4. ReportedWhenOver'
    BY <1>1, <1>3, ReportStays
  <1>5. Keys' \subseteq Keys
    BY <1>1 DEF Keys
  <1> QED
    BY <1>2, <1>3, <1>4, <1>5, FailsStay

\* A request moves on, before or after its key is checked.
LEMMA GoesOn ==
  ASSUME Types, NEW q \in Conn, NEW l \in {"key", "serve", "insert"},
         conn' = [conn EXCEPT ![q].at = l]
  PROVE  /\ conn' \in [Conn -> Request]
         /\ conn'[q].at = l /\ \A p \in Conn \ {q} : conn'[p] = conn[p]
  <1>1. conn \in [Conn -> Request]
    BY DEF Types
  <1>2. [conn[q] EXCEPT !.at = l] \in Request
    BY <1>1 DEF Request
  <1>3. conn' = [conn EXCEPT ![q] = [conn[q] EXCEPT !.at = l]]
    BY <1>1
  <1> QED
    BY <1>1, <1>2, <1>3 DEF Request

\* A request is sent.
LEMMA SendStep ==
  ASSUME IInv, NEW q \in Conn, NEW kind \in {"health", "get", "create"}, NEW good \in BOOLEAN,
         NEW who \in Client \cup {NoOne}, Send(q, kind, good, who),
         client' \in [Client -> Waiter],
         \A d \in Client : client'[d].told = "running" => client[d].told = "running",
         UNCHANGED <<hits, inst, guesses>>
  PROVE  IInv'
  <1> USE DEF IInv
  <1>1. /\ conn' \in [Conn -> Request]
        /\ conn'[q].at # "key" /\ \A p \in Conn \ {q} : conn'[p] = conn[p]
    <2> DEFINE r == [at |-> IF kind = "health" THEN "serve" ELSE "limit",
                     kind |-> kind, good |-> good, who |-> who]
    <2>1. r \in Request /\ r.at # "key"
      BY DEF Request
    <2>2. conn' = [conn EXCEPT ![q] = r] /\ conn \in [Conn -> Request]
      BY DEF Send, Types
    <2> QED
      BY <2>1, <2>2
  <1>2. Types'
    BY <1>1 DEF Types, HitsType
  <1>3. StageInv' /\ (Told => Told')
    BY DEF StageInv, Told
  <1>4. ReportedWhenOver'
    BY <1>3, ReportStays
  <1>5. Keys' \subseteq Keys
    BY <1>1 DEF Keys
  <1> QED
    BY <1>2, <1>3, <1>4, <1>5, FailsStay

\* The command posts its request.
LEMMA RunCreateStep ==
  ASSUME IInv, NEW c \in Client, NEW q \in Conn, RunCreate(c, q)
  PROVE  IInv'
  <1> USE DEF IInv
  <1> DEFINE w == [client[c] EXCEPT !.at = "post", !.told = "none"]
  <1>1. client \in [Client -> Waiter] /\ client' = [client EXCEPT ![c] = w]
    BY DEF RunCreate, Types
  <1>2. w \in Waiter /\ w.told = "none"
    BY <1>1 DEF Waiter
  <1>3. /\ client' \in [Client -> Waiter]
        /\ \A d \in Client : client'[d].told = "running" => client[d].told = "running"
    BY <1>1, <1>2
  <1> QED
    BY <1>3, SendStep DEF RunCreate

\* And polls.
LEMMA PollStep ==
  ASSUME IInv, NEW c \in Client, NEW q \in Conn, Poll(c, q)
  PROVE  IInv'
  <1> USE DEF IInv
  <1> DEFINE w == [client[c] EXCEPT !.at = "poll", !.polls = @ - 1]
  <1>1. client \in [Client -> Waiter] /\ client' = [client EXCEPT ![c] = w]
        /\ client[c].polls > 0
    BY DEF Poll, Types
  <1>2. w \in Waiter /\ w.told = client[c].told
    <2>1. client[c].polls \in 0..MaxPolls
      BY <1>1 DEF Waiter
    <2>2. client[c].polls - 1 \in 0..MaxPolls
      BY <1>1, <2>1
    <2> QED
      BY <1>1, <2>2 DEF Waiter
  <1>3. /\ client' \in [Client -> Waiter]
        /\ \A d \in Client : client'[d].told = "running" => client[d].told = "running"
    BY <1>1, <1>2
  <1> QED
    BY <1>3, SendStep DEF Poll

\* A command that ends with an error was not told that the instance runs.
LEMMA ExitType ==
  ASSUME Types, NEW c \in Client, Exit(c, "error")
  PROVE  /\ client' \in [Client -> Waiter]
         /\ \A d \in Client : client'[d].told = "running" => client[d].told = "running"
  <1>1. [at |-> "idle", polls |-> 0, told |-> "error"] \in Waiter
    BY DEF Waiter
  <1> QED
    BY <1>1 DEF Types, Exit

\* The deadline.
LEMMA DeadlineStep ==
  ASSUME IInv, NEW c \in Client, Deadline(c)
  PROVE  IInv'
  <1> USE DEF IInv
  <1>1. UNCHANGED <<hits, conn, inst, guesses>> /\ Exit(c, "error")
    BY DEF Deadline
  <1>2. Types'
    BY <1>1, ExitType DEF Types, HitsType
  <1>3. StageInv' /\ (Told => Told')
    BY <1>1 DEF StageInv, Told
  <1>4. ReportedWhenOver'
    BY <1>1, <1>3, ExitType, ReportStays
  <1>5. FailsInv' /\ GuessInv'
    BY <1>1, FailsStay DEF Keys
  <1> QED
    BY <1>2, <1>3, <1>4, <1>5

\* The HTTP client's timeout: nobody is told of what the handler comes to.
LEMMA TimeoutStep ==
  ASSUME IInv, NEW c \in Client, Timeout(c)
  PROVE  IInv'
  <1> USE DEF IInv
  <1>1. UNCHANGED <<hits, inst, guesses>> /\ Exit(c, "error")
    BY DEF Timeout
  <1>2. /\ conn' \in [Conn -> Request]
        /\ \A q \in Conn : conn'[q].at = conn[q].at
    <2>1. conn \in [Conn -> Request]
      BY DEF Types
    <2>2. \A q \in Conn : [conn[q] EXCEPT !.who = NoOne] \in Request
      BY <2>1 DEF Request
    <2>3. \A q \in Conn : [conn[q] EXCEPT !.who = NoOne].at = conn[q].at
      BY <2>1 DEF Request
    <2>4. conn' = [q \in Conn |-> IF conn[q].who = c THEN [conn[q] EXCEPT !.who = NoOne]
                                  ELSE conn[q]]
      BY DEF Timeout
    <2> QED
      BY <2>1, <2>2, <2>3, <2>4
  <1>3. Types'
    BY <1>1, <1>2, ExitType DEF Types, HitsType
  <1>4. StageInv' /\ (Told => Told')
    BY <1>1 DEF StageInv, Told
  <1>5. ReportedWhenOver'
    BY <1>1, <1>4, ExitType, ReportStays
  <1>6. FailsInv' /\ GuessInv'
    <2>1. Keys' \subseteq Keys
      BY <1>2 DEF Keys
    <2> QED
      BY <1>1, <2>1, FailsStay
  <1> QED
    BY <1>3, <1>4, <1>5, <1>6

\* Another caller's request.
LEMMA CallStep ==
  ASSUME IInv, NEW q \in Conn, NEW kind \in {"health", "get"}, NEW good \in BOOLEAN,
         Call(q, kind, good)
  PROVE  IInv'
  BY SendStep DEF Call, IInv, Types

\* The limiter replaces a bucket whose time has passed, and lets a request pass only below
\* the limit: even if all others wait for their keys to be checked, FailsInv holds.
LEMMA BlockedStep ==
  ASSUME IInv, NEW q \in Conn, Blocked(q)
  PROVE  IInv'
  <1> USE DEF IInv
  <1>1. hits' = {CurrentBucket} /\ UNCHANGED <<inst, guesses>>
    BY DEF Blocked
  <1>2. HitsType'
    BY <1>1, CurrentBucketType DEF HitsType
  <1>3. StageInv' /\ (Told => Told')
    BY <1>1 DEF StageInv, Told
  <1>4. CurrentBucket.fails \in Nat
    BY CurrentBucketType DEF Bucket
  <1>5. GuessInv'
    <2>1. ASSUME NEW b \in hits'
          PROVE  Counted(b)'
      <3>1. b = CurrentBucket /\ guesses' = guesses
        BY <1>1
      <3> QED
        BY <3>1, CurrentBucketCounts DEF Counted
    <2> QED
      BY <1>1, <2>1 DEF GuessInv
  <1>6. CASE Answer(q, 429, NoView)
    <2>1. /\ conn' \in [Conn -> Request]
          /\ conn'[q].at = "idle" /\ \A p \in Conn \ {q} : conn'[p] = conn[p]
          /\ client' \in [Client -> Waiter]
          /\ \A d \in Client : client'[d].told = "running" => client[d].told = "running"
      BY <1>6, NoViewType
    <2>2. Types'
      BY <1>1, <1>2, <2>1 DEF Types
    <2>3. ReportedWhenOver'
      BY <1>1, <1>3, <2>1, ReportStays
    <2>4. FailsInv'
      <3>1. Keys' \in SUBSET Keys
        BY <2>1 DEF Keys
      <3>2. Cardinality(Keys') <= Cardinality(Keys)
        BY <3>1, KeysCount, FS_Subset
      <3>3. CurrentBucket.fails + Cardinality(Keys') < MaxFails + Cardinality(Conn)
        BY <1>4, <3>2, KeysCount, KeysCountNext, CurrentBucketFails
      <3> QED
        BY <1>1, <3>3 DEF FailsInv
    <2> QED
      BY <1>3, <1>5, <2>2, <2>3, <2>4
  <1>7. CASE /\ CurrentBucket.fails < MaxFails
             /\ conn' = [conn EXCEPT ![q].at = "key"] /\ UNCHANGED client
    <2>1. conn' \in [Conn -> Request]
      BY <1>7, GoesOn
    <2>2. Types'
      BY <1>1, <1>2, <1>7, <2>1 DEF Types
    <2>3. ReportedWhenOver'
      BY <1>1, <1>3, <1>7, ReportStays
    <2>4. FailsInv'
      <3>1. CurrentBucket.fails + Cardinality(Keys') < MaxFails + Cardinality(Conn)
        BY <1>4, <1>7, KeysCount, KeysCountNext
      <3> QED
        BY <1>1, <3>1 DEF FailsInv
    <2> QED
      BY <1>3, <1>5, <2>2, <2>3, <2>4
  <1> QED
    BY <1>6, <1>7 DEF Blocked

\* A key that is accepted deletes the bucket; one that is refused is a failure more, and a
\* request less that waits for its key to be checked.
LEMMA CheckKeyStep ==
  ASSUME IInv, NEW q \in Conn, CheckKey(q)
  PROVE  IInv'
  <1> USE DEF IInv
  <1>1. conn[q].at = "key" /\ inst' = inst
    BY DEF CheckKey
  <1>2. StageInv' /\ (Told => Told')
    BY <1>1 DEF StageInv, Told
  <1>3. CASE /\ hits' = {} /\ conn' = [conn EXCEPT ![q].at = "serve"]
             /\ guesses' = [i \in DOMAIN guesses |-> 0] /\ UNCHANGED client
    <2>1. conn' \in [Conn -> Request]
      BY <1>3, GoesOn
    <2>2. Types'
      BY <1>1, <1>3, <2>1 DEF Types, HitsType
    <2>3. ReportedWhenOver'
      BY <1>1, <1>2, <1>3, ReportStays
    <2>4. FailsInv' /\ GuessInv'
      <3>1. DOMAIN guesses = 0..Window - 1
        BY DEF Types
      <3> QED
        BY <1>3, <3>1 DEF FailsInv, GuessInv
    <2> QED
      BY <1>2, <2>2, <2>3, <2>4
  <1>4. CASE /\ hits' = {[CurrentBucket EXCEPT !.fails = @ + 1]}
             /\ guesses' = [i \in DOMAIN guesses |-> guesses[i] + 1]
             /\ Answer(q, 401, NoView)
    <2> DEFINE b == [CurrentBucket EXCEPT !.fails = @ + 1]
    <2>1. /\ b \in Bucket /\ b.fails = CurrentBucket.fails + 1 /\ CurrentBucket.fails \in Nat
          /\ b.left = CurrentBucket.left /\ b.left \in 0..Window
      BY CurrentBucketType DEF Bucket
    <2>2. /\ conn' \in [Conn -> Request]
          /\ conn'[q].at = "idle" /\ \A p \in Conn \ {q} : conn'[p] = conn[p]
          /\ client' \in [Client -> Waiter]
          /\ \A d \in Client : client'[d].told = "running" => client[d].told = "running"
      BY <1>4, NoViewType
    <2>3. /\ guesses' \in [0..Window - 1 -> Nat]
          /\ \A i \in 0..Window - 1 : guesses'[i] = guesses[i] + 1 /\ guesses[i] \in Nat
      <3>1. guesses \in [0..Window - 1 -> Nat]
        BY DEF Types
      <3> QED
        BY <1>4, <3>1
    <2>4. HitsType'
      BY <1>4, <2>1 DEF HitsType
    <2>5. Types'
      BY <1>1, <2>2, <2>3, <2>4 DEF Types
    <2>6. ReportedWhenOver'
      BY <1>1, <1>2, <2>2, ReportStays
    <2>7. FailsInv'
      <3>1. Keys' = Keys \ {q} /\ q \in Keys
        BY <1>1, <2>2 DEF Keys
      <3>2. Cardinality(Keys') = Cardinality(Keys) - 1
        BY <3>1, KeysCount, FS_RemoveElement
      <3>3. b.fails + Cardinality(Keys') < MaxFails + Cardinality(Conn)
        BY <2>1, <3>2, KeysCount, CurrentBucketFails
      <3> QED
        BY <1>4, <3>3 DEF FailsInv
    <2> HIDE DEF b
    <2>8. GuessInv'
      <3>1. Counted(CurrentBucket)
        BY CurrentBucketCounts
      <3>2. Window - 1 \in 0..Window - 1 /\ (b.left > 0 => Window - b.left \in 0..Window - 1)
        BY <2>1
      <3>3. Limit \in Nat
        BY KeysCount DEF Limit
      <3>4. Limit' = Limit
        BY DEF Limit
      <3>5. ASSUME NEW c \in hits'
            PROVE  Counted(c)'
        <4>1. c = b
          BY <1>4 DEF b
        <4>2. guesses'[Window - 1] = guesses[Window - 1] + 1 /\ guesses[Window - 1] \in Nat
          BY <2>3, <3>2
        <4>3. CASE b.left > 0
          <5>1. /\ guesses'[Window - b.left] = guesses[Window - b.left] + 1
                /\ guesses[Window - b.left] \in Nat
            BY <2>3, <3>2, <4>3
          <5>2. /\ guesses[Window - b.left] <= CurrentBucket.fails
                /\ guesses[Window - 1] <= guesses[Window - b.left] + Limit
            BY <2>1, <3>1, <4>3 DEF Counted
          <5>3. /\ guesses'[Window - b.left] <= b.fails
                /\ guesses'[Window - 1] <= guesses'[Window - b.left] + Limit
            BY <2>1, <3>3, <4>2, <5>1, <5>2
          <5>4. ~(b.left <= 0) /\ ~(b.left < 0)
            BY <2>1, <4>3
          <5> QED
            BY <3>4, <4>1, <5>3, <5>4 DEF Counted
        <4>4. CASE b.left <= 0
          <5>1. ~(b.left > 0) /\ ~(b.left < 0)
            BY <2>1, <4>4
          <5>2. guesses[Window - 1] <= CurrentBucket.fails
            BY <2>1, <3>1, <4>4 DEF Counted
          <5>3. guesses'[Window - 1] <= b.fails
            BY <2>1, <4>2, <5>2
          <5> QED
            BY <4>1, <5>1, <5>3 DEF Counted
        <4> QED
          BY <2>1, <4>3, <4>4
      <3>6. \A i, j \in 0..Window - 1 : i <= j => guesses'[i] <= guesses'[j]
        <4> SUFFICES ASSUME NEW i \in 0..Window - 1, NEW j \in 0..Window - 1, i <= j
                     PROVE  guesses'[i] <= guesses'[j]
          OBVIOUS
        <4>1. guesses[i] <= guesses[j]
          BY DEF GuessInv
        <4>2. /\ guesses'[i] = guesses[i] + 1 /\ guesses[i] \in Nat
              /\ guesses'[j] = guesses[j] + 1 /\ guesses[j] \in Nat
          BY <2>3
        <4> QED
          BY <4>1, <4>2
      <3> QED
        BY <1>4, <3>5, <3>6 DEF GuessInv
    <2> QED
      BY <1>2, <2>5, <2>6, <2>7, <2>8
  <1> QED
    BY <1>3, <1>4 DEF CheckKey

\* Time passes.
LEMMA TickStep ==
  ASSUME IInv, Tick
  PROVE  IInv'
  <1> USE DEF IInv
  <1>1. UNCHANGED <<conn, client, inst>>
    BY DEF Tick
  <1>2. /\ guesses \in [0..Window - 1 -> Nat] /\ guesses' \in [0..Window - 1 -> Nat]
        /\ \A i \in 0..Window - 1 :
             guesses'[i] = IF i = 0 THEN 0 ELSE guesses[i - 1]
    <2>1. guesses \in [0..Window - 1 -> Nat]
      BY DEF Types
    <2>2. \A i \in 0..Window - 1 : i # 0 => i - 1 \in 0..Window - 1
      OBVIOUS
    <2> QED
      BY <2>1, <2>2 DEF Tick
  <1>3. \A i, j \in 0..Window - 1 : i <= j => guesses'[i] <= guesses'[j]
    <2> SUFFICES ASSUME NEW i \in 0..Window - 1, NEW j \in 0..Window - 1, i <= j
                 PROVE  guesses'[i] <= guesses'[j]
      OBVIOUS
    <2>1. CASE i = 0
      <3>1. guesses'[i] = 0 /\ guesses'[j] \in Nat
        BY <1>2, <2>1
      <3> QED
        BY <3>1
    <2>2. CASE i # 0
      <3>1. i - 1 \in 0..Window - 1 /\ j - 1 \in 0..Window - 1 /\ i - 1 <= j - 1 /\ j # 0
        BY <2>2
      <3> QED
        BY <1>2, <2>2, <3>1 DEF GuessInv
    <2> QED
      BY <2>1, <2>2
  <1>4. HitsType' /\ FailsInv' /\ GuessInv'
    <2>1. CASE hits = {}
      <3>1. hits' = {}
        BY <2>1 DEF Tick
      <3>2. \A i \in 0..Window - 1 : guesses'[i] = 0
        <4>1. \A i \in 0..Window - 1 : i # 0 => i - 1 \in 0..Window - 1
          OBVIOUS
        <4> QED
          BY <1>2, <2>1, <4>1 DEF GuessInv
      <3> QED
        BY <1>3, <3>1, <3>2 DEF HitsType, FailsInv, GuessInv
    <2>2. CASE hits # {}
      <3>1. PICK b \in Bucket : hits = {b}
        BY <2>2 DEF Types, HitsType
      <3> DEFINE n == [b EXCEPT !.left = IF @ < 0 THEN @ ELSE @ - 1]
      <3>2. b.left \in -1..Window /\ b.fails \in Nat
        BY DEF Bucket
      <3>3. /\ n \in Bucket /\ n.fails = b.fails
            /\ n.left = IF b.left < 0 THEN b.left ELSE b.left - 1
        <4>1. (IF b.left < 0 THEN b.left ELSE b.left - 1) \in -1..Window
          BY <3>2
        <4> QED
          BY <4>1 DEF Bucket
      <3>4. hits' = {n}
        BY <3>1 DEF Tick
      <3> HIDE DEF n
      <3>5. HitsType'
        BY <3>3, <3>4 DEF HitsType
      <3>6. Keys' = Keys
        BY <1>1 DEF Keys
      <3>7. FailsInv'
        BY <3>1, <3>3, <3>4, <3>6 DEF FailsInv
      <3>8. Counted(n)'
        <4>1. Counted(b) /\ Limit' = Limit /\ Limit \in Nat
          BY <3>1, KeysCount DEF GuessInv, Limit
        <4>2. /\ guesses[Window - 1] \in Nat /\ guesses'[Window - 1] \in Nat
              /\ guesses'[Window - 1] <= guesses[Window - 1]
          <5>1. /\ Window - 1 \in 0..Window - 1
                /\ Window - 1 # 0 => (Window - 1) - 1 \in 0..Window - 1
            OBVIOUS
          <5>2. guesses[Window - 1] \in Nat /\ guesses'[Window - 1] \in Nat
            BY <1>2, <5>1
          <5>3. CASE Window - 1 = 0
            <6>1. guesses'[Window - 1] = 0
              BY <1>2, <5>1, <5>3
            <6> QED
              BY <5>2, <6>1
          <5>4. CASE Window - 1 # 0
            <6>1. guesses'[Window - 1] = guesses[(Window - 1) - 1]
              BY <1>2, <5>1, <5>4
            <6>2. guesses[(Window - 1) - 1] <= guesses[Window - 1]
              <7>1. (Window - 1) - 1 <= Window - 1
                OBVIOUS
              <7> QED
                BY <5>1, <5>4, <7>1 DEF GuessInv
            <6> QED
              BY <5>2, <6>1, <6>2
          <5> QED
            BY <5>3, <5>4
        <4>3. guesses'[0] = 0
          BY <1>2
        <4>4. CASE b.left > 1
          <5>1. /\ n.left = b.left - 1 /\ n.left > 0
                /\ Window - n.left \in 0..Window - 1 /\ Window - n.left # 0
                /\ (Window - n.left) - 1 = Window - b.left
                /\ Window - b.left \in 0..Window - 1
            BY <3>2, <3>3, <4>4
          <5>2. guesses'[Window - n.left] = guesses[Window - b.left]
            BY <1>2, <5>1
          <5>3. /\ guesses[Window - b.left] <= b.fails
                /\ guesses[Window - 1] <= guesses[Window - b.left] + Limit
            BY <3>2, <4>1, <4>4 DEF Counted
          <5>4. guesses[Window - b.left] \in Nat
            BY <1>2, <5>1
          <5>5. /\ guesses'[Window - n.left] <= n.fails
                /\ guesses'[Window - 1] <= guesses'[Window - n.left] + Limit
            BY <3>3, <4>1, <4>2, <5>2, <5>3, <5>4
          <5>6. ~(n.left <= 0) /\ ~(n.left < 0)
            BY <3>2, <5>1
          <5> QED
            BY <4>1, <5>5, <5>6 DEF Counted
        <4>5. CASE b.left <= 1
          <5>1. n.left <= 0 /\ ~(n.left > 0)
            BY <3>2, <3>3, <4>5
          <5>2. guesses[Window - 1] <= b.fails
            <6>1. CASE b.left = 1
              <7>1. Window - b.left = Window - 1
                BY <6>1
              <7> QED
                BY <4>1, <6>1, <7>1 DEF Counted
            <6>2. CASE b.left # 1
              <7>1. b.left <= 0
                BY <3>2, <4>5, <6>2
              <7> QED
                BY <4>1, <7>1 DEF Counted
            <6> QED
              BY <6>1, <6>2
          <5>3. guesses'[Window - 1] <= n.fails
            BY <3>2, <3>3, <4>2, <5>2
          <5> QED
            BY <4>3, <5>1, <5>3 DEF Counted
        <4> QED
          BY <3>2, <4>4, <4>5
      <3>9. GuessInv'
        <4>1. ASSUME NEW c \in hits'
              PROVE  Counted(c)'
          BY <3>4, <3>8, <4>1 DEF Counted
        <4> QED
          BY <1>3, <3>4, <4>1 DEF GuessInv
      <3> QED
        BY <3>5, <3>7, <3>9
    <2> QED
      BY <2>1, <2>2
  <1>5. Types'
    BY <1>1, <1>2, <1>4 DEF Types
  <1>6. StageInv' /\ ReportedWhenOver'
    BY <1>1 DEF StageInv, Told, ReportedWhenOver
  <1> QED
    BY <1>4, <1>5, <1>6

\* The health check.
LEMMA HealthStep ==
  ASSUME IInv, NEW q \in Conn, Health(q)
  PROVE  IInv'
  BY AnswerStep DEF Health

\* The row is read, and synced unless it is being provisioned or deleted: it says that the
\* instance runs only when its provisioning is over or an operation said so.
LEMMA GetInstanceStep ==
  ASSUME IInv, NEW q \in Conn, GetInstance(q)
  PROVE  IInv'
  <1> USE DEF IInv
  <1>1. UNCHANGED <<hits, guesses>>
    BY DEF GetInstance
  <1>2. CASE Answer(q, 404, NoView) /\ UNCHANGED inst
    BY <1>1, <1>2, AnswerStep
  <1>3. CASE /\ ~Absent
             /\ \E seen \in Synced, ports \in {FALSE, Made} :
                  /\ inst' \in {inst, seen}
                  /\ Answer(q, 200, [status |-> seen.status, ports |-> ports])
    <2>1. PICK seen \in Synced, ports \in {FALSE, Made} :
            /\ inst' \in {inst, seen}
            /\ Answer(q, 200, [status |-> seen.status, ports |-> ports])
      BY <1>3
    <2> DEFINE view == [status |-> seen.status, ports |-> ports]
    <2>2. /\ conn' \in [Conn -> Request]
          /\ conn'[q].at = "idle" /\ \A p \in Conn \ {q} : conn'[p] = conn[p]
          /\ client' \in [Client -> Waiter]
          /\ \A d \in Client : client'[d].told = "running" =>
               client[d].told = "running" \/ (view.status = "running" /\ view.ports)
      BY <2>1, AnswerType
    <2>3. /\ seen \in Row /\ seen.prov = inst.prov /\ seen.early = inst.early
          /\ seen.status = "none" <=> inst.status = "none"
          /\ seen.status \in {"running", "stopped", "error"} => Told
      <3>1. CASE seen = inst
        BY <3>1 DEF Types, StageInv
      <3>2. CASE seen # inst
        <4>1. PICK t \in {"running", "stopped"} : seen = [inst EXCEPT !.status = t]
          BY <3>2 DEF Synced
        <4>2. inst.status \in {"running", "stopped", "error"}
          BY <1>3, <3>2 DEF Synced, Absent, Types, Row, Status
        <4>3. seen \in Row /\ seen.prov = inst.prov /\ seen.early = inst.early /\ seen.status = t
          BY <4>1 DEF Types, Row, Status
        <4> QED
          BY <4>2, <4>3 DEF StageInv
      <3> QED
        BY <3>1, <3>2
    <2>4. inst' \in Row /\ StageInv' /\ Told' = Told
      BY <2>1, <2>3 DEF StageInv, Told, Types
    <2>5. Types'
      BY <1>1, <2>2, <2>4 DEF Types, HitsType
    <2>6. ReportedWhenOver'
      BY <2>2, <2>3, <2>4, ReportStays
    <2>7. Keys' \subseteq Keys
      BY <2>2 DEF Keys
    <2>8. FailsInv' /\ GuessInv'
      BY <1>1, <2>7, FailsStay
    <2> QED
      BY <2>4, <2>5, <2>6, <2>8
  <1> QED
    BY <1>2, <1>3 DEF GetInstance

\* The name is looked up.
LEMMA CreateInstanceStep ==
  ASSUME IInv, NEW q \in Conn, CreateInstance(q)
  PROVE  IInv'
  <1> USE DEF IInv
  <1>1. UNCHANGED <<hits, inst, guesses>>
    BY DEF CreateInstance
  <1>2. CASE Answer(q, 409, NoView) \/ Answer(q, 500, NoView)
    BY <1>1, <1>2, AnswerStep
  <1>3. CASE conn' = [conn EXCEPT ![q].at = "insert"] /\ UNCHANGED client
    <2>1. /\ conn' \in [Conn -> Request]
          /\ conn'[q].at = "insert" /\ \A p \in Conn \ {q} : conn'[p] = conn[p]
      BY <1>3, GoesOn
    <2>2. Types'
      BY <1>1, <1>3, <2>1 DEF Types, HitsType
    <2>3. StageInv' /\ ReportedWhenOver'
      BY <1>1, <1>3 DEF StageInv, Told, ReportedWhenOver
    <2>4. Keys' \subseteq Keys
      BY <2>1 DEF Keys
    <2> QED
      BY <1>1, <2>2, <2>3, <2>4, FailsStay
  <1> QED
    BY <1>2, <1>3 DEF CreateInstance

\* The row is stored, and its provisioning begins.
LEMMA InsertStep ==
  ASSUME IInv, NEW q \in Conn, Insert(q)
  PROVE  IInv'
  <1> USE DEF IInv
  <1>1. UNCHANGED <<hits, guesses>>
    BY DEF Insert
  <1>2. CASE Answer(q, 500, NoView) /\ UNCHANGED inst
    BY <1>1, <1>2, AnswerStep
  <1>3. CASE /\ inst.status = "none"
             /\ inst' = [inst EXCEPT !.status = "pending", !.prov = "begin"]
             /\ Answer(q, 202, NoView)
    <2>1. /\ conn' \in [Conn -> Request]
          /\ conn'[q].at = "idle" /\ \A p \in Conn \ {q} : conn'[p] = conn[p]
          /\ client' \in [Client -> Waiter]
          /\ \A d \in Client : client'[d].told = "running" => client[d].told = "running"
      BY <1>3, NoViewType
    <2>2. inst' = [inst EXCEPT !.status = "pending", !.prov = "begin"] /\ inst \in Row
      BY <1>3 DEF Types
    <2>3. inst' \in Row /\ StageInv' /\ (Told => Told')
      <3>1. inst' \in Row /\ inst'.status = "pending" /\ inst'.prov = "begin"
            /\ inst'.early = inst.early
        BY <2>2 DEF Row, Status
      <3>2. inst.prov = "none"
        BY <1>3 DEF StageInv
      <3> QED
        BY <3>1, <3>2 DEF StageInv, Told
    <2>4. Types'
      BY <1>1, <2>1, <2>3 DEF Types, HitsType
    <2>5. ReportedWhenOver'
      BY <2>1, <2>3, ReportStays
    <2>6. Keys' \subseteq Keys
      BY <2>1 DEF Keys
    <2>7. FailsInv' /\ GuessInv'
      BY <1>1, <2>6, FailsStay
    <2> QED
      BY <2>3, <2>4, <2>5, <2>7
  <1> QED
    BY <1>2, <1>3 DEF Insert

\* The status and the provisioning change, beside the requests.
LEMMA BesideStep ==
  ASSUME IInv, UNCHANGED <<hits, conn, client, guesses>>, inst' \in Row, StageInv', Told => Told'
  PROVE  IInv'
  <1> USE DEF IInv
  <1>1. Types'
    BY DEF Types, HitsType
  <1>2. ReportedWhenOver'
    BY ReportStays
  <1>3. FailsInv' /\ GuessInv'
    BY FailsStay DEF Keys
  <1> QED
    BY <1>1, <1>2, <1>3

\* Provisioning begins, and ends.
LEMMA ProvisionStep ==
  ASSUME IInv, Provision
  PROVE  IInv'
  <1> USE DEF IInv
  <1>1. inst \in Row /\ inst.prov \in {"begin", "busy"} /\ inst.status # "none"
    BY DEF Provision, Types, StageInv
  <1>2. PICK prov \in {"busy", "over"}, status \in Status \ {"none"} :
          /\ inst' = [inst EXCEPT !.prov = prov, !.status = status]
          /\ status \in {"running", "error"} => prov = "over" \/ status = inst.status
          /\ status = "stopped" => status = inst.status
    <2>1. ASSUME NEW prov, NEW t, inst' \in Written([inst EXCEPT !.prov = prov], t)
          PROVE  \E status \in {inst.status, t} :
                   inst' = [inst EXCEPT !.prov = prov, !.status = status]
      BY <1>1, <2>1 DEF Written, Row
    <2>2. CASE inst.prov = "begin"
      <3>1. PICK status \in {inst.status, "creating"} :
              inst' = [inst EXCEPT !.prov = "busy", !.status = status]
        BY <2>1, <2>2 DEF Provision
      <3> QED
        BY <1>1, <2>2, <3>1 DEF Row, Status
    <2>3. CASE inst.prov = "busy"
      <3>1. PICK t \in {"running", "error"} : inst' \in Written([inst EXCEPT !.prov = "over"], t)
        BY <2>3 DEF Provision
      <3>2. PICK status \in {inst.status, t} :
              inst' = [inst EXCEPT !.prov = "over", !.status = status]
        BY <2>1, <3>1
      <3> QED
        BY <1>1, <3>1, <3>2 DEF Row, Status
    <2> QED
      BY <1>1, <2>2, <2>3
  <1>3. /\ inst' \in Row /\ inst'.prov = prov /\ inst'.status = status
        /\ inst'.early = inst.early
    BY <1>1, <1>2 DEF Row
  <1>4. StageInv' /\ (Told => Told')
    BY <1>1, <1>2, <1>3 DEF StageInv, Told
  <1> QED
    BY <1>3, <1>4, BesideStep DEF Provision

\* An operation writes the status: before provisioning is over that is remembered.
LEMMA RecordStep ==
  ASSUME IInv, Record
  PROVE  IInv'
  <1> USE DEF IInv
  <1>1. inst \in Row /\ inst.prov # "none"
    BY DEF Record, Made, Types
  <1>2. PICK status \in {"running", "stopped"} :
          inst' = [inst EXCEPT !.status = status, !.early = @ \/ inst.prov # "over"]
    BY DEF Record
  <1>3. /\ inst' \in Row /\ inst'.prov = inst.prov /\ inst'.status = status
        /\ inst'.early = (inst.early \/ inst.prov # "over")
    BY <1>1, <1>2 DEF Row, Status
  <1>4. StageInv' /\ (Told => Told')
    BY <1>1, <1>3 DEF StageInv, Told
  <1> QED
    BY <1>3, <1>4, BesideStep DEF Record

\* The instance is deleted.
LEMMA DeleteStep ==
  ASSUME IInv, Delete
  PROVE  IInv'
  <1> USE DEF IInv
  <1>1. inst \in Row /\ inst.prov # "none"
    BY DEF Delete, Types, StageInv
  <1>2. PICK status \in {"deleting", "deleted"} : inst' = [inst EXCEPT !.status = status]
    BY DEF Delete
  <1>3. /\ inst' \in Row /\ inst'.prov = inst.prov /\ inst'.status = status
        /\ inst'.early = inst.early
    BY <1>1, <1>2 DEF Row, Status
  <1>4. StageInv' /\ (Told => Told')
    BY <1>1, <1>3 DEF StageInv, Told
  <1> QED
    BY <1>3, <1>4, BesideStep DEF Delete

------------------------------------------------------------------------------
(***************************************************************************)
(* Theorems.                                                               *)
(***************************************************************************)

\* Nobody has asked for anything.
LEMMA InitInv ==
  ASSUME Init
  PROVE  IInv
  <1>1. Types
    <2>1. Idle \in Request
      BY DEF Idle, Request
    <2>2. [at |-> "idle", polls |-> 0, told |-> "none"] \in Waiter
      BY DEF Waiter
    <2>3. inst \in Row
      BY DEF Init, Row, Status
    <2> QED
      BY <2>1, <2>2, <2>3 DEF Init, Types, HitsType
  <1>2. StageInv /\ ReportedWhenOver /\ FailsInv /\ GuessInv
    BY DEF Init, StageInv, ReportedWhenOver, FailsInv, GuessInv
  <1> QED
    BY <1>1, <1>2 DEF IInv

\* Every step keeps the inductive invariant.
LEMMA NextInv ==
  ASSUME IInv, [Next]_vars
  PROVE  IInv'
  <1>1. CASE \E c \in Client : \/ Deadline(c) \/ Timeout(c)
                               \/ \E q \in Conn : RunCreate(c, q) \/ Poll(c, q)
    BY <1>1, DeadlineStep, TimeoutStep, RunCreateStep, PollStep
  <1>2. CASE \E q \in Conn : Serve(q)
    BY <1>2, BlockedStep, CheckKeyStep, HealthStep, GetInstanceStep, CreateInstanceStep,
       InsertStep DEF Serve
  <1>3. CASE \E q \in Conn, kind \in {"health", "get"}, good \in BOOLEAN : Call(q, kind, good)
    BY <1>3, CallStep
  <1>4. CASE Provision \/ Record \/ Delete
    BY <1>4, ProvisionStep, RecordStep, DeleteStep
  <1>5. CASE Tick
    BY <1>5, TickStep
  <1>6. CASE UNCHANGED vars
    <2>1. Types' /\ StageInv' /\ ReportedWhenOver'
      BY <1>6 DEF IInv, Types, HitsType, StageInv, Told, ReportedWhenOver, vars
    <2>2. FailsInv' /\ GuessInv'
      BY <1>6, FailsStay DEF IInv, Keys, vars
    <2> QED
      BY <2>1, <2>2 DEF IInv
  <1> QED
    BY <1>1, <1>2, <1>3, <1>4, <1>5, <1>6 DEF Next

\* The inductive invariant holds always.
THEOREM Invariance == Spec => []IInv
  BY InitInv, NextInv, PTL DEF Spec

\* The variables have their types; in particular an address never has two buckets.
THEOREM TypeCorrect == Spec => []TypeOK
  <1>1. IInv => TypeOK
    BY TypesType DEF IInv
  <1> QED
    BY <1>1, Invariance, PTL

\* goincus create reports a running instance only when provision is over, whoever reads and
\* syncs the row in between, unless start, repair, restart, stop or reset-password wrote its
\* status before.
THEOREM Reported == Spec => []ReportedWhenOver
  BY Invariance, PTL DEF IInv

\* Failures are counted after the limiter has let a request pass: a bucket exceeds its limit
\* by at most the requests on the other connections.
THEOREM Limited == Spec => []FailsBounded
  <1>1. ASSUME IInv
        PROVE  FailsBounded
    <2>1. ASSUME NEW b \in hits
          PROVE  b.fails < MaxFails + Cardinality(Conn)
      <3>1. b.fails + Cardinality(Keys) < MaxFails + Cardinality(Conn) /\ b.fails \in Nat
        BY <1>1 DEF IInv, FailsInv, Types, HitsType, Bucket
      <3> QED
        BY <3>1, KeysCount
    <2> QED
      BY <2>1 DEF FailsBounded
  <1> QED
    BY <1>1, Invariance, PTL

\* Between two accepted keys no stretch of a window's length sees more keys refused than two
\* buckets can count: the one that there is, and the one before it.
THEOREM Guessed == Spec => []GuessesBounded
  <1>1. ASSUME IInv
        PROVE  GuessesBounded
    <2>1. Limit \in Nat /\ Limit = MaxFails + Cardinality(Conn) - 1
      BY KeysCount DEF Limit
    <2>2. guesses[Window - 1] \in Nat
      <3>1. Window - 1 \in 0..Window - 1
        OBVIOUS
      <3> QED
        BY <1>1, <3>1 DEF IInv, Types
    <2>3. CASE hits = {}
      <3>1. Window - 1 \in 0..Window - 1
        OBVIOUS
      <3>2. guesses[Window - 1] = 0
        BY <1>1, <2>3, <3>1 DEF IInv, GuessInv
      <3> QED
        BY <2>1, <3>2 DEF GuessesBounded
    <2>4. CASE hits # {}
      <3>1. PICK b \in Bucket : hits = {b}
        BY <1>1, <2>4 DEF IInv, Types, HitsType
      <3>2. b.left \in -1..Window /\ b.fails \in Nat
        BY DEF Bucket
      <3>3. b.fails <= Limit
        <4>1. b.fails + Cardinality(Keys) < MaxFails + Cardinality(Conn)
          BY <1>1, <3>1 DEF IInv, FailsInv
        <4> QED
          BY <2>1, <3>2, <4>1, KeysCount
      <3>4. Counted(b)
        BY <1>1, <3>1 DEF IInv, GuessInv
      <3>5. CASE b.left > 0
        <4>1. Window - b.left \in 0..Window - 1
          BY <3>2, <3>5
        <4>2. guesses[Window - b.left] \in Nat
          BY <1>1, <4>1 DEF IInv, Types
        <4>3. guesses[Window - b.left] <= b.fails
              /\ guesses[Window - 1] <= guesses[Window - b.left] + Limit
          BY <3>4, <3>5 DEF Counted
        <4>4. guesses[Window - 1] <= 2 * Limit
          BY <2>1, <2>2, <3>2, <3>3, <4>2, <4>3
        <4> QED
          BY <2>1, <4>4 DEF GuessesBounded
      <3>6. CASE b.left <= 0
        <4>1. guesses[Window - 1] <= b.fails
          BY <3>4, <3>6 DEF Counted
        <4>2. guesses[Window - 1] <= 2 * Limit
          BY <2>1, <2>2, <3>2, <3>3, <4>1
        <4> QED
          BY <2>1, <4>2 DEF GuessesBounded
      <3> QED
        BY <3>2, <3>5, <3>6
    <2> QED
      BY <2>3, <2>4
  <1> QED
    BY <1>1, Invariance, PTL
==============================================================================

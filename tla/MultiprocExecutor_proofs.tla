---------------------- MODULE MultiprocExecutor_proofs ----------------------
(***************************************************************************)
(* Proofs about MultiprocExecutor: the inductive invariant of its queues   *)
(* and its workers, that every action preserves it, and the theorems that  *)
(* rest on it.                                                             *)
(***************************************************************************)
EXTENDS MultiprocExecutor, TLAPS

\* What a worker has still to take, in order.
Untaken(w) == pipe[w] \o buffer[w]

\* The result being dispatched has not been put for w yet.
Unput(w) == (engine = "put" /\ rank <= w) \/ (engine = "spin" /\ rank < w)

\* How many of encoderReqIds have been put for w.
SentTo(w) == IF Unput(w) THEN Len(encoderReqIds) - 1 ELSE Len(encoderReqIds)

\* q is the end of the first n elements of ids.
EndOf(q, ids, n) ==
    /\ n \in 0 .. Len(ids) /\ Len(q) <= n
    /\ \A i \in 1 .. Len(q) : q[i] = ids[n - Len(q) + i]

InStep == call.method = "execute_model"

\* The worker has entered the step's execute_model.
Through(w) == InStep /\ worker[w] \in {"run", "idle"}

InIds(r) == \E i \in 1 .. Len(encoderReqIds) : encoderReqIds[i] = r

\* Where the engine and the workers are together.
Control ==
    /\ engine \in {"put", "spin"} => encoderReqIds # <<>>
    /\ engine \in {"idle", "put", "spin"} =>
            call = NoCall /\ \A w \in Workers : worker[w] = "idle" /\ response[w] = "none"
    /\ engine = "collect" => \A w \in Workers :
            IF w < rank THEN worker[w] = "idle" ELSE worker[w] = "idle" <=> response[w] # "none"
    /\ engine = "collect" => \A w \in Workers : w < rank => response[w] = "none"
    /\ \A w \in Workers : worker[w] \in {"drain", "wait"} => InStep
    /\ ~InStep => call.needs = {} /\ Dropped = {}

\* The queues: outside a step nothing has been taken, past the loops of a step
\* everything, and in between no more is left than ids are left to look at.
Queues ==
    \A w \in Workers :
        /\ EndOf(Untaken(w), encoderReqIds, SentTo(w))
        /\ ~InStep => Len(Untaken(w)) = SentTo(w)
        /\ Through(w) => Len(Untaken(w)) = 0
        /\ worker[w] \in {"drain", "wait"} =>
                /\ EndOf(remaining[w], encoderReqIds, Len(encoderReqIds))
                /\ Len(Untaken(w)) <= Len(remaining[w])

\* A result is dispatched once.
Fresh ==
    /\ \A i, j \in 1 .. Len(encoderReqIds) : encoderReqIds[i] = encoderReqIds[j] => i = j
    /\ \A i \in 1 .. Len(encoderReqIds) : encoderReqIds[i] \in handed
    /\ \A w \in Workers : cache[w] \subseteq handed

\* Of the new results a worker holds the ones it has taken.
Held ==
    \A w \in Workers :
        /\ Through(w) => cache[w] \cap Dropped = {}
        /\ \A i \in 1 .. Len(encoderReqIds) :
                IF Through(w) THEN encoderReqIds[i] \in cache[w] \cup Dropped
                ELSE encoderReqIds[i] \in cache[w] <=> i <= SentTo(w) - Len(Untaken(w))

\* Of the old ones all hold the same, but for what the step drops.
Agree ==
    \A v, w \in Workers, r \in Requests :
        r \notin Dropped /\ ~InIds(r) => (r \in cache[v] <=> r \in cache[w])

\* What the scheduler knows of a request and where its outputs are: a worker
\* has a dispatched result to come, or holds it, until it is told to drop it.
Stages ==
    \A r \in Requests :
        /\ stage[r] \in {"ready", "done"} \/ r \in told => r \in handed
        /\ r \in finishedReqIds => stage[r] = "finished"
        /\ r \in freed => stage[r] \in {"done", "finished"}
        /\ r \in call.needs => stage[r] = "ready" /\ r \notin Dropped
        /\ r \in Dropped \cap handed => r \in told
        /\ r \in handed \ told => InIds(r) \/ \A w \in Workers : r \in cache[w]
        /\ r \in told \ Dropped => ~InIds(r) /\ \A w \in Workers : r \notin cache[w]
        /\ InIds(r) \/ (\E w \in Workers : r \in cache[w]) =>
                stage[r] = "ready" \/ r \in finishedReqIds \cup freed \cup missed \cup Dropped

IInv == ExecTypeOK /\ Control /\ Queues /\ Fresh /\ Held /\ Agree /\ Stages

----------------------------------------------------------------------------
(* Sequences *)

\* Sequences with the same elements at the same places are the same.
LEMMA EqualLemma ==
    ASSUME NEW S, NEW s \in Seq(S), NEW t \in Seq(S), Len(s) = Len(t),
           \A i \in 1 .. Len(s) : s[i] = t[i]
    PROVE  s = t
OBVIOUS

\* The elements of a concatenation.
LEMMA JoinedLemma ==
    ASSUME NEW S, NEW s \in Seq(S), NEW t \in Seq(S)
    PROVE  /\ s \o t \in Seq(S) /\ Len(s \o t) = Len(s) + Len(t)
           /\ \A i \in 1 .. Len(s) + Len(t) :
                 (s \o t)[i] = IF i <= Len(s) THEN s[i] ELSE t[i - Len(s)]
OBVIOUS

\* Concatenation is associative.
LEMMA JoinAssociative ==
    ASSUME NEW S, NEW s \in Seq(S), NEW t \in Seq(S), NEW u \in Seq(S)
    PROVE  (s \o t) \o u = s \o (t \o u)
<1> DEFINE l == (s \o t) \o u
           r == s \o (t \o u)
<1>1. l \in Seq(S) /\ r \in Seq(S) /\ Len(l) = Len(r)
  OBVIOUS
<1>2. \A i \in 1 .. Len(l) : l[i] = r[i]
  OBVIOUS
<1> QED  BY <1>1, <1>2, EqualLemma, Zenon

\* An element appended.
LEMMA AppendLemma ==
    ASSUME NEW S, NEW s \in Seq(S), NEW e \in S
    PROVE  /\ Append(s, e) \in Seq(S) /\ Append(s, e) # <<>> /\ Append(s, e) = s \o <<e>>
           /\ Len(Append(s, e)) = Len(s) + 1 /\ Append(s, e)[Len(s) + 1] = e
           /\ \A i \in 1 .. Len(s) : Append(s, e)[i] = s[i]
<1>1. /\ Append(s, e) \in Seq(S) /\ Append(s, e) # <<>>
      /\ Len(Append(s, e)) = Len(s) + 1 /\ Append(s, e)[Len(s) + 1] = e
      /\ \A i \in 1 .. Len(s) : Append(s, e)[i] = s[i]
  OBVIOUS
<1>2. Append(s, e) = s \o <<e>>
  OBVIOUS
<1> QED  BY <1>1, <1>2, Zenon

\* A sequence is its head and its tail.
LEMMA HeadAndTail ==
    ASSUME NEW S, NEW b \in Seq(S), b # <<>>
    PROVE  /\ Head(b) \in S /\ Tail(b) \in Seq(S) /\ <<Head(b)>> \in Seq(S)
           /\ <<Head(b)>> \o Tail(b) = b
<1> DEFINE t == <<Head(b)>> \o Tail(b)
<1>1. Head(b) \in S /\ Tail(b) \in Seq(S) /\ <<Head(b)>> \in Seq(S)
  OBVIOUS
<1>2. t \in Seq(S) /\ Len(t) = Len(b)
  OBVIOUS
<1>3. \A i \in 1 .. Len(t) : t[i] = b[i]
  OBVIOUS
<1>4. t = b
  BY <1>2, <1>3, EqualLemma, Zenon
<1> QED  BY <1>1, <1>4, Zenon

\* What the feeder thread moves leaves the queue as a whole as it is.
LEMMA FeedSequence ==
    ASSUME NEW S, NEW p \in Seq(S), NEW b \in Seq(S), b # <<>>
    PROVE  Append(p, Head(b)) \o Tail(b) = p \o b
<1>1. /\ Head(b) \in S /\ Tail(b) \in Seq(S) /\ <<Head(b)>> \in Seq(S)
      /\ <<Head(b)>> \o Tail(b) = b
  BY HeadAndTail, Zenon
<1>2. Append(p, Head(b)) = p \o <<Head(b)>>
  BY <1>1, AppendLemma, Zenon
<1>3. (p \o <<Head(b)>>) \o Tail(b) = p \o (<<Head(b)>> \o Tail(b))
  BY <1>1, JoinAssociative
<1> QED  BY <1>1, <1>2, <1>3, Zenon

\* A first element is the head of what it begins.
LEMMA TailOfConcat ==
    ASSUME NEW S, NEW h \in S, NEW c \in Seq(S)
    PROVE  /\ <<h>> \o c # <<>> /\ Head(<<h>> \o c) = h
           /\ Tail(<<h>> \o c) = c
<1> DEFINE q == <<h>> \o c
<1>1. /\ q \in Seq(S) /\ Len(q) = Len(c) + 1 /\ q[1] = h
      /\ \A i \in 1 .. Len(c) : q[i + 1] = c[i]
  <2>1. <<h>> \in Seq(S) /\ Len(<<h>>) = 1 /\ <<h>>[1] = h /\ Len(c) \in Nat
    OBVIOUS
  <2>2. /\ q \in Seq(S) /\ Len(q) = 1 + Len(c)
        /\ \A i \in 1 .. 1 + Len(c) :
                q[i] = IF i <= 1 THEN <<h>>[i] ELSE c[i - 1]
    BY <2>1, JoinedLemma, Zenon
  <2> HIDE DEF q
  <2>3. ASSUME NEW i \in 1 .. Len(c) PROVE q[i + 1] = c[i]
    <3>1. i + 1 \in 1 .. 1 + Len(c) /\ ~(i + 1 <= 1) /\ (i + 1) - 1 = i
      BY <2>1
    <3> QED  BY <3>1, <2>2, Zenon
  <2>4. q[1] = h
    BY <2>1, <2>2
  <2> QED  BY <2>1, <2>2, <2>3, <2>4
<1> HIDE DEF q
<1>2. q # <<>> /\ Len(c) \in Nat
  BY <1>1
<1>3. /\ Tail(q) \in Seq(S) /\ Len(Tail(q)) = Len(c) /\ Head(q) = h
      /\ \A i \in 1 .. Len(c) : Tail(q)[i] = q[i + 1]
  BY <1>1, <1>2
<1>4. Tail(q) = c
  BY <1>1, <1>3, EqualLemma, Zenon
<1> QED  BY <1>2, <1>3, <1>4, Zenon DEF q

\* get() takes the head of the whole queue.
LEMMA GetSequence ==
    ASSUME NEW S, NEW p \in Seq(S), NEW b \in Seq(S), p # <<>>
    PROVE  /\ Tail(p) \o b = Tail(p \o b)
           /\ p \o b # <<>> /\ Head(p \o b) = Head(p)
<1>1. /\ Head(p) \in S /\ Tail(p) \in Seq(S) /\ <<Head(p)>> \in Seq(S)
      /\ <<Head(p)>> \o Tail(p) = p
  BY HeadAndTail, Zenon
<1>2. (<<Head(p)>> \o Tail(p)) \o b = <<Head(p)>> \o (Tail(p) \o b)
  BY <1>1, JoinAssociative
<1>3. Tail(p) \o b \in Seq(S)
  BY <1>1, JoinedLemma, Zenon
<1>4. p \o b = <<Head(p)>> \o (Tail(p) \o b)
  BY <1>1, <1>2, Zenon
<1> QED  BY <1>1, <1>3, <1>4, TailOfConcat

\* put() appends to the whole queue.
LEMMA PutSequence ==
    ASSUME NEW S, NEW p \in Seq(S), NEW b \in Seq(S), NEW x \in S
    PROVE  p \o Append(b, x) = Append(p \o b, x)
<1>1. p \o b \in Seq(S) /\ <<x>> \in Seq(S)
  BY JoinedLemma
<1>2. Append(b, x) = b \o <<x>> /\ Append(p \o b, x) = (p \o b) \o <<x>>
  BY <1>1, AppendLemma
<1>3. (p \o b) \o <<x>> = p \o (b \o <<x>>)
  BY <1>1, JoinAssociative
<1> QED  BY <1>2, <1>3, Zenon

\* Taking the head of an end of a sequence leaves an end.
LEMMA EndOfTail ==
    ASSUME NEW S, NEW ids \in Seq(S), NEW q \in Seq(S), NEW n, EndOf(q, ids, n), q # <<>>
    PROVE  /\ EndOf(Tail(q), ids, n) /\ Len(Tail(q)) = Len(q) - 1 /\ Len(q) \in Nat \ {0}
           /\ Tail(q) \in Seq(S)
           /\ n - Len(q) + 1 \in 1 .. Len(ids)
           /\ Head(q) = ids[n - Len(q) + 1]
<1>1. Len(q) \in Nat \ {0} /\ Len(ids) \in Nat /\ n \in 0 .. Len(ids) /\ Len(q) <= n
  BY DEF EndOf
<1>2. Tail(q) \in Seq(S) /\ Len(Tail(q)) = Len(q) - 1
  OBVIOUS
<1>3. \A i \in 1 .. Len(q) - 1 : Tail(q)[i] = q[i + 1]
  OBVIOUS
<1>4. \A i \in 1 .. Len(q) : q[i] = ids[n - Len(q) + i]
  BY Zenon DEF EndOf
<1>5. \A i \in 1 .. Len(q) - 1 : Tail(q)[i] = ids[n - (Len(q) - 1) + i]
  <2> SUFFICES ASSUME NEW i \in 1 .. Len(q) - 1
               PROVE  Tail(q)[i] = ids[n - (Len(q) - 1) + i]
    BY Zenon
  <2>1. i + 1 \in 1 .. Len(q) /\ n - Len(q) + (i + 1) = n - (Len(q) - 1) + i
    BY <1>1
  <2> QED  BY <2>1, <1>3, <1>4, Zenon
<1>6. EndOf(Tail(q), ids, n)
  BY <1>1, <1>2, <1>5 DEF EndOf
<1>7. Head(q) = ids[n - Len(q) + 1]
  BY <1>1, <1>4
<1> QED  BY <1>1, <1>2, <1>6, <1>7

\* The last id is put behind the others.
LEMMA EndOfAppend ==
    ASSUME NEW S, NEW ids \in Seq(S), NEW q \in Seq(S), ids # <<>>, EndOf(q, ids, Len(ids) - 1)
    PROVE  /\ EndOf(Append(q, Newest(ids)), ids, Len(ids))
           /\ Len(Append(q, Newest(ids))) = Len(q) + 1
           /\ Newest(ids) \in S
<1>1. Newest(ids) = ids[Len(ids)] /\ Len(ids) \in Nat \ {0} /\ Len(q) \in Nat
  BY DEF Newest
<1>2. Newest(ids) \in S
  BY <1>1
<1> DEFINE a == Append(q, Newest(ids))
<1>3. /\ Len(a) = Len(q) + 1 /\ a[Len(q) + 1] = ids[Len(ids)]
      /\ \A i \in 1 .. Len(q) : a[i] = q[i]
  BY <1>1, <1>2
<1> HIDE DEF a
<1>4. \A i \in 1 .. Len(q) : q[i] = ids[Len(ids) - 1 - Len(q) + i]
  BY Zenon DEF EndOf
<1>5. \A i \in 1 .. Len(a) : a[i] = ids[Len(ids) - Len(a) + i]
  <2> SUFFICES ASSUME NEW i \in 1 .. Len(a) PROVE a[i] = ids[Len(ids) - Len(a) + i]
    BY Zenon
  <2>1. CASE i = Len(q) + 1
    BY <2>1, <1>1, <1>3
  <2>2. CASE i <= Len(q)
    <3>1. Len(ids) - 1 - Len(q) + i = Len(ids) - Len(a) + i /\ i \in 1 .. Len(q)
      BY <2>2, <1>1, <1>3
    <3> QED  BY <3>1, <1>3, <1>4, Zenon
  <2> QED  BY <2>1, <2>2, <1>1, <1>3
<1>6. Len(q) <= Len(ids) - 1
  BY Zenon DEF EndOf
<1>7. EndOf(a, ids, Len(ids))
  BY <1>1, <1>3, <1>5, <1>6 DEF EndOf
<1> QED  BY <1>2, <1>3, <1>7, Zenon DEF a

\* An end of the first n elements remains one when an id is added.
LEMMA EndOfMore ==
    ASSUME NEW S, NEW ids \in Seq(S), NEW q \in Seq(S), NEW n, EndOf(q, ids, n), NEW x \in S
    PROVE  EndOf(q, Append(ids, x), n)
<1> DEFINE a == Append(ids, x)
<1>1. Len(a) = Len(ids) + 1 /\ Len(ids) \in Nat /\ Len(q) \in Nat
      /\ \A i \in 1 .. Len(ids) : a[i] = ids[i]
  OBVIOUS
<1> HIDE DEF a
<1>2. /\ n \in 0 .. Len(ids) /\ Len(q) <= n
      /\ \A i \in 1 .. Len(q) : q[i] = ids[n - Len(q) + i]
  BY Zenon DEF EndOf
<1>3. \A i \in 1 .. Len(q) : n - Len(q) + i \in 1 .. Len(ids)
  BY <1>1, <1>2
<1>4. \A i \in 1 .. Len(q) : q[i] = a[n - Len(q) + i]
  BY <1>1, <1>2, <1>3, Zenon
<1>5. n \in 0 .. Len(a)
  BY <1>1, <1>2
<1>6. EndOf(q, a, n)
  BY <1>2, <1>4, <1>5, Zenon DEF EndOf
<1> QED  BY <1>6, Zenon DEF a

\* An end as long as the sequence is the sequence.
LEMMA EndOfAll ==
    ASSUME NEW S, NEW ids \in Seq(S), NEW q \in Seq(S), EndOf(q, ids, Len(ids)),
           Len(q) = Len(ids)
    PROVE  q = ids
<1>1. Len(ids) \in Nat
  OBVIOUS
<1>2. \A i \in 1 .. Len(q) : q[i] = ids[i]
  BY <1>1 DEF EndOf
<1> QED  BY <1>2, EqualLemma, Zenon

\* A sequence is its own end, and so is the empty one.
LEMMA EndOfItself ==
    ASSUME NEW S, NEW ids \in Seq(S)
    PROVE  EndOf(ids, ids, Len(ids)) /\ EndOf(<<>>, ids, Len(ids))
<1>1. Len(ids) \in Nat
  OBVIOUS
<1> QED  BY <1>1 DEF EndOf

----------------------------------------------------------------------------
(* Facts of a state and of a step *)

\* The queue of a worker is a sequence, no longer than what it has been sent.
LEMMA QueueFacts ==
    ASSUME IInv, NEW w \in Workers
    PROVE  /\ Untaken(w) \in Seq(Requests) /\ Len(Untaken(w)) \in Nat
           /\ encoderReqIds \in Seq(Requests) /\ Len(encoderReqIds) \in Nat
           /\ EndOf(Untaken(w), encoderReqIds, SentTo(w))
           /\ SentTo(w) \in 0 .. Len(encoderReqIds) /\ Len(Untaken(w)) <= SentTo(w)
<1>1. pipe[w] \in Seq(Requests) /\ buffer[w] \in Seq(Requests) /\ encoderReqIds \in Seq(Requests)
  BY Zenon DEF IInv, ExecTypeOK
<1>2. Untaken(w) \in Seq(Requests)
  BY <1>1, JoinedLemma, Zenon DEF Untaken
<1>3. EndOf(Untaken(w), encoderReqIds, SentTo(w))
  BY Zenon DEF IInv, Queues
<1>4. SentTo(w) \in 0 .. Len(encoderReqIds) /\ Len(Untaken(w)) <= SentTo(w)
  BY <1>3, Zenon DEF EndOf
<1> QED  BY <1>1, <1>2, <1>3, <1>4

\* The engine is in no dispatch while the workers are in a step.
LEMMA StepFacts ==
    ASSUME IInv, InStep
    PROVE  /\ engine \in {"collect", "raised"}
           /\ \A w \in Workers : SentTo(w) = Len(encoderReqIds)
<1>1. engine \in {"collect", "raised"}
  BY DEF IInv, ExecTypeOK, Control, InStep, NoCall
<1> QED  BY <1>1, Zenon DEF SentTo, Unput

\* Outside a dispatch and a call nothing has been taken.
LEMMA IdleFacts ==
    ASSUME IInv, engine = "idle"
    PROVE  /\ call = NoCall /\ ~InStep /\ Dropped = {} /\ call.needs = {}
           /\ \A w \in Workers : /\ worker[w] = "idle" /\ response[w] = "none" /\ ~Through(w)
                                 /\ SentTo(w) = Len(encoderReqIds)
                                 /\ Len(Untaken(w)) = Len(encoderReqIds)
<1>1. /\ call = NoCall
      /\ \A w \in Workers : worker[w] = "idle" /\ response[w] = "none"
  BY Zenon DEF IInv, Control
<1>2. ~InStep
  BY <1>1, Zenon DEF InStep, NoCall
<1>3. \A w \in Workers : SentTo(w) = Len(encoderReqIds)
  BY Zenon DEF SentTo, Unput
<1>4. \A w \in Workers : Len(Untaken(w)) = Len(encoderReqIds)
  BY <1>2, <1>3 DEF IInv, Queues
<1>5. Dropped = {} /\ call.needs = {}
  BY <1>2, Zenon DEF IInv, Control
<1> QED  BY <1>1, <1>2, <1>3, <1>4, <1>5, Zenon DEF Through

\* A step of a worker or of a feeder leaves the state of the call as it is.
LEMMA SameCall ==
    ASSUME engine' = engine, rank' = rank, encoderReqIds' = encoderReqIds, call' = call
    PROVE  /\ \A w \in Workers : SentTo(w)' = SentTo(w)
           /\ InStep' <=> InStep
           /\ Dropped' = Dropped
           /\ \A r \in Requests : InIds(r)' <=> InIds(r)
  BY Zenon DEF SentTo, Unput, InStep, Dropped, InIds

\* The initial states.
LEMMA InitInv == ExecInit => IInv
<1> SUFFICES ASSUME ExecInit PROVE IInv
  BY Zenon
<1> USE ExecutorAssumption
<1>1. \A w \in Workers : pipe[w] = <<>> /\ buffer[w] = <<>> /\ Untaken(w) = <<>>
  BY DEF ExecInit, Untaken
<1>2. encoderReqIds = <<>> /\ Len(encoderReqIds) = 0 /\ encoderReqIds \in Seq(Requests)
  BY DEF ExecInit
<1>3. ExecTypeOK
  <2>1. \A w \in Workers : QueueLength(w) <= WorkerQueueSize
    <3>1. \A w \in Workers : QueueLength(w) = Len(<<>>) + Len(<<>>)
      BY <1>1, Zenon DEF QueueLength
    <3> QED  BY <3>1
  <2>2. rank \in Workers /\ <<>> \in Seq(Requests)
    BY DEF ExecInit, Workers
  <2>3. call \in [method : {"none", "execute_model", "profile"}, encoderReq : Seq(Requests),
                  needs : SUBSET Requests, finished : SUBSET Requests, freed : SUBSET Requests]
    BY <2>2, Zenon DEF ExecInit, NoCall
  <2>4. again \in BOOLEAN
    BY Zenon DEF ExecInit
  <2> QED  BY <2>1, <2>2, <2>3, <2>4, Zenon DEF ExecInit, ExecTypeOK
<1>4. Dropped = {} /\ ~InStep /\ call.needs = {} /\ call = NoCall
  BY Zenon DEF ExecInit, Dropped, InStep, NoCall
<1>5. Control
  BY <1>4, Zenon DEF ExecInit, Control
<1>6. \A w \in Workers : SentTo(w) = 0 /\ ~Through(w) /\ worker[w] = "idle" /\ cache[w] = {}
  BY <1>2, <1>4, Zenon DEF ExecInit, SentTo, Unput, Through
<1>7. EndOf(<<>>, encoderReqIds, 0)
  BY <1>2, EndOfItself, Zenon
<1>8. Queues
  BY <1>1, <1>2, <1>4, <1>6, <1>7, Zenon DEF Queues
<1>9. \A r \in Requests : ~InIds(r)
  BY <1>2 DEF InIds
<1>10. Fresh /\ Held /\ Agree
  BY <1>2, <1>4, <1>6 DEF Fresh, Held, Agree
<1>11. Stages
  BY <1>4, <1>6, <1>9, Zenon DEF ExecInit, Stages
<1> QED  BY <1>3, <1>5, <1>8, <1>10, <1>11, Zenon DEF IInv

----------------------------------------------------------------------------
(* The steps of the engine and of the feeders *)

\* The feeder moves a result within the queue.
LEMMA FeedInv == ASSUME IInv, NEW w \in Workers, Feed(w) PROVE IInv'
<1>1. /\ engine' = engine /\ rank' = rank /\ encoderReqIds' = encoderReqIds /\ call' = call
      /\ worker' = worker /\ remaining' = remaining /\ cache' = cache /\ joined' = joined
      /\ response' = response /\ stage' = stage /\ finishedReqIds' = finishedReqIds
      /\ freed' = freed /\ handed' = handed /\ missed' = missed /\ told' = told /\ again' = again
  BY Zenon DEF Feed, workerVars, requestVars, noticeVars
<1>2. /\ pipe \in [Workers -> Seq(Requests)] /\ buffer \in [Workers -> Seq(Requests)]
      /\ buffer[w] # <<>>
      /\ pipe' = [pipe EXCEPT ![w] = Append(pipe[w], Head(buffer[w]))]
      /\ buffer' = [buffer EXCEPT ![w] = Tail(buffer[w])]
  BY Zenon DEF IInv, ExecTypeOK, Feed
<1>3. /\ pipe[w] \in Seq(Requests) /\ buffer[w] \in Seq(Requests)
      /\ Head(buffer[w]) \in Requests /\ Tail(buffer[w]) \in Seq(Requests)
      /\ Len(Tail(buffer[w])) = Len(buffer[w]) - 1
      /\ Append(pipe[w], Head(buffer[w])) \in Seq(Requests)
      /\ Len(Append(pipe[w], Head(buffer[w]))) = Len(pipe[w]) + 1
      /\ Len(buffer[w]) \in Nat /\ Len(pipe[w]) \in Nat
  BY <1>2
<1>4. pipe' \in [Workers -> Seq(Requests)] /\ buffer' \in [Workers -> Seq(Requests)]
  BY <1>2, <1>3, Zenon
<1>5. \A v \in Workers : QueueLength(v)' = QueueLength(v)
  <2>1. \A v \in Workers : v # w => pipe'[v] = pipe[v] /\ buffer'[v] = buffer[v]
    BY <1>2, Zenon
  <2>2. Len(pipe'[w]) = Len(pipe[w]) + 1 /\ Len(buffer'[w]) = Len(buffer[w]) - 1
    BY <1>2, <1>3, Zenon
  <2>3. Len(buffer[w]) \in Nat /\ Len(pipe[w]) \in Nat
    BY <1>3, Zenon
  <2>4. Len(buffer'[w]) + Len(pipe'[w]) = Len(buffer[w]) + Len(pipe[w])
    <3> DEFINE m == Len(buffer[w])
               n == Len(pipe[w])
    <3> HIDE DEF m, n
    <3>1. m \in Nat /\ n \in Nat
      BY <2>3, Zenon DEF m, n
    <3>2. (m - 1) + (n + 1) = m + n
      BY <3>1
    <3> QED  BY <3>2, <2>2, Zenon DEF m, n
  <2>5. QueueLength(w)' = QueueLength(w)
    BY <2>4, Zenon DEF QueueLength
  <2> QED  BY <2>1, <2>5, Zenon DEF QueueLength
<1>6. Append(pipe[w], Head(buffer[w])) \o Tail(buffer[w]) = pipe[w] \o buffer[w]
  BY <1>2, <1>3, FeedSequence, Zenon
<1>7. \A v \in Workers : Untaken(v)' = Untaken(v)
  BY <1>2, <1>6, Zenon DEF Untaken
<1>8. /\ \A v \in Workers : SentTo(v)' = SentTo(v) /\ (Through(v)' <=> Through(v))
      /\ InStep' <=> InStep
      /\ Dropped' = Dropped
      /\ \A r \in Requests : InIds(r)' <=> InIds(r)
  BY <1>1, SameCall, Zenon DEF Through
<1>9. ExecTypeOK'
  BY <1>1, <1>4, <1>5, Zenon DEF IInv, ExecTypeOK
<1>10. Control'
  BY <1>1, <1>8, Zenon DEF IInv, Control, NoCall
<1>11. Queues'
  BY <1>1, <1>7, <1>8, Zenon DEF IInv, Queues
<1>12. Fresh'
  BY <1>1, Zenon DEF IInv, Fresh
<1>13. Held'
  BY <1>1, <1>7, <1>8, Zenon DEF IInv, Held
<1>14. Agree'
  BY <1>1, <1>8, Zenon DEF IInv, Agree
<1>15. Stages'
  BY <1>1, <1>8, Zenon DEF IInv, Stages
<1> QED  BY <1>9, <1>10, <1>11, <1>12, <1>13, <1>14, <1>15, Zenon DEF IInv

\* put() completes what the worker has been sent.
LEMMA PutInv == ASSUME IInv, Put PROVE IInv'
<1> PICK k \in Workers : k = rank
  BY Zenon DEF IInv, ExecTypeOK
<1>1. /\ engine = "put" /\ engine' = "spin" /\ rank' = rank /\ encoderReqIds' = encoderReqIds
      /\ call' = call /\ worker' = worker /\ remaining' = remaining /\ cache' = cache
      /\ joined' = joined /\ response' = response /\ stage' = stage /\ pipe' = pipe
      /\ finishedReqIds' = finishedReqIds /\ freed' = freed /\ handed' = handed
      /\ missed' = missed /\ told' = told /\ again' = again
  BY Zenon DEF Put, workerVars, requestVars, noticeVars
<1>2. /\ pipe \in [Workers -> Seq(Requests)] /\ buffer \in [Workers -> Seq(Requests)]
      /\ rank = k /\ encoderReqIds \in Seq(Requests) /\ encoderReqIds # <<>>
      /\ QueueLength(k) < WorkerQueueSize
      /\ buffer' = [buffer EXCEPT ![k] = Append(buffer[k], Newest(encoderReqIds))]
  BY <1>1, Zenon DEF IInv, ExecTypeOK, Control, Put, HasRoom
<1>3. /\ EndOf(Untaken(k), encoderReqIds, SentTo(k)) /\ Untaken(k) \in Seq(Requests)
      /\ Len(encoderReqIds) \in Nat
  BY <1>2, QueueFacts, Zenon
<1>4. /\ \A v \in Workers : v # k => SentTo(v)' = SentTo(v)
      /\ SentTo(k) = Len(encoderReqIds) - 1 /\ SentTo(k)' = Len(encoderReqIds)
  BY <1>1, <1>2, ExecutorAssumption DEF SentTo, Unput, Workers
<1>5. /\ EndOf(Append(Untaken(k), Newest(encoderReqIds)), encoderReqIds, Len(encoderReqIds))
      /\ Len(Append(Untaken(k), Newest(encoderReqIds))) = Len(Untaken(k)) + 1
      /\ Newest(encoderReqIds) \in Requests
  BY <1>2, <1>3, <1>4, EndOfAppend, Zenon
<1>6. /\ pipe[k] \in Seq(Requests) /\ buffer[k] \in Seq(Requests)
      /\ Append(buffer[k], Newest(encoderReqIds)) \in Seq(Requests)
      /\ Len(Append(buffer[k], Newest(encoderReqIds))) = Len(buffer[k]) + 1
      /\ Len(buffer[k]) \in Nat /\ Len(pipe[k]) \in Nat
  BY <1>2, <1>5
<1>7. buffer' \in [Workers -> Seq(Requests)]
  BY <1>2, <1>6, Zenon
<1>8. \A v \in Workers : v # k => QueueLength(v)' = QueueLength(v) /\ Untaken(v)' = Untaken(v)
  BY <1>1, <1>2, Zenon DEF QueueLength, Untaken
<1>9. QueueLength(k)' = QueueLength(k) + 1 /\ QueueLength(k) \in Nat
  BY <1>1, <1>2, <1>6 DEF QueueLength
<1>10. pipe[k] \o Append(buffer[k], Newest(encoderReqIds))
            = Append(Untaken(k), Newest(encoderReqIds))
  <2>1. pipe[k] \o Append(buffer[k], Newest(encoderReqIds))
            = Append(pipe[k] \o buffer[k], Newest(encoderReqIds))
    <3>1. /\ pipe[k] \in Seq(Requests) /\ buffer[k] \in Seq(Requests)
          /\ Newest(encoderReqIds) \in Requests
      BY <1>5, <1>6, Zenon
    <3> DEFINE p == pipe[k]
               b == buffer[k]
               x == Newest(encoderReqIds)
    <3> HIDE DEF p, b, x
    <3>2. p \in Seq(Requests) /\ b \in Seq(Requests) /\ x \in Requests
      BY <3>1, Zenon DEF p, b, x
    <3>3. p \o Append(b, x) = Append(p \o b, x)
      BY <3>2, PutSequence
    <3> QED  BY <3>3, Zenon DEF p, b, x
  <2> QED  BY <2>1, Zenon DEF Untaken
<1>11. Untaken(k)' = Append(Untaken(k), Newest(encoderReqIds))
  <2>1. buffer'[k] = Append(buffer[k], Newest(encoderReqIds))
    BY <1>2, Zenon
  <2>2. Untaken(k)' = pipe[k] \o buffer'[k]
    BY <1>1, Zenon DEF Untaken
  <2> QED  BY <2>1, <2>2, <1>10, Zenon
<1>12. /\ ~InStep /\ ~InStep' /\ Dropped' = Dropped
       /\ \A v \in Workers : ~Through(v) /\ ~Through(v)'
       /\ \A r \in Requests : InIds(r)' <=> InIds(r)
  BY <1>1 DEF IInv, Control, NoCall, InStep, Dropped, InIds, Through
<1>13. ExecTypeOK'
  <2>1. \A v \in Workers : QueueLength(v)' <= WorkerQueueSize
    <3>1. QueueLength(k)' <= WorkerQueueSize
      BY <1>2, <1>9, ExecutorAssumption
    <3>2. \A v \in Workers : QueueLength(v) <= WorkerQueueSize
      BY Zenon DEF IInv, ExecTypeOK
    <3> QED  BY <3>1, <3>2, <1>8, Zenon
  <2> QED  BY <1>1, <1>7, <2>1, Zenon DEF IInv, ExecTypeOK
<1>14. Control'
  BY <1>1, <1>2, <1>12, Zenon DEF IInv, Control, NoCall
<1>15. \A v \in Workers : worker[v] = "idle"
  BY <1>1, Zenon DEF IInv, Control
<1>16. Queues'
  <2>1. /\ EndOf(Untaken(k)', encoderReqIds', SentTo(k)')
        /\ Len(Untaken(k)') = SentTo(k)'
    BY <1>1, <1>2, <1>3, <1>4, <1>5, <1>11, <1>12 DEF IInv, Queues
  <2>2. \A v \in Workers : /\ EndOf(Untaken(v)', encoderReqIds', SentTo(v)')
                           /\ Len(Untaken(v)') = SentTo(v)'
    BY <2>1, <1>1, <1>4, <1>8, <1>12, Zenon DEF IInv, Queues
  <2> QED  BY <2>2, <1>1, <1>12, <1>15, Zenon DEF Queues
<1>17. Fresh'
  BY <1>1, Zenon DEF IInv, Fresh
<1>18. Held'
  <2>1. SentTo(k)' - Len(Untaken(k)') = SentTo(k) - Len(Untaken(k))
    BY <1>3, <1>4, <1>5, <1>11
  <2>2. \A v \in Workers : SentTo(v)' - Len(Untaken(v)') = SentTo(v) - Len(Untaken(v))
    BY <2>1, <1>4, <1>8, Zenon
  <2> QED  BY <2>2, <1>1, <1>12, Zenon DEF IInv, Held
<1>19. Agree' /\ Stages'
  BY <1>1, <1>12, Zenon DEF IInv, Agree, Stages
<1> QED  BY <1>13, <1>14, <1>16, <1>17, <1>18, <1>19, Zenon DEF IInv

\* The engine goes on to the next worker, or returns after the last.
LEMMA EndSpinInv == ASSUME IInv, EndSpin PROVE IInv'
<1>1. /\ engine = "spin" /\ encoderReqIds' = encoderReqIds /\ call' = call
      /\ buffer' = buffer /\ pipe' = pipe
      /\ worker' = worker /\ remaining' = remaining /\ cache' = cache
      /\ joined' = joined /\ response' = response /\ stage' = stage
      /\ finishedReqIds' = finishedReqIds /\ freed' = freed /\ handed' = handed
      /\ missed' = missed /\ told' = told /\ again' = again
  BY Zenon DEF EndSpin, workerVars, requestVars, noticeVars, queueVars
<1>2. \/ rank < WorldSize /\ engine' = "put" /\ rank' = rank + 1
      \/ ~(rank < WorldSize) /\ engine' = "idle" /\ rank' = rank
  BY Zenon DEF EndSpin
<1>3. rank \in Workers
  BY Zenon DEF IInv, ExecTypeOK
<1>4. \A v \in Workers : SentTo(v)' = SentTo(v)
  BY <1>1, <1>2, <1>3, ExecutorAssumption DEF SentTo, Unput, Workers
<1>5. /\ InStep' <=> InStep
      /\ Dropped' = Dropped /\ \A v \in Workers : Through(v)' <=> Through(v)
      /\ \A r \in Requests : InIds(r)' <=> InIds(r)
      /\ \A v \in Workers : Untaken(v)' = Untaken(v) /\ QueueLength(v)' = QueueLength(v)
  BY <1>1, Zenon DEF InStep, Dropped, InIds, Through, Untaken, QueueLength
<1>6. ExecTypeOK'
  <2>1. rank' \in Workers /\ engine' \in {"idle", "put"}
    BY <1>2, <1>3, ExecutorAssumption DEF Workers
  <2> QED  BY <1>1, <1>5, <2>1, Zenon DEF IInv, ExecTypeOK
<1>7. Control'
  BY <1>1, <1>2, <1>5, Zenon DEF IInv, Control, NoCall
<1>8. Queues' /\ Fresh' /\ Held' /\ Agree' /\ Stages'
  <2>1. Queues'
    BY <1>1, <1>4, <1>5, ZenonT(40) DEF IInv, Queues
  <2>2. Fresh' /\ Agree' /\ Stages'
    <3>1. Fresh' /\ Agree'
      BY <1>1, <1>5, Zenon DEF IInv, Fresh, Agree
    <3>2. Stages'
      BY <1>1, <1>5, Zenon DEF IInv, Stages
    <3> QED  BY <3>1, <3>2, Zenon
  <2>3. Held'
    BY <1>1, <1>4, <1>5, Zenon DEF IInv, Held
  <2> QED  BY <2>1, <2>2, <2>3, Zenon
<1> QED  BY <1>6, <1>7, <1>8, Zenon DEF IInv

\* A new id, of which nothing has been put.
LEMMA DispatchInv == ASSUME IInv, NEW r \in Requests, DispatchEncoderResult(r) PROVE IInv'
<1>1. /\ engine = "idle" /\ r \notin handed /\ handed' = handed \cup {r}
      /\ engine' = "put" /\ rank' = 1 /\ encoderReqIds' = Append(encoderReqIds, r)
      /\ call' = call /\ buffer' = buffer /\ pipe' = pipe
      /\ worker' = worker /\ remaining' = remaining /\ cache' = cache /\ joined' = joined
      /\ response' = response /\ finishedReqIds' = finishedReqIds /\ freed' = freed
      /\ told' = told /\ again' = again
  BY Zenon DEF DispatchEncoderResult, workerVars, queueVars
<1>2. /\ stage' = [stage EXCEPT ![r] = IF stage[r] = "encoding" THEN "ready" ELSE stage[r]]
      /\ missed' = IF stage[r] = "finished" /\ r \notin finishedReqIds THEN missed \cup {r}
                                                                       ELSE missed
      /\ stage \in [Requests -> {"encoding", "ready", "done", "finished"}]
      /\ missed \subseteq Requests /\ handed \subseteq Requests
  BY Zenon DEF DispatchEncoderResult, IInv, ExecTypeOK
<1>3. /\ call = NoCall /\ ~InStep /\ Dropped = {} /\ call.needs = {}
      /\ \A w \in Workers : /\ worker[w] = "idle" /\ response[w] = "none" /\ ~Through(w)
                            /\ SentTo(w) = Len(encoderReqIds)
                            /\ Len(Untaken(w)) = Len(encoderReqIds)
  BY <1>1, IdleFacts, Zenon
<1> DEFINE ids == encoderReqIds
           more == Append(ids, r)
<1>4. /\ ids \in Seq(Requests) /\ Len(ids) \in Nat
      /\ more \in Seq(Requests) /\ more # <<>> /\ Len(more) = Len(ids) + 1
      /\ more[Len(ids) + 1] = r /\ \A i \in 1 .. Len(ids) : more[i] = ids[i]
  <2>1. ids \in Seq(Requests)
    BY Zenon DEF IInv, ExecTypeOK
  <2> HIDE DEF ids
  <2> QED  BY <2>1, AppendLemma
<1> HIDE DEF more
<1>5. encoderReqIds' = more
  BY <1>1, Zenon DEF more
<1>6. /\ ~InStep' /\ Dropped' = {} /\ call'.needs = {}
      /\ \A w \in Workers : /\ ~Through(w)' /\ Untaken(w)' = Untaken(w)
                            /\ QueueLength(w)' = QueueLength(w)
  BY <1>1, <1>3, Zenon DEF InStep, Dropped, Through, Untaken, QueueLength
<1>7. \A w \in Workers : SentTo(w)' = Len(ids)
  <2>1. \A w \in Workers : Unput(w)'
    BY <1>1 DEF Unput, Workers
  <2>2. Len(more) - 1 = Len(ids)
    <3> HIDE DEF ids
    <3> QED  BY <1>4
  <2> QED  BY <2>1, <2>2, <1>5, Zenon DEF SentTo
<1>8. \A x \in Requests : InIds(x)' <=> InIds(x) \/ x = r
  <2> HIDE DEF ids
  <2>1. \A x \in Requests : (\E i \in 1 .. Len(more) : more[i] = x) <=>
                            (\E i \in 1 .. Len(ids) : ids[i] = x) \/ x = r
    <3>1. \A i \in 1 .. Len(more) : i \in 1 .. Len(ids) \/ i = Len(ids) + 1
      BY <1>4
    <3>2. \A i \in 1 .. Len(ids) : i \in 1 .. Len(more)
      BY <1>4
    <3>3. Len(ids) + 1 \in 1 .. Len(more)
      BY <1>4
    <3> QED  BY <3>1, <3>2, <3>3, <1>4, Zenon
  <2> QED  BY <2>1, <1>5, Zenon DEF InIds, ids
<1>9. ExecTypeOK'
  <2>1. /\ stage' \in [Requests -> {"encoding", "ready", "done", "finished"}]
        /\ missed' \subseteq Requests /\ handed' \subseteq Requests
    BY <1>1, <1>2, Zenon
  <2>2. rank' \in Workers /\ engine' \in {"idle", "put", "spin", "collect", "raised"}
    BY <1>1, ExecutorAssumption DEF Workers
  <2>3. encoderReqIds' \in Seq(Requests)
    BY <1>4, <1>5, Zenon
  <2>4. \A w \in Workers : QueueLength(w)' <= WorkerQueueSize
    BY <1>6, Zenon DEF IInv, ExecTypeOK
  <2>5. /\ call' = call /\ buffer' = buffer /\ pipe' = pipe /\ worker' = worker
        /\ remaining' = remaining /\ cache' = cache /\ joined' = joined
        /\ response' = response /\ finishedReqIds' = finishedReqIds /\ freed' = freed
        /\ told' = told /\ again' = again
    BY <1>1, Zenon
  <2> QED  BY <2>1, <2>2, <2>3, <2>4, <2>5 DEF IInv, ExecTypeOK
<1>10. Control'
  BY <1>1, <1>3, <1>4, <1>5, <1>6, ZenonT(40) DEF Control
<1>11. Queues'
  <2>1. \A w \in Workers : EndOf(Untaken(w), more, Len(ids))
    <3> SUFFICES ASSUME NEW w \in Workers PROVE EndOf(Untaken(w), more, Len(ids))
      BY Zenon
    <3>1. EndOf(Untaken(w), ids, Len(ids)) /\ Untaken(w) \in Seq(Requests)
      BY <1>3, QueueFacts, Zenon
    <3> DEFINE q == Untaken(w)
    <3> HIDE DEF q, ids
    <3>2. q \in Seq(Requests) /\ EndOf(q, ids, Len(ids))
      BY <3>1, Zenon DEF q
    <3>3. EndOf(q, Append(ids, r), Len(ids))
      BY <3>2, <1>4, EndOfMore, Zenon
    <3> QED  BY <3>3, Zenon DEF q, more
  <2>2. \A w \in Workers : EndOf(Untaken(w)', encoderReqIds', SentTo(w)')
    BY <2>1, <1>5, <1>6, <1>7, Zenon
  <2> QED  BY <2>2, <1>1, <1>3, <1>6, <1>7, Zenon DEF Queues
<1>12. \A i \in 1 .. Len(ids) : ids[i] \in handed /\ more[i] # r
  BY <1>1, <1>4, Zenon DEF IInv, Fresh
<1>13. \A i \in 1 .. Len(more) : i \in 1 .. Len(ids) \/ (i = Len(ids) + 1 /\ more[i] = r)
  <2> HIDE DEF ids
  <2> QED  BY <1>4
<1>14. Fresh'
  <2>1. \A i, j \in 1 .. Len(ids) : ids[i] = ids[j] => i = j
    BY Zenon DEF IInv, Fresh
  <2>2. \A i, j \in 1 .. Len(more) : more[i] = more[j] => i = j
    <3> HIDE DEF ids
    <3> QED  BY <2>1, <1>4, <1>12, <1>13, Zenon
  <2>3. \A i \in 1 .. Len(more) : more[i] \in handed'
    <3> HIDE DEF ids
    <3> QED  BY <1>1, <1>4, <1>12, <1>13, Zenon
  <2>4. \A w \in Workers : cache'[w] \subseteq handed'
    BY <1>1, Zenon DEF IInv, Fresh
  <2> QED  BY <2>2, <2>3, <2>4, <1>5, Zenon DEF Fresh
<1>15. Held'
  <2> SUFFICES ASSUME NEW w \in Workers, NEW i \in 1 .. Len(more)
               PROVE  more[i] \in cache[w] <=> i <= Len(ids) - Len(Untaken(w))
    BY <1>1, <1>5, <1>6, <1>7, Zenon DEF Held
  <2>1. Len(ids) - Len(Untaken(w)) = 0
    BY <1>3, <1>4
  <2>2. ~(i <= 0)
    <3> HIDE DEF ids
    <3> QED  BY <1>4
  <2>3. CASE i \in 1 .. Len(ids)
    <3>1. ids[i] \in cache[w] <=> i <= SentTo(w) - Len(Untaken(w))
      BY <2>3, <1>3, Zenon DEF IInv, Held
    <3> QED  BY <3>1, <2>1, <2>2, <2>3, <1>3, <1>4, ZenonT(40)
  <2>4. CASE more[i] = r
    BY <2>1, <2>2, <2>4, <1>1, Zenon DEF IInv, Fresh
  <2> QED  BY <2>3, <2>4, <1>13, Zenon
<1>16. Agree'
  BY <1>1, <1>3, <1>6, <1>8, Zenon DEF IInv, Agree
<1>17. Stages'
  BY <1>1, <1>2, <1>3, <1>6, <1>8, ZenonT(40) DEF IInv, Stages
<1> QED  BY <1>9, <1>10, <1>11, <1>14, <1>15, <1>16, <1>17, Zenon DEF IInv

\* A request finishes between two steps.
LEMMA FinishRequestInv == ASSUME IInv, NEW r \in Requests, FinishRequest(r) PROVE IInv'
<1>1. /\ engine = "idle" /\ stage' = [stage EXCEPT ![r] = "finished"]
      /\ finishedReqIds' = finishedReqIds \cup {r}
      /\ engine' = engine /\ rank' = rank /\ encoderReqIds' = encoderReqIds
      /\ call' = call /\ buffer' = buffer /\ pipe' = pipe
      /\ worker' = worker /\ remaining' = remaining /\ cache' = cache /\ joined' = joined
      /\ response' = response /\ freed' = freed /\ handed' = handed /\ missed' = missed
      /\ told' = told /\ again' = again
  BY Zenon DEF FinishRequest, workerVars, queueVars, noticeVars
<1>2. /\ \A w \in Workers : SentTo(w)' = SentTo(w) /\ (Through(w)' <=> Through(w))
      /\ \A w \in Workers : Untaken(w)' = Untaken(w) /\ QueueLength(w)' = QueueLength(w)
      /\ InStep' <=> InStep
      /\ Dropped' = Dropped
      /\ \A x \in Requests : InIds(x)' <=> InIds(x)
  BY <1>1, SameCall, Zenon DEF Through, Untaken, QueueLength
<1>3. Dropped = {} /\ call.needs = {}
  BY <1>1, IdleFacts, Zenon
<1>4. ExecTypeOK'
  BY <1>1, <1>2, ZenonT(40) DEF IInv, ExecTypeOK
<1>5. Control'
  BY <1>1, <1>2, Zenon DEF IInv, Control, NoCall
<1>6. Queues'
  BY <1>1, <1>2, Zenon DEF IInv, Queues
<1>7. Fresh'
  BY <1>1, Zenon DEF IInv, Fresh
<1>8. Held' /\ Agree'
  BY <1>1, <1>2, Zenon DEF IInv, Held, Agree
<1>9. Stages'
  BY <1>1, <1>2, <1>3 DEF IInv, Stages, ExecTypeOK
<1> QED  BY <1>4, <1>5, <1>6, <1>7, <1>8, <1>9, Zenon DEF IInv

\* A step begins: what has been dispatched since the last one is still to be
\* taken, and what the step drops has been finished or freed.
LEMMA ExecuteModelInv ==
    ASSUME IInv, NEW needs \in SUBSET Requests, NEW preempted \in SUBSET Requests,
           ExecuteModel(needs, preempted)
    PROVE  IInv'
<1> DEFINE c == [method |-> "execute_model", encoderReq |-> encoderReqIds, needs |-> needs,
                 finished |-> finishedReqIds, freed |-> freed]
<1>1. /\ engine = "idle" /\ engine' = "collect" /\ rank' = 1 /\ call' = c
      /\ worker' = [w \in Workers |-> "drain"] /\ remaining' = [w \in Workers |-> encoderReqIds]
      /\ joined' = {} /\ encoderReqIds' = encoderReqIds /\ buffer' = buffer /\ pipe' = pipe
      /\ cache' = cache /\ response' = response /\ handed' = handed
      /\ \A r \in needs : stage[r] = "ready"
  BY Zenon DEF ExecuteModel, Call, MayNeed, EncoderReq, queueVars
<1>1a. /\ \A r \in preempted : stage[r] = "done"
      /\ stage' = [r \in Requests |-> IF r \in preempted THEN "ready" ELSE stage[r]]
      /\ finishedReqIds' = {} /\ freed' = {} /\ again' = FALSE
      /\ missed' = missed \ (finishedReqIds \cup freed)
      /\ told' = told \cup ((finishedReqIds \cup freed) \cap handed)
  BY Zenon DEF ExecuteModel, Preempt, TakeNotices, Notices
<1>2. /\ ~InStep /\ Dropped = {}
      /\ \A w \in Workers : /\ response[w] = "none" /\ ~Through(w)
                            /\ SentTo(w) = Len(encoderReqIds)
                            /\ Len(Untaken(w)) = Len(encoderReqIds)
  BY <1>1, IdleFacts, Zenon
<1>3. /\ InStep' /\ Dropped' = finishedReqIds \cup freed /\ call'.needs = needs
      /\ \A w \in Workers : /\ worker'[w] = "drain" /\ remaining'[w] = encoderReqIds
                            /\ ~Through(w)' /\ Untaken(w)' = Untaken(w)
                            /\ QueueLength(w)' = QueueLength(w)
      /\ \A r \in Requests : InIds(r)' <=> InIds(r)
  BY <1>1, Zenon DEF InStep, Dropped, Through, Untaken, QueueLength, InIds
<1>4. \A w \in Workers : SentTo(w)' = Len(encoderReqIds)
  BY <1>1, Zenon DEF SentTo, Unput
<1>5. encoderReqIds \in Seq(Requests) /\ Len(encoderReqIds) \in Nat
  <2>1. encoderReqIds \in Seq(Requests)
    BY Zenon DEF IInv, ExecTypeOK
  <2> QED  BY <2>1
<1>6. ExecTypeOK'
  <2>1. call' \in [method : {"none", "execute_model", "profile"}, encoderReq : Seq(Requests),
                   needs : SUBSET Requests, finished : SUBSET Requests, freed : SUBSET Requests]
    BY <1>1, Zenon DEF IInv, ExecTypeOK
  <2>2. /\ worker' \in [Workers -> {"idle", "drain", "wait", "run"}]
        /\ remaining' \in [Workers -> Seq(Requests)] /\ joined' \subseteq Workers
        /\ rank' \in Workers
    <3>1. rank' \in Workers
      BY <1>1, ExecutorAssumption DEF Workers
    <3> QED  BY <1>1, <1>5, <3>1, Zenon
  <2>3. \A w \in Workers : QueueLength(w)' <= WorkerQueueSize
    BY <1>3, Zenon DEF IInv, ExecTypeOK
  <2>4. /\ engine' = "collect" /\ encoderReqIds' = encoderReqIds /\ buffer' = buffer
        /\ pipe' = pipe /\ cache' = cache /\ response' = response /\ handed' = handed
    BY <1>1, Zenon
  <2>5. /\ stage' \in [Requests -> {"encoding", "ready", "done", "finished"}]
        /\ missed' \subseteq Requests /\ told' \subseteq Requests
        /\ again' \in BOOLEAN /\ finishedReqIds' = {} /\ freed' = {}
    BY <1>1a, Zenon DEF IInv, ExecTypeOK
  <2> QED  BY <2>1, <2>2, <2>3, <2>4, <2>5, Zenon DEF IInv, ExecTypeOK
<1>7. Control'
  BY <1>1, <1>2, <1>3 DEF Control, Workers
<1>8. Queues'
  <2>1. \A w \in Workers : EndOf(Untaken(w)', encoderReqIds', SentTo(w)')
    BY <1>1, <1>2, <1>3, <1>4, Zenon DEF IInv, Queues
  <2>2. EndOf(encoderReqIds, encoderReqIds, Len(encoderReqIds))
    BY <1>5, EndOfItself, Zenon
  <2>3. \A w \in Workers : Len(Untaken(w)') <= Len(remaining'[w])
    <3> SUFFICES ASSUME NEW w \in Workers PROVE Len(Untaken(w)') <= Len(remaining'[w])
      BY Zenon
    <3>1. Len(Untaken(w)') = Len(Untaken(w)) /\ Len(Untaken(w)) = Len(encoderReqIds)
      BY <1>2, <1>3, Zenon
    <3>2. Len(remaining'[w]) = Len(encoderReqIds)
      BY <1>3, Zenon
    <3>3. Len(encoderReqIds) <= Len(encoderReqIds)
      BY <1>5
    <3> QED  BY <3>1, <3>2, <3>3, Zenon
  <2> QED  BY <2>1, <2>2, <2>3, <1>1, <1>3, Zenon DEF Queues
<1>9. Fresh'
  BY <1>1, Zenon DEF IInv, Fresh
<1>10. Held'
  BY <1>1, <1>2, <1>3, <1>4, Zenon DEF IInv, Held
<1>11. Agree'
  BY <1>1, <1>2, <1>3, Zenon DEF IInv, Agree
<1>12. Stages'
  <2>1. \A r \in Requests : stage'[r] = IF r \in preempted THEN "ready" ELSE stage[r]
    BY <1>1a, Zenon
  <2> QED  BY <1>1, <1>2, <1>3, <1>1a, <2>1, Zenon DEF IInv, Stages
<1> QED  BY <1>6, <1>7, <1>8, <1>9, <1>10, <1>11, <1>12, Zenon DEF IInv

\* An output without tokens: the workers hear nothing of what it told.
LEMMA DropOutputInv ==
    ASSUME IInv, NEW preempted \in SUBSET Requests, DropOutput(preempted) PROVE IInv'
<1>1. /\ engine = "idle" /\ engine' = engine /\ rank' = rank /\ encoderReqIds' = encoderReqIds
      /\ call' = call /\ buffer' = buffer /\ pipe' = pipe
      /\ worker' = worker /\ remaining' = remaining /\ cache' = cache /\ joined' = joined
      /\ response' = response /\ handed' = handed /\ told' = told
  BY Zenon DEF DropOutput, workerVars, queueVars
<1>2. /\ \A r \in preempted : stage[r] = "done"
      /\ stage' = [r \in Requests |-> IF r \in preempted THEN "ready" ELSE stage[r]]
      /\ finishedReqIds' = {} /\ freed' = {} /\ again' = TRUE
      /\ missed' = missed \cup ((finishedReqIds \cup freed) \cap handed)
  BY Zenon DEF DropOutput, Preempt, TakeNotices, Notices
<1>3. /\ \A w \in Workers : SentTo(w)' = SentTo(w) /\ (Through(w)' <=> Through(w))
      /\ \A w \in Workers : Untaken(w)' = Untaken(w) /\ QueueLength(w)' = QueueLength(w)
      /\ InStep' <=> InStep
      /\ Dropped' = Dropped
      /\ \A x \in Requests : InIds(x)' <=> InIds(x)
  BY <1>1, SameCall, Zenon DEF Through, Untaken, QueueLength
<1>4. Dropped = {} /\ call.needs = {}
  BY <1>1, IdleFacts, Zenon
<1>5. ExecTypeOK'
  <2>1. /\ stage' \in [Requests -> {"encoding", "ready", "done", "finished"}]
        /\ missed' \subseteq Requests /\ again' \in BOOLEAN
    BY <1>2, Zenon DEF IInv, ExecTypeOK
  <2>2. \A w \in Workers : QueueLength(w)' <= WorkerQueueSize
    BY <1>3, Zenon DEF IInv, ExecTypeOK
  <2>3. finishedReqIds' = {} /\ freed' = {}
    BY <1>2, Zenon
  <2> QED  BY <1>1, <2>1, <2>2, <2>3, Zenon DEF IInv, ExecTypeOK
<1>6. Control'
  BY <1>1, <1>3, Zenon DEF IInv, Control, NoCall
<1>7. Queues'
  BY <1>1, <1>3, Zenon DEF IInv, Queues
<1>8. Fresh'
  BY <1>1, Zenon DEF IInv, Fresh
<1>9. Held' /\ Agree'
  BY <1>1, <1>3, Zenon DEF IInv, Held, Agree
<1>10. Stages'
  <2>1. \A r \in Requests : stage'[r] = IF r \in preempted THEN "ready" ELSE stage[r]
    BY <1>2, Zenon
  <2>2. \A r \in Requests : InIds(r) \/ (\E w \in Workers : r \in cache[w]) => r \in handed
    BY Zenon DEF IInv, Fresh, InIds
  <2> QED  BY <1>1, <1>2, <1>3, <1>4, <2>1, <2>2, Zenon DEF IInv, Stages
<1> QED  BY <1>5, <1>6, <1>7, <1>8, <1>9, <1>10, Zenon DEF IInv

\* Any other method touches no queue.
LEMMA OtherMethodInv == ASSUME IInv, OtherMethod PROVE IInv'
<1>1. /\ engine = "idle" /\ engine' = "collect" /\ rank' = 1
      /\ call' = [NoCall EXCEPT !.method = "profile"]
      /\ worker' = [w \in Workers |-> "run"] /\ remaining' = [w \in Workers |-> <<>>]
      /\ joined' = {} /\ encoderReqIds' = encoderReqIds /\ buffer' = buffer /\ pipe' = pipe
      /\ cache' = cache /\ response' = response /\ stage' = stage /\ handed' = handed
      /\ missed' = missed /\ told' = told /\ again' = again /\ finishedReqIds' = finishedReqIds
      /\ freed' = freed
  BY Zenon DEF OtherMethod, Call, requestVars, queueVars, NoCall
<1>2. /\ ~InStep /\ Dropped = {} /\ call.needs = {}
      /\ \A w \in Workers : /\ response[w] = "none" /\ ~Through(w)
                            /\ SentTo(w) = Len(encoderReqIds)
                            /\ Len(Untaken(w)) = Len(encoderReqIds)
  BY <1>1, IdleFacts, Zenon
<1>3. /\ ~InStep' /\ Dropped' = {} /\ call'.needs = {}
      /\ \A w \in Workers : /\ worker'[w] = "run"
                            /\ ~Through(w)' /\ Untaken(w)' = Untaken(w)
                            /\ QueueLength(w)' = QueueLength(w)
      /\ \A r \in Requests : InIds(r)' <=> InIds(r)
  BY <1>1, Zenon DEF InStep, Dropped, Through, Untaken, QueueLength, InIds, NoCall
<1>4. \A w \in Workers : SentTo(w)' = Len(encoderReqIds)
  BY <1>1, Zenon DEF SentTo, Unput
<1>5. ExecTypeOK'
  <2>1. call' \in [method : {"none", "execute_model", "profile"}, encoderReq : Seq(Requests),
                   needs : SUBSET Requests, finished : SUBSET Requests, freed : SUBSET Requests]
    <3>1. call' = [method |-> "profile", encoderReq |-> <<>>, needs |-> {}, finished |-> {},
                   freed |-> {}]
      BY <1>1, Zenon DEF NoCall
    <3>2. <<>> \in Seq(Requests)
      OBVIOUS
    <3> QED  BY <3>1, <3>2, Zenon
  <2>2. /\ worker' \in [Workers -> {"idle", "drain", "wait", "run"}]
        /\ remaining' \in [Workers -> Seq(Requests)] /\ joined' \subseteq Workers
        /\ rank' \in Workers
    BY <1>1, ExecutorAssumption DEF Workers
  <2>3. \A w \in Workers : QueueLength(w)' <= WorkerQueueSize
    BY <1>3, Zenon DEF IInv, ExecTypeOK
  <2>4. /\ engine' = "collect" /\ encoderReqIds' = encoderReqIds /\ buffer' = buffer
        /\ pipe' = pipe /\ cache' = cache /\ response' = response /\ stage' = stage
        /\ handed' = handed /\ missed' = missed /\ told' = told /\ again' = again
        /\ finishedReqIds' = finishedReqIds /\ freed' = freed
    BY <1>1, Zenon
  <2> QED  BY <2>1, <2>2, <2>3, <2>4, ZenonT(40) DEF IInv, ExecTypeOK
<1>6. Control'
  BY <1>1, <1>2, <1>3 DEF Control, Workers
<1>7. Queues'
  <2>1. \A w \in Workers : EndOf(Untaken(w)', encoderReqIds', SentTo(w)')
    BY <1>1, <1>2, <1>3, <1>4, Zenon DEF IInv, Queues
  <2> QED  BY <2>1, <1>2, <1>3, <1>4, Zenon DEF Queues
<1>8. Fresh'
  BY <1>1, Zenon DEF IInv, Fresh
<1>9. Held'
  BY <1>1, <1>2, <1>3, <1>4, Zenon DEF IInv, Held
<1>10. Agree' /\ Stages'
  BY <1>1, <1>2, <1>3, Zenon DEF IInv, Agree, Stages
<1> QED  BY <1>5, <1>6, <1>7, <1>8, <1>9, <1>10, Zenon DEF IInv

\* The engine reads a response.  After the last one of a step every worker is
\* through: it has taken everything and dropped what the step drops.
LEMMA CollectInv == ASSUME IInv, Collect PROVE IInv'
<1>1. /\ engine = "collect" /\ response[rank] # "none"
      /\ response' = [response EXCEPT ![rank] = "none"]
      /\ buffer' = buffer /\ pipe' = pipe /\ worker' = worker /\ remaining' = remaining
      /\ cache' = cache /\ joined' = joined /\ finishedReqIds' = finishedReqIds
      /\ handed' = handed /\ missed' = missed /\ told' = told /\ again' = again
  BY Zenon DEF Collect, workerVars, queueVars, noticeVars
<1>2. /\ rank \in Workers /\ response \in [Workers -> {"none", "SUCCESS", "FAILURE"}]
      /\ response' \in [Workers -> {"none", "SUCCESS", "FAILURE"}]
      /\ \A w \in Workers : response'[w] = IF w = rank THEN "none" ELSE response[w]
  BY <1>1, Zenon DEF IInv, ExecTypeOK
<1>3. \A w \in Workers : /\ w < rank => worker[w] = "idle" /\ response[w] = "none"
                         /\ ~(w < rank) => (worker[w] = "idle" <=> response[w] # "none")
  BY <1>1, Zenon DEF IInv, Control
<1>4. worker[rank] = "idle"
  BY <1>1, <1>2, <1>3, Zenon
<1>5. /\ \A w \in Workers : Untaken(w)' = Untaken(w) /\ QueueLength(w)' = QueueLength(w)
      /\ \A w \in Workers : SentTo(w) = Len(encoderReqIds)
  BY <1>1, Zenon DEF Untaken, QueueLength, SentTo, Unput
<1>6. CASE /\ engine' \in {"raised", "collect"}
           /\ engine' = "collect" => rank < WorldSize /\ rank' = rank + 1
           /\ engine' = "raised" => rank' = rank
           /\ call' = call /\ encoderReqIds' = encoderReqIds /\ stage' = stage /\ freed' = freed
  <2>1. /\ \A w \in Workers : SentTo(w)' = SentTo(w) /\ (Through(w)' <=> Through(w))
        /\ InStep' <=> InStep
        /\ Dropped' = Dropped
        /\ \A x \in Requests : InIds(x)' <=> InIds(x)
    BY <1>1, <1>5, <1>6, ZenonT(40) DEF SentTo, Unput, Through, InStep, Dropped, InIds
  <2>2. ExecTypeOK'
    <3>1. rank' \in Workers
      BY <1>2, <1>6, ExecutorAssumption DEF Workers
    <3>2. /\ engine' \in {"raised", "collect"} /\ encoderReqIds' = encoderReqIds /\ call' = call
          /\ buffer' = buffer /\ pipe' = pipe /\ worker' = worker /\ remaining' = remaining
          /\ cache' = cache /\ joined' = joined /\ stage' = stage /\ freed' = freed
          /\ finishedReqIds' = finishedReqIds /\ handed' = handed /\ missed' = missed
          /\ told' = told /\ again' = again
          /\ response' \in [Workers -> {"none", "SUCCESS", "FAILURE"}]
          /\ \A w \in Workers : QueueLength(w)' = QueueLength(w)
      BY <1>1, <1>2, <1>5, <1>6, Zenon
    <3> QED  BY <3>1, <3>2, Zenon DEF IInv, ExecTypeOK
  <2>3. Control'
    <3>1. engine' = "collect" => \A w \in Workers :
                /\ w < rank' => worker'[w] = "idle" /\ response'[w] = "none"
                /\ ~(w < rank') => (worker'[w] = "idle" <=> response'[w] # "none")
      BY <1>1, <1>2, <1>3, <1>4, <1>6 DEF Workers
    <3>2. \A w \in Workers : worker'[w] \in {"drain", "wait"} => InStep'
      BY <1>1, <2>1, Zenon DEF IInv, Control
    <3>3. ~InStep' => call'.needs = {} /\ Dropped' = {}
      BY <1>6, <2>1, Zenon DEF IInv, Control
    <3> QED  BY <3>1, <3>2, <3>3, <1>6, Zenon DEF Control
  <2>4. Queues'
    BY <1>1, <1>5, <1>6, <2>1, Zenon DEF IInv, Queues
  <2>5. Fresh'
    BY <1>1, <1>6, Zenon DEF IInv, Fresh
  <2>6. Held' /\ Agree'
    BY <1>1, <1>5, <1>6, <2>1, ZenonT(40) DEF IInv, Held, Agree
  <2>7. Stages'
    BY <1>1, <1>6, <2>1, Zenon DEF IInv, Stages
  <2> QED  BY <2>2, <2>3, <2>4, <2>5, <2>6, <2>7, Zenon DEF IInv
<1>7. ASSUME rank = WorldSize, engine' = "idle", call' = NoCall, rank' = rank,
             encoderReqIds' = IF InStep THEN <<>> ELSE encoderReqIds,
             NEW consumed \in SUBSET call.needs,
             freed' = freed \cup consumed,
             stage' = [r \in Requests |-> IF r \in consumed THEN "done" ELSE stage[r]]
      PROVE  IInv'
  <2>1. \A w \in Workers : worker[w] = "idle" /\ response'[w] = "none"
    <3>1. \A w \in Workers : w < rank \/ w = rank
      BY <1>7, ExecutorAssumption DEF Workers
    <3> QED  BY <1>2, <1>3, <1>4, <3>1, Zenon
  <2>2. ~InStep' /\ Dropped' = {} /\ call'.needs = {} /\ \A w \in Workers : ~Through(w)'
    BY <1>7, Zenon DEF InStep, Dropped, NoCall, Through
  <2>3. \A w \in Workers : SentTo(w)' = Len(encoderReqIds')
    BY <1>7, Zenon DEF SentTo, Unput
  <2>4. /\ consumed \subseteq Requests /\ call.needs \subseteq Requests /\ freed \subseteq Requests
        /\ stage \in [Requests -> {"encoding", "ready", "done", "finished"}]
        /\ encoderReqIds \in Seq(Requests)
    BY Zenon DEF IInv, ExecTypeOK
  <2>5. ExecTypeOK'
    <3>1. call' \in [method : {"none", "execute_model", "profile"}, encoderReq : Seq(Requests),
                     needs : SUBSET Requests, finished : SUBSET Requests, freed : SUBSET Requests]
      <4>1. <<>> \in Seq(Requests)
        OBVIOUS
      <4> QED  BY <1>7, <4>1, Zenon DEF NoCall
    <3>2. /\ encoderReqIds' \in Seq(Requests) /\ freed' \subseteq Requests
          /\ stage' \in [Requests -> {"encoding", "ready", "done", "finished"}]
      BY <1>7, <2>4
    <3>3. /\ engine' = "idle" /\ rank' = rank /\ buffer' = buffer /\ pipe' = pipe
          /\ worker' = worker /\ remaining' = remaining /\ cache' = cache /\ joined' = joined
          /\ finishedReqIds' = finishedReqIds /\ handed' = handed /\ missed' = missed
          /\ told' = told /\ again' = again
          /\ response' \in [Workers -> {"none", "SUCCESS", "FAILURE"}]
          /\ \A w \in Workers : QueueLength(w)' = QueueLength(w)
      BY <1>1, <1>2, <1>5, <1>7, Zenon
    <3> QED  BY <3>1, <3>2, <3>3, ZenonT(40) DEF IInv, ExecTypeOK
  <2>6. Control'
    BY <1>1, <1>7, <2>1, <2>2, Zenon DEF Control
  <2>7. CASE InStep
    <3>1. \A w \in Workers : Through(w) /\ Len(Untaken(w)) = 0
      BY <2>1, <2>7, Zenon DEF Through, IInv, Queues
    <3>2. encoderReqIds' = <<>> /\ Len(encoderReqIds') = 0
      BY <1>7, <2>7, Zenon
    <3>3. \A x \in Requests : ~InIds(x)'
      BY <3>2 DEF InIds
    <3>4. \A w \in Workers : EndOf(Untaken(w)', encoderReqIds', 0) /\ Len(Untaken(w)') = 0
      <4>1. \A w \in Workers : Len(Untaken(w)') = 0
        BY <3>1, <1>5, Zenon
      <4> QED  BY <4>1, <3>2 DEF EndOf
    <3>5. Queues'
      <4>1. \A w \in Workers : SentTo(w)' = 0
        BY <2>3, <3>2, Zenon
      <4>2. \A w \in Workers : EndOf(Untaken(w)', encoderReqIds', SentTo(w)')
        BY <3>4, <4>1, Zenon
      <4>3. \A w \in Workers : Len(Untaken(w)') = SentTo(w)'
        BY <3>4, <4>1, Zenon
      <4>4. \A w \in Workers : worker'[w] = "idle"
        BY <1>1, <2>1, Zenon
      <4> QED  BY <4>2, <4>3, <4>4, <2>2, Zenon DEF Queues
    <3>6. Fresh' /\ Held'
      <4>1. \A i \in 1 .. Len(encoderReqIds') : FALSE
        BY <3>2
      <4>2. \A w \in Workers : cache'[w] \subseteq handed'
        BY <1>1, Zenon DEF IInv, Fresh
      <4> QED  BY <4>1, <4>2, <2>2, Zenon DEF Fresh, Held
    <3>7. \A w \in Workers, x \in Requests :
                /\ x \in Dropped => x \notin cache[w]
                /\ InIds(x) => x \in cache[w] \cup Dropped
      BY <3>1, Zenon DEF IInv, Held, InIds
    <3>8. Agree'
      BY <3>7, <1>1, Zenon DEF IInv, Agree
    <3>9. Stages'
      BY <3>3, <3>7, <2>2, <2>4, <1>1, <1>7, Zenon DEF IInv, Stages
    <3> QED  BY <2>5, <2>6, <3>5, <3>6, <3>8, <3>9, Zenon DEF IInv
  <2>8. CASE ~InStep
    <3>1. /\ Dropped = {} /\ consumed = {} /\ encoderReqIds' = encoderReqIds /\ freed' = freed
          /\ \A x \in Requests : stage'[x] = stage[x]
          /\ \A x \in Requests : InIds(x)' <=> InIds(x)
          /\ \A w \in Workers : SentTo(w)' = SentTo(w) /\ ~Through(w)
      BY <2>3, <2>4, <2>8, <1>5, <1>7, Zenon DEF IInv, Control, InIds, Through
    <3>2. Queues'
      BY <3>1, <2>1, <2>2, <2>8, <1>1, <1>5, Zenon DEF IInv, Queues
    <3>3. Fresh' /\ Held'
      BY <3>1, <2>2, <1>1, <1>5, Zenon DEF IInv, Fresh, Held
    <3>4. Agree' /\ Stages'
      BY <3>1, <2>2, <1>1, Zenon DEF IInv, Agree, Stages
    <3> QED  BY <2>5, <2>6, <3>2, <3>3, <3>4, Zenon DEF IInv
  <2> QED  BY <2>7, <2>8, Zenon
<1> QED
  <2>1. CASE /\ response[rank] = "FAILURE" /\ engine' = "raised"
             /\ UNCHANGED <<rank, call, encoderReqIds, stage, freed>>
    BY <2>1, <1>6, Zenon
  <2>2. CASE /\ response[rank] = "SUCCESS" /\ rank < WorldSize /\ rank' = rank + 1
             /\ UNCHANGED <<engine, call, encoderReqIds, stage, freed>>
    BY <2>2, <1>1, <1>6, Zenon
  <2>3. CASE /\ response[rank] = "SUCCESS" /\ rank = WorldSize
             /\ engine' = "idle" /\ call' = NoCall /\ encoderReqIds' = IdsAfterCall
             /\ \E consumed \in SUBSET call.needs :
                   /\ freed' = freed \cup consumed
                   /\ stage' = [r \in Requests |-> IF r \in consumed THEN "done" ELSE stage[r]]
             /\ UNCHANGED rank
    <3>1. encoderReqIds' = IF InStep THEN <<>> ELSE encoderReqIds
      BY <2>3, Zenon DEF IdsAfterCall, InStep
    <3> QED  BY <2>3, <3>1, <1>7, Zenon
  <2> QED  BY <2>1, <2>2, <2>3, Zenon DEF Collect

-----------------------------------------------------------------------------
(* The theorems. *)

----------------------------------------------------------------------------
(* The steps of a worker *)

\* What get() does to a worker in a step: it takes the first id that it has
\* not got.
LEMMA GetFacts ==
    ASSUME IInv, NEW w \in Workers, worker[w] \in {"drain", "wait"}, GetResult(w),
           buffer' = buffer
    PROVE  /\ pipe' \in [Workers -> Seq(Requests)] /\ cache' \in [Workers -> SUBSET Requests]
           /\ \A v \in Workers : QueueLength(v)' <= WorkerQueueSize
           /\ \A v \in Workers : v # w => Untaken(v)' = Untaken(v) /\ cache'[v] = cache[v]
           /\ EndOf(Untaken(w)', encoderReqIds, Len(encoderReqIds))
           /\ Len(Untaken(w)) \in Nat \ {0} /\ Len(Untaken(w)') = Len(Untaken(w)) - 1
           /\ \E i \in 1 .. Len(encoderReqIds) :
                /\ i = Len(encoderReqIds) - Len(Untaken(w)) + 1
                /\ cache'[w] = cache[w] \cup {encoderReqIds[i]}
<1>1. /\ pipe \in [Workers -> Seq(Requests)] /\ buffer \in [Workers -> Seq(Requests)]
      /\ cache \in [Workers -> SUBSET Requests] /\ encoderReqIds \in Seq(Requests)
  BY Zenon DEF IInv, ExecTypeOK
<1>2. /\ pipe[w] # <<>> /\ pipe' = [pipe EXCEPT ![w] = Tail(pipe[w])]
      /\ cache' = [cache EXCEPT ![w] = cache[w] \cup {Head(pipe[w])}]
  BY Zenon DEF GetResult
<1>3. InStep
  BY Zenon DEF IInv, Control
<1>4. SentTo(w) = Len(encoderReqIds)
  BY <1>3, StepFacts, Zenon
<1>5. /\ EndOf(Untaken(w), encoderReqIds, Len(encoderReqIds))
      /\ Untaken(w) \in Seq(Requests)
  BY <1>4, QueueFacts, Zenon
<1> DEFINE p == pipe[w]
           b == buffer[w]
<1>6. p \in Seq(Requests) /\ b \in Seq(Requests) /\ p # <<>>
  BY <1>1, <1>2, Zenon
<1> HIDE DEF p, b
<1>7. Head(p) \in Requests /\ Tail(p) \in Seq(Requests)
  BY <1>6
<1>8. Len(p) \in Nat /\ Len(b) \in Nat /\ Len(Tail(p)) = Len(p) - 1
  BY <1>6
<1>9. Tail(p) \o b = Tail(p \o b) /\ p \o b # <<>> /\ Head(p \o b) = Head(p)
  BY <1>6, GetSequence, Zenon
<1>10. pipe' \in [Workers -> Seq(Requests)] /\ cache' \in [Workers -> SUBSET Requests]
  BY <1>1, <1>2, <1>7, Zenon DEF p
<1>11. /\ \A v \in Workers : v # w => pipe'[v] = pipe[v] /\ cache'[v] = cache[v]
       /\ pipe'[w] = Tail(p) /\ cache'[w] = cache[w] \cup {Head(p)}
  BY <1>1, <1>2, Zenon DEF p
<1>12. \A v \in Workers : QueueLength(v)' <= WorkerQueueSize
  <2>1. \A v \in Workers : QueueLength(v) <= WorkerQueueSize
    BY Zenon DEF IInv, ExecTypeOK
  <2>2. QueueLength(w) = Len(b) + Len(p) /\ QueueLength(w)' = Len(b) + Len(Tail(p))
    BY <1>11, Zenon DEF QueueLength, p, b
  <2>3. QueueLength(w)' <= WorkerQueueSize
    BY <2>1, <2>2, <1>8, ExecutorAssumption
  <2>4. \A v \in Workers : v # w => QueueLength(v)' = QueueLength(v)
    BY <1>11, Zenon DEF QueueLength
  <2> QED  BY <2>1, <2>3, <2>4, Zenon
<1>13. \A v \in Workers : v # w => Untaken(v)' = Untaken(v)
  BY <1>11, Zenon DEF Untaken
<1>14. Untaken(w) = p \o b /\ Untaken(w)' = Tail(p) \o b
  BY <1>11, Zenon DEF Untaken, p, b
<1> DEFINE q == Untaken(w)
           ids == encoderReqIds
<1>15. /\ q \in Seq(Requests) /\ q # <<>> /\ Head(q) = Head(p) /\ Untaken(w)' = Tail(q)
       /\ ids \in Seq(Requests) /\ EndOf(q, ids, Len(ids))
  BY <1>1, <1>5, <1>9, <1>14, Zenon
<1> HIDE DEF q, ids
<1>16. /\ EndOf(Tail(q), ids, Len(ids)) /\ Len(Tail(q)) = Len(q) - 1 /\ Len(q) \in Nat \ {0}
       /\ Len(ids) - Len(q) + 1 \in 1 .. Len(ids)
       /\ Head(q) = ids[Len(ids) - Len(q) + 1]
  BY <1>15, EndOfTail
<1>17. \E i \in 1 .. Len(ids) : i = Len(ids) - Len(q) + 1 /\ cache'[w] = cache[w] \cup {ids[i]}
  BY <1>11, <1>15, <1>16, Zenon
<1> QED  BY <1>10, <1>11, <1>12, <1>13, <1>15, <1>16, <1>17, Zenon DEF q, ids

\* Taking a result keeps what the invariant says of the outputs held.
LEMMA TakeInv ==
    ASSUME IInv, NEW w \in Workers, worker[w] \in {"drain", "wait"}, GetResult(w),
           worker' = worker,
           UNCHANGED <<engine, rank, encoderReqIds, call, buffer, joined, response, requestVars,
                       noticeVars>>
    PROVE  Fresh' /\ Held' /\ Agree' /\ Stages'
<1>1. /\ engine' = engine /\ rank' = rank /\ encoderReqIds' = encoderReqIds /\ call' = call
      /\ buffer' = buffer /\ stage' = stage /\ finishedReqIds' = finishedReqIds
      /\ freed' = freed /\ handed' = handed /\ missed' = missed /\ told' = told /\ again' = again
  BY Zenon DEF requestVars, noticeVars
<1>2. /\ \A v \in Workers : v # w => Untaken(v)' = Untaken(v) /\ cache'[v] = cache[v]
      /\ Len(Untaken(w)) \in Nat \ {0} /\ Len(Untaken(w)') = Len(Untaken(w)) - 1
  BY <1>1, GetFacts, Zenon
<1>3. PICK k \in 1 .. Len(encoderReqIds) :
            /\ k = Len(encoderReqIds) - Len(Untaken(w)) + 1
            /\ cache'[w] = cache[w] \cup {encoderReqIds[k]}
  BY <1>1, GetFacts, Zenon
<1>4. InStep /\ ~Through(w)
  BY Zenon DEF IInv, Control, Through
<1>5. \A v \in Workers : SentTo(v) = Len(encoderReqIds)
  BY <1>4, StepFacts, Zenon
<1>6. /\ \A v \in Workers : SentTo(v)' = SentTo(v) /\ (Through(v)' <=> Through(v))
      /\ InStep' <=> InStep
      /\ Dropped' = Dropped
      /\ \A r \in Requests : InIds(r)' <=> InIds(r)
  BY <1>1, SameCall, Zenon DEF Through
<1>7. /\ encoderReqIds \in Seq(Requests) /\ Len(encoderReqIds) \in Nat
      /\ \A i, j \in 1 .. Len(encoderReqIds) : encoderReqIds[i] = encoderReqIds[j] => i = j
      /\ \A i \in 1 .. Len(encoderReqIds) : encoderReqIds[i] \in handed
  <2>1. encoderReqIds \in Seq(Requests) /\ Len(encoderReqIds) \in Nat
    BY DEF IInv, ExecTypeOK
  <2> QED  BY <2>1, Zenon DEF IInv, Fresh
<1>8. Fresh'
  BY <1>1, <1>2, <1>3, <1>7 DEF IInv, Fresh
<1>9. Held'
  <2>1. \A i \in 1 .. Len(encoderReqIds) :
            encoderReqIds[i] \in cache'[w] <=> i <= Len(encoderReqIds) - Len(Untaken(w)')
    <3> SUFFICES ASSUME NEW i \in 1 .. Len(encoderReqIds)
                 PROVE  encoderReqIds[i] \in cache'[w] <=>
                            i <= Len(encoderReqIds) - Len(Untaken(w)')
      BY Zenon
    <3>1. encoderReqIds[i] \in cache[w] <=> i <= Len(encoderReqIds) - Len(Untaken(w))
      BY <1>4, <1>5, Zenon DEF IInv, Held
    <3>2. encoderReqIds[i] \in cache'[w] <=> encoderReqIds[i] \in cache[w] \/ i = k
      BY <1>3, <1>7, Zenon
    <3> DEFINE m == Len(encoderReqIds)
               n == Len(Untaken(w))
    <3>3. m \in Nat /\ n \in Nat /\ i \in Nat /\ k = m - n + 1 /\ Len(Untaken(w)') = n - 1
      BY <1>2, <1>3, <1>7
    <3> HIDE DEF m, n
    <3>4. i <= m - (n - 1) <=> i <= m - n \/ i = k
      BY <3>3
    <3> QED  BY <3>1, <3>2, <3>3, <3>4, Zenon DEF m, n
  <2>2. \A v \in Workers : v # w =>
            /\ Through(v) => cache'[v] \cap Dropped = {}
            /\ \A i \in 1 .. Len(encoderReqIds) :
                IF Through(v) THEN encoderReqIds[i] \in cache'[v] \cup Dropped
                ELSE encoderReqIds[i] \in cache'[v] <=> i <= SentTo(v)' - Len(Untaken(v)')
    BY <1>2, <1>6, Zenon DEF IInv, Held
  <2> QED  BY <2>1, <2>2, <1>1, <1>4, <1>5, <1>6, ZenonT(40) DEF Held
<1>10. InIds(encoderReqIds[k]) /\ encoderReqIds[k] \in Requests
  <2>1. encoderReqIds[k] \in Requests
    BY <1>7
  <2> QED  BY <2>1, Zenon DEF InIds
<1>11. \A v \in Workers, r \in Requests :
            /\ r \in cache[v] => r \in cache'[v]
            /\ r \in cache'[v] => r \in cache[v] \/ InIds(r)
  <2>1. \A v \in Workers : v = w \/ cache'[v] = cache[v]
    BY <1>2, Zenon
  <2>2. \A r \in Requests : r \in cache'[w] <=> r \in cache[w] \/ r = encoderReqIds[k]
    BY <1>3, Zenon
  <2> QED  BY <2>1, <2>2, <1>10, Zenon
<1>12. Agree'
  BY <1>6, <1>11, Zenon DEF IInv, Agree
<1>13. Stages'
  BY <1>1, <1>6, <1>11, Zenon DEF IInv, Stages
<1> QED  BY <1>8, <1>9, <1>12, <1>13, Zenon

\* The first loop takes a result, or ends.
LEMMA DrainInv == ASSUME IInv, NEW w \in Workers, Drain(w) PROVE IInv'
<1>1. /\ engine' = engine /\ rank' = rank /\ encoderReqIds' = encoderReqIds /\ call' = call
      /\ buffer' = buffer /\ remaining' = remaining /\ joined' = joined /\ response' = response
      /\ stage' = stage /\ finishedReqIds' = finishedReqIds /\ freed' = freed
      /\ handed' = handed /\ missed' = missed /\ told' = told /\ again' = again
      /\ worker[w] = "drain"
  BY Zenon DEF Drain, requestVars, noticeVars
<1>2. /\ \A v \in Workers : SentTo(v)' = SentTo(v)
      /\ InStep' <=> InStep
      /\ Dropped' = Dropped
      /\ \A r \in Requests : InIds(r)' <=> InIds(r)
  BY <1>1, SameCall, Zenon
<1>3. InStep
  BY <1>1, Zenon DEF IInv, Control
<1>4. SentTo(w) = Len(encoderReqIds)
  BY <1>3, StepFacts, Zenon
<1>5. CASE GetResult(w) /\ worker' = worker
  <2>1. /\ pipe' \in [Workers -> Seq(Requests)] /\ cache' \in [Workers -> SUBSET Requests]
        /\ \A v \in Workers : QueueLength(v)' <= WorkerQueueSize
        /\ \A v \in Workers : v # w => Untaken(v)' = Untaken(v)
        /\ EndOf(Untaken(w)', encoderReqIds, Len(encoderReqIds))
        /\ Len(Untaken(w)) \in Nat \ {0} /\ Len(Untaken(w)') = Len(Untaken(w)) - 1
    BY <1>1, <1>5, GetFacts, Zenon
  <2>2. Fresh' /\ Held' /\ Agree' /\ Stages'
    BY <1>1, <1>5, TakeInv, Zenon DEF requestVars, noticeVars
  <2>3. ExecTypeOK'
    BY <1>1, <1>5, <2>1, Zenon DEF IInv, ExecTypeOK
  <2>4. Control'
    BY <1>1, <1>2, <1>5, Zenon DEF IInv, Control, NoCall
  <2>5. Queues'
    <3>1. /\ EndOf(remaining[w], encoderReqIds, Len(encoderReqIds))
          /\ Len(Untaken(w)) <= Len(remaining[w]) /\ Len(remaining[w]) \in Nat
      BY <1>1 DEF IInv, Queues, ExecTypeOK
    <3>2. Len(Untaken(w)') <= Len(remaining[w])
      BY <3>1, <2>1
    <3>3. \A v \in Workers : Through(v)' <=> Through(v)
      BY <1>2, <1>5, Zenon DEF Through
    <3>4. ~Through(w)
      BY <1>1, Zenon DEF Through
    <3>5. \A v \in Workers : v # w =>
            /\ EndOf(Untaken(v)', encoderReqIds', SentTo(v)')
            /\ Through(v)' => Len(Untaken(v)') = 0
            /\ worker'[v] \in {"drain", "wait"} =>
                    /\ EndOf(remaining'[v], encoderReqIds', Len(encoderReqIds'))
                    /\ Len(Untaken(v)') <= Len(remaining'[v])
      BY <1>1, <1>2, <1>5, <2>1, <3>3, Zenon DEF IInv, Queues
    <3>6. EndOf(Untaken(w)', encoderReqIds', SentTo(w)')
      BY <1>1, <1>2, <1>4, <2>1, Zenon
    <3> QED  BY <3>1, <3>2, <3>3, <3>4, <3>5, <3>6, <1>1, <1>2, <1>3, Zenon DEF Queues
  <2> QED  BY <2>2, <2>3, <2>4, <2>5, Zenon DEF IInv
<1>6. CASE /\ worker' = [worker EXCEPT ![w] = "wait"] /\ cache' = cache /\ pipe' = pipe
  <2>1. /\ worker \in [Workers -> {"idle", "drain", "wait", "run"}]
        /\ worker' \in [Workers -> {"idle", "drain", "wait", "run"}]
        /\ worker'[w] = "wait" /\ \A v \in Workers : v # w => worker'[v] = worker[v]
    BY <1>6, Zenon DEF IInv, ExecTypeOK
  <2>2. \A v \in Workers : /\ Untaken(v)' = Untaken(v) /\ QueueLength(v)' = QueueLength(v)
                           /\ Through(v)' <=> Through(v)
    BY <1>1, <1>2, <1>6, <2>1, Zenon DEF Untaken, QueueLength, Through
  <2>3. ExecTypeOK'
    <3>1. ExecTypeOK
      BY Zenon DEF IInv
    <3>2. /\ worker' \in [Workers -> {"idle", "drain", "wait", "run"}]
          /\ cache' = cache /\ pipe' = pipe
      BY <1>6, <2>1, Zenon
    <3>3. \A v \in Workers : QueueLength(v)' <= WorkerQueueSize
      BY <2>2, <3>1, Zenon DEF ExecTypeOK
    <3> QED  BY <1>1, <3>1, <3>2, <3>3, Zenon DEF ExecTypeOK
  <2>4. Control'
    BY <1>1, <1>2, <1>3, <2>1, Zenon DEF IInv, Control, NoCall
  <2>5. Queues'
    BY <1>1, <1>2, <2>1, <2>2, Zenon DEF IInv, Queues
  <2>6. Fresh' /\ Agree' /\ Stages'
    <3>1. Fresh' /\ Agree'
      BY <1>1, <1>2, <1>6, Zenon DEF IInv, Fresh, Agree
    <3>2. Stages'
      BY <1>1, <1>2, <1>6, Zenon DEF IInv, Stages
    <3> QED  BY <3>1, <3>2, Zenon
  <2>7. Held'
    BY <1>1, <1>2, <1>6, <2>2, Zenon DEF IInv, Held
  <2> QED  BY <2>3, <2>4, <2>5, <2>6, <2>7, Zenon DEF IInv
<1> QED  BY <1>5, <1>6, Zenon DEF Drain

\* A turn of the second loop.  An id whose outputs are cached is one that has
\* been taken, so one fewer is left in the queue than in the list.
LEMMA WaitInv == ASSUME IInv, NEW w \in Workers, Wait(w) PROVE IInv'
<1>1. /\ engine' = engine /\ rank' = rank /\ encoderReqIds' = encoderReqIds /\ call' = call
      /\ buffer' = buffer /\ worker' = worker /\ joined' = joined /\ response' = response
      /\ stage' = stage /\ finishedReqIds' = finishedReqIds /\ freed' = freed
      /\ handed' = handed /\ missed' = missed /\ told' = told /\ again' = again
      /\ worker[w] = "wait"
      /\ remaining[w] # <<>> /\ remaining' = [remaining EXCEPT ![w] = Tail(remaining[w])]
  BY Zenon DEF Wait, requestVars, noticeVars
<1>2. /\ \A v \in Workers : SentTo(v)' = SentTo(v) /\ (Through(v)' <=> Through(v))
      /\ InStep' <=> InStep
      /\ Dropped' = Dropped
      /\ \A r \in Requests : InIds(r)' <=> InIds(r)
  BY <1>1, SameCall, Zenon DEF Through
<1>3. InStep /\ ~Through(w)
  BY <1>1, Zenon DEF IInv, Control, Through
<1>4. SentTo(w) = Len(encoderReqIds)
  BY <1>3, StepFacts, ZenonT(40)
<1>5. /\ remaining \in [Workers -> Seq(Requests)] /\ encoderReqIds \in Seq(Requests)
      /\ remaining[w] \in Seq(Requests)
      /\ EndOf(remaining[w], encoderReqIds, Len(encoderReqIds))
      /\ Len(Untaken(w)) <= Len(remaining[w]) /\ Len(Untaken(w)) \in Nat
  BY <1>1, QueueFacts, Zenon DEF IInv, ExecTypeOK, Queues
<1> DEFINE q == remaining[w]
           ids == encoderReqIds
<1>6. q \in Seq(Requests) /\ ids \in Seq(Requests) /\ EndOf(q, ids, Len(ids)) /\ q # <<>>
  BY <1>1, <1>5, Zenon
<1> HIDE DEF q, ids
<1>7. /\ EndOf(Tail(q), ids, Len(ids)) /\ Len(Tail(q)) = Len(q) - 1 /\ Len(q) \in Nat \ {0}
      /\ Tail(q) \in Seq(Requests)
      /\ Len(ids) - Len(q) + 1 \in 1 .. Len(ids)
      /\ Head(q) = ids[Len(ids) - Len(q) + 1]
  BY <1>6, EndOfTail
<1>8. /\ remaining' \in [Workers -> Seq(Requests)] /\ remaining'[w] = Tail(q)
      /\ \A v \in Workers : v # w => remaining'[v] = remaining[v]
  BY <1>1, <1>5, <1>7, Zenon DEF q
<1>9. Control'
  BY <1>1, <1>2, Zenon DEF IInv, Control, NoCall
<1>10. ASSUME \A v \in Workers : v # w => Untaken(v)' = Untaken(v),
              EndOf(Untaken(w)', ids, Len(ids)), Len(Untaken(w)') <= Len(q) - 1
       PROVE  Queues'
  <2>1. \A v \in Workers : v # w =>
            /\ EndOf(Untaken(v)', encoderReqIds', SentTo(v)')
            /\ Through(v)' => Len(Untaken(v)') = 0
            /\ worker'[v] \in {"drain", "wait"} =>
                    /\ EndOf(remaining'[v], encoderReqIds', Len(encoderReqIds'))
                    /\ Len(Untaken(v)') <= Len(remaining'[v])
    BY <1>1, <1>2, <1>8, <1>10, Zenon DEF IInv, Queues
  <2>2. EndOf(Untaken(w)', encoderReqIds', SentTo(w)')
    BY <1>1, <1>2, <1>4, <1>10, Zenon DEF ids
  <2>3. EndOf(remaining'[w], encoderReqIds', Len(encoderReqIds'))
    BY <1>1, <1>7, <1>8, Zenon DEF ids
  <2>4. Len(Untaken(w)') <= Len(remaining'[w])
    BY <1>7, <1>8, <1>10, Zenon
  <2> QED  BY <2>1, <2>2, <2>3, <2>4, <1>2, <1>3, Zenon DEF Queues
<1>11. CASE Head(remaining[w]) \in cache[w] /\ cache' = cache /\ pipe' = pipe
  <2>1. \A v \in Workers : Untaken(v)' = Untaken(v) /\ QueueLength(v)' = QueueLength(v)
    BY <1>1, <1>11, Zenon DEF Untaken, QueueLength
  <2>2. Len(ids) - Len(q) + 1 <= Len(ids) - Len(Untaken(w))
    <3>1. \A i \in 1 .. Len(ids) : ids[i] \in cache[w] <=> i <= Len(ids) - Len(Untaken(w))
      BY <1>3, <1>4, Zenon DEF IInv, Held, ids
    <3>2. ids[Len(ids) - Len(q) + 1] \in cache[w]
      BY <1>7, <1>11, Zenon DEF q
    <3> QED  BY <3>1, <3>2, <1>7, Zenon
  <2>3. Len(Untaken(w)) <= Len(q) - 1
    <3> DEFINE u == Len(Untaken(w))
    <3>1. u \in Nat /\ Len(ids) \in Nat /\ Len(q) \in Nat /\ Len(ids) - Len(q) + 1 <= Len(ids) - u
      BY <2>2, <1>5, <1>6, <1>7
    <3> HIDE DEF u
    <3>2. u <= Len(q) - 1
      BY <3>1
    <3> QED  BY <3>2, Zenon DEF u
  <2>4. EndOf(Untaken(w)', ids, Len(ids)) /\ Len(Untaken(w)') <= Len(q) - 1
    BY <2>1, <2>3, <1>4, QueueFacts, Zenon DEF ids
  <2>5. Queues'
    BY <2>1, <2>4, <1>10, Zenon
  <2>6. ExecTypeOK'
    <3>1. ExecTypeOK
      BY Zenon DEF IInv
    <3> QED  BY <2>1, <1>1, <1>8, <1>11, <3>1 DEF ExecTypeOK
  <2>7. Fresh' /\ Agree' /\ Stages'
    <3>1. Fresh' /\ Agree'
      BY <1>1, <1>2, <1>11, Zenon DEF IInv, Fresh, Agree
    <3>2. Stages'
      BY <1>1, <1>2, <1>11, Zenon DEF IInv, Stages
    <3> QED  BY <3>1, <3>2, Zenon
  <2>8. Held'
    BY <2>1, <1>1, <1>2, <1>11, Zenon DEF IInv, Held
  <2> QED  BY <2>5, <2>6, <2>7, <2>8, <1>9, Zenon DEF IInv
<1>12. CASE GetResult(w)
  <2>1. /\ pipe' \in [Workers -> Seq(Requests)] /\ cache' \in [Workers -> SUBSET Requests]
        /\ \A v \in Workers : QueueLength(v)' <= WorkerQueueSize
        /\ \A v \in Workers : v # w => Untaken(v)' = Untaken(v)
        /\ EndOf(Untaken(w)', encoderReqIds, Len(encoderReqIds))
        /\ Len(Untaken(w)) \in Nat \ {0} /\ Len(Untaken(w)') = Len(Untaken(w)) - 1
    BY <1>1, <1>12, GetFacts, Zenon
  <2>2. Fresh' /\ Held' /\ Agree' /\ Stages'
    BY <1>1, <1>12, TakeInv, Zenon DEF requestVars, noticeVars
  <2>3. Len(Untaken(w)') <= Len(q) - 1
    <3>1. Len(Untaken(w)) <= Len(q)
      BY <1>5, Zenon DEF q
    <3> QED  BY <3>1, <2>1, <1>7
  <2>4. Queues'
    BY <2>1, <2>3, <1>10, Zenon DEF ids
  <2>5. ExecTypeOK'
    BY <2>1, <1>1, <1>8, Zenon DEF IInv, ExecTypeOK
  <2> QED  BY <2>2, <2>4, <2>5, <1>9, Zenon DEF IInv
<1> QED  BY <1>11, <1>12, Zenon DEF Wait, WaitForResult

\* A worker that has left the loops has taken everything; it drops what the
\* step drops, and runs or answers with a failure.
LEMMA LeaveLoops ==
    ASSUME IInv, NEW w \in Workers, Ready(w), UpdateStates(w),
           NEW next \in {"run", "idle"}, worker' = [worker EXCEPT ![w] = next],
           UNCHANGED <<engine, rank, encoderReqIds, call, queueVars, remaining, requestVars,
                       noticeVars>>
    PROVE  /\ worker' \in [Workers -> {"idle", "drain", "wait", "run"}]
           /\ cache' \in [Workers -> SUBSET Requests]
           /\ \A v \in Workers : QueueLength(v)' <= WorkerQueueSize
           /\ Queues' /\ Fresh' /\ Held' /\ Agree' /\ Stages'
<1>1. /\ engine' = engine /\ rank' = rank /\ encoderReqIds' = encoderReqIds /\ call' = call
      /\ buffer' = buffer /\ pipe' = pipe /\ remaining' = remaining
      /\ stage' = stage /\ finishedReqIds' = finishedReqIds /\ freed' = freed
      /\ handed' = handed /\ missed' = missed /\ told' = told /\ again' = again
      /\ cache' = [cache EXCEPT ![w] = cache[w] \ Dropped]
      /\ worker[w] = "wait" /\ remaining[w] = <<>>
  BY Zenon DEF UpdateStates, Ready, requestVars, noticeVars, queueVars
<1>2. /\ worker \in [Workers -> {"idle", "drain", "wait", "run"}]
      /\ cache \in [Workers -> SUBSET Requests]
  BY Zenon DEF IInv, ExecTypeOK
<1>3. /\ worker' \in [Workers -> {"idle", "drain", "wait", "run"}]
      /\ cache' \in [Workers -> SUBSET Requests]
      /\ worker'[w] = next /\ cache'[w] = cache[w] \ Dropped
      /\ \A v \in Workers : v # w => worker'[v] = worker[v] /\ cache'[v] = cache[v]
  BY <1>1, <1>2, Zenon
<1>4. /\ \A v \in Workers : SentTo(v)' = SentTo(v)
      /\ InStep' <=> InStep
      /\ Dropped' = Dropped
      /\ \A r \in Requests : InIds(r)' <=> InIds(r)
  BY <1>1, SameCall, Zenon
<1>5. InStep /\ ~Through(w)
  BY <1>1, Zenon DEF IInv, Control, Through
<1>6. SentTo(w) = Len(encoderReqIds)
  BY <1>5, StepFacts, Zenon
<1>7. \A v \in Workers : Untaken(v)' = Untaken(v) /\ QueueLength(v)' = QueueLength(v)
  BY <1>1, Zenon DEF Untaken, QueueLength
<1>8. Through(w)' /\ \A v \in Workers : v # w => (Through(v)' <=> Through(v))
  BY <1>3, <1>4, <1>5, Zenon DEF Through
<1>9. Len(Untaken(w)) = 0
  <2>1. Len(Untaken(w)) <= Len(remaining[w]) /\ Len(Untaken(w)) \in Nat
    <3>1. Queues
      BY Zenon DEF IInv
    <3>2. Len(Untaken(w)) \in Nat
      BY QueueFacts, Zenon
    <3> QED  BY <1>1, <3>1, <3>2, Zenon DEF Queues
  <2>2. Len(remaining[w]) = 0
    BY <1>1
  <2> HIDE DEF Untaken
  <2> QED  BY <2>1, <2>2
<1>10. \A v \in Workers : QueueLength(v)' <= WorkerQueueSize
  BY <1>7, Zenon DEF IInv, ExecTypeOK
<1>11. Queues'
  <2>1. \A v \in Workers : EndOf(Untaken(v)', encoderReqIds', SentTo(v)')
    BY <1>1, <1>4, <1>7, ZenonT(40) DEF IInv, Queues
  <2>2. \A v \in Workers : v # w =>
            /\ Through(v)' => Len(Untaken(v)') = 0
            /\ worker'[v] \in {"drain", "wait"} =>
                    /\ EndOf(remaining'[v], encoderReqIds', Len(encoderReqIds'))
                    /\ Len(Untaken(v)') <= Len(remaining'[v])
    <3>1. \A v \in Workers : v # w =>
              /\ (Through(v)' <=> Through(v)) /\ Untaken(v)' = Untaken(v)
              /\ worker'[v] = worker[v] /\ remaining'[v] = remaining[v]
      BY <1>1, <1>3, <1>7, <1>8, Zenon
    <3>2. Queues /\ encoderReqIds' = encoderReqIds
      BY <1>1, Zenon DEF IInv
    <3> QED  BY <3>1, <3>2, Zenon DEF Queues
  <2>3. Len(Untaken(w)') = 0
    BY <1>7, <1>9, Zenon
  <2> QED  BY <2>1, <2>2, <2>3, <1>3, <1>4, <1>5, Zenon DEF Queues
<1>12. Fresh'
  <2>1. Fresh
    BY Zenon DEF IInv
  <2> QED  BY <1>1, <1>3, <2>1 DEF Fresh
<1>13. \A i \in 1 .. Len(encoderReqIds) : encoderReqIds[i] \in cache[w]
  <2>1. \A i \in 1 .. Len(encoderReqIds) :
            encoderReqIds[i] \in cache[w] <=> i <= SentTo(w) - Len(Untaken(w))
    BY <1>5, Zenon DEF IInv, Held
  <2>2. SentTo(w) - Len(Untaken(w)) = Len(encoderReqIds)
    BY <1>6, <1>9, QueueFacts
  <2>3. \A i \in 1 .. Len(encoderReqIds) : i <= Len(encoderReqIds)
    BY QueueFacts
  <2> QED  BY <2>1, <2>2, <2>3, Zenon
<1>14. Held'
  <2>1. \A v \in Workers : v # w =>
            /\ Through(v)' => cache'[v] \cap Dropped' = {}
            /\ \A i \in 1 .. Len(encoderReqIds) :
                IF Through(v)' THEN encoderReqIds[i] \in cache'[v] \cup Dropped'
                ELSE encoderReqIds[i] \in cache'[v] <=> i <= SentTo(v)' - Len(Untaken(v)')
    BY <1>3, <1>4, <1>7, <1>8, ZenonT(40) DEF IInv, Held
  <2>2. /\ cache'[w] \cap Dropped' = {}
        /\ \A i \in 1 .. Len(encoderReqIds) : encoderReqIds[i] \in cache'[w] \cup Dropped'
    BY <1>3, <1>4, <1>13, Zenon
  <2> QED  BY <2>1, <2>2, <1>1, <1>8, Zenon DEF Held
<1>15. \A v \in Workers, r \in Requests :
            /\ r \in cache'[v] => r \in cache[v]
            /\ r \in cache[v] /\ r \notin Dropped => r \in cache'[v]
  BY <1>3, Zenon
<1>16. Agree'
  BY <1>4, <1>15, ZenonT(40) DEF IInv, Agree
<1>17. Stages'
  BY <1>1, <1>4, <1>15, Zenon DEF IInv, Stages
<1> QED  BY <1>3, <1>10, <1>11, <1>12, <1>14, <1>16, <1>17, ZenonT(40)

\* The worker runs the step.
LEMMA JoinInv == ASSUME IInv, NEW w \in Workers, Join(w) PROVE IInv'
<1>1. /\ engine' = engine /\ rank' = rank /\ encoderReqIds' = encoderReqIds /\ call' = call
      /\ buffer' = buffer /\ pipe' = pipe /\ remaining' = remaining /\ response' = response
      /\ stage' = stage /\ finishedReqIds' = finishedReqIds /\ freed' = freed
      /\ handed' = handed /\ missed' = missed /\ told' = told /\ again' = again
      /\ joined' = joined \cup {w}
      /\ worker' = [worker EXCEPT ![w] = "run"] /\ worker[w] = "wait"
      /\ Ready(w) /\ UpdateStates(w)
  BY Zenon DEF Join, Ready, requestVars, noticeVars, queueVars
<1>2. /\ worker' \in [Workers -> {"idle", "drain", "wait", "run"}]
      /\ cache' \in [Workers -> SUBSET Requests]
      /\ \A v \in Workers : QueueLength(v)' <= WorkerQueueSize
      /\ Queues' /\ Fresh' /\ Held' /\ Agree' /\ Stages'
  BY <1>1, LeaveLoops, ZenonT(40) DEF requestVars, noticeVars, queueVars
<1>3. ExecTypeOK'
  BY <1>1, <1>2, Zenon DEF IInv, ExecTypeOK
<1>4. /\ worker'[w] = "run" /\ \A v \in Workers : v # w => worker'[v] = worker[v]
      /\ InStep' <=> InStep
      /\ Dropped' = Dropped
  BY <1>1, Zenon DEF IInv, ExecTypeOK, InStep, Dropped
<1>5. Control'
  BY <1>1, <1>4, Zenon DEF IInv, Control, NoCall
<1> QED  BY <1>2, <1>3, <1>5, Zenon DEF IInv

\* The worker answers, after a failure or at the end of the call.
LEMMA RespondControl ==
    ASSUME IInv, NEW w \in Workers, worker[w] \in {"wait", "run"},
           NEW status \in {"SUCCESS", "FAILURE"}, Respond(w, status)
    PROVE  Control' /\ response' \in [Workers -> {"none", "SUCCESS", "FAILURE"}]
<1>1. /\ engine' = engine /\ rank' = rank /\ encoderReqIds' = encoderReqIds /\ call' = call
      /\ worker' = [worker EXCEPT ![w] = "idle"] /\ response' = [response EXCEPT ![w] = status]
  BY Zenon DEF Respond
<1>2. /\ worker'[w] = "idle" /\ \A v \in Workers : v # w => worker'[v] = worker[v]
      /\ response'[w] = status /\ \A v \in Workers : v # w => response'[v] = response[v]
      /\ response' \in [Workers -> {"none", "SUCCESS", "FAILURE"}]
      /\ InStep' <=> InStep
      /\ Dropped' = Dropped
  BY <1>1, Zenon DEF IInv, ExecTypeOK, InStep, Dropped
<1>3. engine \in {"collect", "raised"} /\ (engine = "collect" => ~(w < rank))
  BY Zenon DEF IInv, Control, ExecTypeOK
<1>4. Control
  BY Zenon DEF IInv
<1> QED  BY <1>1, <1>2, <1>3, <1>4 DEF Control

\* The model raises.
LEMMA FailInv == ASSUME IInv, NEW w \in Workers, Fail(w) PROVE IInv'
<1>1. /\ engine' = engine /\ rank' = rank /\ encoderReqIds' = encoderReqIds /\ call' = call
      /\ buffer' = buffer /\ pipe' = pipe /\ remaining' = remaining /\ joined' = joined
      /\ stage' = stage /\ finishedReqIds' = finishedReqIds /\ freed' = freed
      /\ handed' = handed /\ missed' = missed /\ told' = told /\ again' = again
      /\ worker' = [worker EXCEPT ![w] = "idle"] /\ worker[w] = "wait"
      /\ Ready(w) /\ UpdateStates(w) /\ Respond(w, "FAILURE")
  BY Zenon DEF Fail, Respond, Ready, requestVars, noticeVars, queueVars
<1>2. /\ worker' \in [Workers -> {"idle", "drain", "wait", "run"}]
      /\ cache' \in [Workers -> SUBSET Requests]
      /\ \A v \in Workers : QueueLength(v)' <= WorkerQueueSize
      /\ Queues' /\ Fresh' /\ Held' /\ Agree' /\ Stages'
  BY <1>1, LeaveLoops, Zenon DEF requestVars, noticeVars, queueVars
<1>3. Control' /\ response' \in [Workers -> {"none", "SUCCESS", "FAILURE"}]
  BY <1>1, RespondControl, Zenon
<1>4. ExecTypeOK'
  BY <1>1, <1>2, <1>3, Zenon DEF IInv, ExecTypeOK
<1> QED  BY <1>2, <1>3, <1>4, Zenon DEF IInv

\* The call ends for a worker.
LEMMA FinishInv == ASSUME IInv, NEW w \in Workers, Finish(w) PROVE IInv'
<1>1. /\ engine' = engine /\ rank' = rank /\ encoderReqIds' = encoderReqIds /\ call' = call
      /\ buffer' = buffer /\ pipe' = pipe /\ remaining' = remaining /\ joined' = joined
      /\ stage' = stage /\ finishedReqIds' = finishedReqIds /\ freed' = freed
      /\ handed' = handed /\ missed' = missed /\ told' = told /\ again' = again /\ cache' = cache
      /\ worker' = [worker EXCEPT ![w] = "idle"] /\ worker[w] = "run" /\ Respond(w, "SUCCESS")
  BY Zenon DEF Finish, Respond, requestVars, noticeVars, queueVars
<1>2. Control' /\ response' \in [Workers -> {"none", "SUCCESS", "FAILURE"}]
  BY <1>1, RespondControl, Zenon
<1>3. /\ worker' \in [Workers -> {"idle", "drain", "wait", "run"}] /\ worker'[w] = "idle"
      /\ \A v \in Workers : v # w => worker'[v] = worker[v]
  BY <1>1, Zenon DEF IInv, ExecTypeOK
<1>4. /\ \A v \in Workers : SentTo(v)' = SentTo(v)
      /\ InStep' <=> InStep
      /\ Dropped' = Dropped
      /\ \A r \in Requests : InIds(r)' <=> InIds(r)
  BY <1>1, SameCall, Zenon
<1>5. \A v \in Workers : /\ Untaken(v)' = Untaken(v) /\ QueueLength(v)' = QueueLength(v)
                         /\ Through(v)' <=> Through(v)
  BY <1>1, <1>3, <1>4, ZenonT(40) DEF Untaken, QueueLength, Through
<1>6. ExecTypeOK'
  <2>1. /\ engine' = engine /\ rank' = rank /\ encoderReqIds' = encoderReqIds /\ call' = call
        /\ buffer' = buffer /\ pipe' = pipe /\ remaining' = remaining /\ joined' = joined
        /\ stage' = stage /\ finishedReqIds' = finishedReqIds /\ freed' = freed
        /\ handed' = handed /\ missed' = missed /\ told' = told /\ again' = again /\ cache' = cache
        /\ worker' \in [Workers -> {"idle", "drain", "wait", "run"}]
        /\ response' \in [Workers -> {"none", "SUCCESS", "FAILURE"}]
        /\ \A v \in Workers : QueueLength(v)' = QueueLength(v)
    BY <1>1, <1>2, <1>3, <1>5, Zenon
  <2> QED  BY <2>1, Zenon DEF IInv, ExecTypeOK
<1>7. Queues'
  BY <1>1, <1>3, <1>4, <1>5, Zenon DEF IInv, Queues
<1>8. Fresh' /\ Agree' /\ Stages'
  <2>1. Fresh' /\ Agree'
    BY <1>1, <1>4, Zenon DEF IInv, Fresh, Agree
  <2>2. Stages'
    BY <1>1, <1>4, Zenon DEF IInv, Stages
  <2> QED  BY <2>1, <2>2, Zenon
<1>9. Held'
  BY <1>1, <1>4, <1>5, Zenon DEF IInv, Held
<1> QED  BY <1>2, <1>6, <1>7, <1>8, <1>9, Zenon DEF IInv

----------------------------------------------------------------------------
(* The theorems *)

\* Every step keeps the invariant.
LEMMA NextInv == IInv /\ [ExecNext]_execVars => IInv'
<1> SUFFICES ASSUME IInv, [ExecNext]_execVars PROVE IInv'
  BY Zenon
<1>1. CASE UNCHANGED execVars
  <2>1. /\ engine' = engine /\ rank' = rank /\ encoderReqIds' = encoderReqIds /\ call' = call
        /\ buffer' = buffer /\ pipe' = pipe /\ worker' = worker /\ remaining' = remaining
        /\ cache' = cache /\ joined' = joined /\ response' = response /\ stage' = stage
        /\ finishedReqIds' = finishedReqIds /\ freed' = freed /\ handed' = handed
        /\ missed' = missed /\ told' = told /\ again' = again
    BY <1>1, Zenon DEF execVars, queueVars, workerVars, requestVars, noticeVars
  <2>2. /\ \A v \in Workers : SentTo(v)' = SentTo(v) /\ (Through(v)' <=> Through(v))
        /\ \A v \in Workers : Untaken(v)' = Untaken(v) /\ QueueLength(v)' = QueueLength(v)
        /\ InStep' <=> InStep
        /\ Dropped' = Dropped
        /\ \A r \in Requests : InIds(r)' <=> InIds(r)
    BY <2>1, SameCall, Zenon DEF Through, Untaken, QueueLength
  <2>3. ExecTypeOK' /\ Fresh'
    BY <2>1, <2>2, ZenonT(40) DEF IInv, ExecTypeOK, Fresh
  <2>4. Control'
    BY <2>1, <2>2, Zenon DEF IInv, Control, NoCall
  <2>5. Queues'
    BY <2>1, <2>2, Zenon DEF IInv, Queues
  <2>6. Held' /\ Agree' /\ Stages'
    BY <2>1, <2>2, Zenon DEF IInv, Held, Agree, Stages
  <2> QED  BY <2>3, <2>4, <2>5, <2>6, Zenon DEF IInv
<1>2. ASSUME NEW r \in Requests, DispatchEncoderResult(r) \/ FinishRequest(r) PROVE IInv'
  BY <1>2, DispatchInv, FinishRequestInv, Zenon
<1>3. ASSUME NEW needs \in SUBSET Requests, NEW preempted \in SUBSET Requests,
             ExecuteModel(needs, preempted) \/ DropOutput(preempted)
      PROVE  IInv'
  BY <1>3, ExecuteModelInv, DropOutputInv, Zenon
<1>4. CASE OtherMethod
  BY <1>4, OtherMethodInv, Zenon
<1>5. CASE EngineStep
  BY <1>5, PutInv, EndSpinInv, CollectInv, Zenon DEF EngineStep
<1>6. ASSUME NEW w \in Workers, Feed(w) \/ WorkerStep(w) PROVE IInv'
  BY <1>6, FeedInv, DrainInv, WaitInv, JoinInv, FinishInv, FailInv, Zenon DEF WorkerStep
<1> QED  BY <1>1, <1>2, <1>3, <1>4, <1>5, <1>6, Zenon DEF ExecNext

\* The invariant holds in every reachable state.
THEOREM ExecutorInvariant == ExecSpec => []IInv
<1>1. ExecInit => IInv
  BY InitInv, Zenon
<1>2. IInv /\ [ExecNext]_execVars => IInv'
  BY NextInv, Zenon
<1> QED  BY <1>1, <1>2, PTL DEF ExecSpec

\* A worker that has left the loops of worker_busy_loop holds the outputs that
\* the step needs, however late the feeder threads were, except those that the
\* workers were told to drop: the assertion of _gather_encoder_outputs fails
\* for the preempted requests that are computed again, and for no other.
THEOREM OnlyDroppedAreMissing == ExecSpec => []MissingWereDropped
<1>1. IInv => MissingWereDropped
  <2> SUFFICES ASSUME IInv, NEW w \in Workers, Ready(w), NEW r \in call.needs
               PROVE  r \in cache[w] \ Dropped <=> r \notin told
    BY Zenon DEF MissingWereDropped
  <2>1. worker[w] = "wait" /\ remaining[w] = <<>> /\ r \in Requests
    BY Zenon DEF Ready, IInv, ExecTypeOK
  <2>2. InStep /\ ~Through(w)
    BY <2>1, Zenon DEF IInv, Control, Through
  <2>3. SentTo(w) = Len(encoderReqIds)
    BY <2>2, StepFacts, Zenon
  <2>4. Len(Untaken(w)) = 0
    <3>1. Len(Untaken(w)) <= Len(remaining[w]) /\ Len(Untaken(w)) \in Nat
      BY <2>1, QueueFacts, Zenon DEF IInv, Queues
    <3>2. Len(remaining[w]) = 0
      BY <2>1
    <3> QED  BY <3>1, <3>2
  <2>5. r \notin Dropped /\ r \in handed
    BY <2>1, Zenon DEF IInv, Stages
  <2>6. CASE InIds(r)
    <3>1. PICK i \in 1 .. Len(encoderReqIds) : encoderReqIds[i] = r
      BY <2>6, Zenon DEF InIds
    <3>2. encoderReqIds[i] \in cache[w] <=> i <= SentTo(w) - Len(Untaken(w))
      BY <2>2, Zenon DEF IInv, Held
    <3>3. i <= Len(encoderReqIds) - 0
      OBVIOUS
    <3>4. r \notin told
      BY <2>1, <2>5, <2>6, Zenon DEF IInv, Stages
    <3> QED  BY <3>1, <3>2, <3>3, <3>4, <2>3, <2>4, <2>5, Zenon
  <2>7. CASE ~InIds(r)
    BY <2>1, <2>5, <2>7, Zenon DEF IInv, Stages
  <2> QED  BY <2>6, <2>7, Zenon
<1> QED  BY <1>1, ExecutorInvariant, PTL

\* Between two calls the queue of every worker, buffer and pipe together, is
\* the list of the ids dispatched since the last step.
THEOREM QueuesAreTheIds == ExecSpec => []QueuesHoldNewResults
<1>1. IInv => QueuesHoldNewResults
  <2> SUFFICES ASSUME IInv, engine = "idle", NEW w \in Workers
               PROVE  Untaken(w) = encoderReqIds
    BY ZenonT(40) DEF QueuesHoldNewResults, Untaken
  <2> DEFINE q == Untaken(w)
             ids == encoderReqIds
  <2>1. /\ q \in Seq(Requests) /\ ids \in Seq(Requests)
        /\ EndOf(q, ids, Len(ids)) /\ Len(q) = Len(ids)
    BY IdleFacts, QueueFacts, Zenon
  <2> HIDE DEF q, ids
  <2>2. q = ids
    BY <2>1, EndOfAll, Zenon
  <2> QED  BY <2>2, Zenon DEF q, ids
<1> QED  BY <1>1, ExecutorInvariant, PTL

\* Between two calls all workers of the group hold the same encoder outputs.
THEOREM GroupAgrees == ExecSpec => []WorkersAgree
<1>1. IInv => WorkersAgree
  <2> SUFFICES ASSUME IInv, engine = "idle", NEW v \in Workers, NEW w \in Workers
               PROVE  cache[v] = cache[w]
    BY Zenon DEF WorkersAgree
  <2>1. /\ Dropped = {} /\ Len(encoderReqIds) \in Nat
        /\ \A x \in Workers : /\ ~Through(x) /\ SentTo(x) = Len(encoderReqIds)
                              /\ Len(Untaken(x)) = Len(encoderReqIds)
    BY IdleFacts, QueueFacts, Zenon
  <2>2. \A x \in Workers, i \in 1 .. Len(encoderReqIds) : encoderReqIds[i] \notin cache[x]
    <3>1. \A x \in Workers, i \in 1 .. Len(encoderReqIds) :
                encoderReqIds[i] \in cache[x] <=> i <= SentTo(x) - Len(Untaken(x))
      BY <2>1, Zenon DEF IInv, Held
    <3>2. \A x \in Workers : SentTo(x) - Len(Untaken(x)) = 0
      BY <2>1
    <3>3. \A i \in 1 .. Len(encoderReqIds) : ~(i <= 0)
      OBVIOUS
    <3> QED  BY <3>1, <3>2, <3>3, Zenon
  <2>3. \A r \in Requests : InIds(r) => r \notin cache[v] /\ r \notin cache[w]
    BY <2>2, Zenon DEF InIds
  <2>4. cache[v] \subseteq Requests /\ cache[w] \subseteq Requests
    BY Zenon DEF IInv, ExecTypeOK
  <2>5. \A r \in Requests : r \in cache[v] <=> r \in cache[w]
    BY <2>1, <2>3, Zenon DEF IInv, Agree
  <2> QED  BY <2>4, <2>5, Zenon
<1> QED  BY <1>1, ExecutorInvariant, PTL

\* Between two calls the outputs that a worker holds are of requests that may
\* still need them, that it is about to be told of, or of whose end it has
\* missed the notice.
THEOREM OutputsAreReleased == ExecSpec => []OutputsReleased
<1>1. IInv => OutputsReleased
  <2> SUFFICES ASSUME IInv, engine = "idle", NEW w \in Workers, NEW r \in cache[w]
               PROVE  stage[r] = "ready" \/ r \in finishedReqIds \cup freed \cup missed
    BY Zenon DEF OutputsReleased
  <2>1. r \in Requests /\ Dropped = {}
    BY IdleFacts, Zenon DEF IInv, ExecTypeOK
  <2> QED  BY <2>1, Zenon DEF IInv, Stages
<1> QED  BY <1>1, ExecutorInvariant, PTL
=============================================================================

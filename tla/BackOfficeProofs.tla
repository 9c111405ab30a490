-------------------------- MODULE BackOfficeProofs --------------------------
(***************************************************************************)
(* RetriedWasQueued, RecordIsOneCount and RetriesBounded for any number of *)
(* notifications, requests and faults.  None is inductive by itself:       *)
(*  - a commit must know that its request has published, which QueuedInv   *)
(*    says of the retry that has been flushed and of every entry a bulk    *)
(*    retry has read;                                                      *)
(*  - an aggregation that merges into the record it has looked up must     *)
(*    know that it still is the record of the last one (CountInv);         *)
(*  - the bound on retries accounts for the requests that may still        *)
(*    publish, those that have and may still fail, and those a purge has   *)
(*    doomed (RetryInv).                                                   *)
(***************************************************************************)
EXTENDS BackOffice, FiniteSetTheorems, SequenceTheorems, TLAPS

Reads == Statuses \cup {"absent"}
Tallies == [Counters -> Nat]
Read == [n : Notifications, status : Reads]

\* What a request may be doing.
Retries == [op : {"retry", "retrying"}, n : Notifications, read : Reads]
Bulks == [op : {"bulk"}, todo : SUBSET Notifications, read : Seq(Read)]
Work == {Idle}
        \cup [op : {"entry", "discard"}, n : Notifications]
        \cup Retries
        \cup Bulks
        \cup [op : {"aggregate"}, data : Tallies]
        \cup [op : {"upsert"}, data : Tallies, found : Seq(Tallies)]

ReqInv == req \in [Slots -> Work]

QueuedInv ==
    \A q \in Slots :
        /\ req[q].op = "retrying" => published[req[q].n] > 0 /\ Exists(req[q].n)
        /\ req[q].op = "bulk" =>
              \A i \in DOMAIN req[q].read : published[req[q].read[i].n] > 0

Types ==
    /\ TypeOK
    /\ records \in Seq(Tallies)
    /\ ReqInv

Inv == Types /\ QueuedInv /\ RetriedWasQueued

-----------------------------------------------------------------------------
LEMMA Shapes ==
    ASSUME ReqInv, NEW q \in Slots
    PROVE  /\ req[q].op \in {"entry", "discard"} => req[q].n \in Notifications
           /\ req[q].op \in {"retry", "retrying"} => req[q] \in Retries
           /\ req[q].op = "bulk" => req[q] \in Bulks
           /\ req[q].op \in {"aggregate", "upsert"} => req[q].data \in Tallies
  BY DEF ReqInv, Work, Idle, Retries, Bulks

LEMMA TallyType == Tally \in Tallies
<1>1. \A S \in SUBSET Notifications : Cardinality(S) \in Nat
  BY BackOfficeAssumption, FS_Subset, FS_CardinalityType
<1>2. \A s : Count(s) \in Nat
  BY <1>1 DEF Count
<1>3. Cardinality({n \in Notifications :
          status[n] = "SKIPPED" /\ reason[n] = "dnd_registered"}) \in Nat
  BY <1>1
<1>4. ASSUME NEW c \in Counters
      PROVE  Tally[c] \in Nat
  <2> USE DEF Counters
  <2>1. CASE c \in {"total_sent", "total_delivered"}
    BY <1>2, <2>1 DEF Tally
  <2>2. CASE c = "skip_dnd"
    BY <1>3, <2>2 DEF Tally
  <2>3. CASE c \in {"total_failed", "total_skipped", "total_retried", "total_dead"}
    BY <1>2, <2>3 DEF Tally
  <2> QED
    BY <2>1, <2>2, <2>3
<1> QED
  BY <1>4 DEF Tally, Tallies

\* A publication counts for its notification and takes nothing from others.
LEMMA Published ==
    ASSUME Types, NEW n \in Notifications, Publish(n)
    PROVE  /\ queue' \in [Notifications -> Nat]
           /\ published' \in [Notifications -> Nat]
           /\ published'[n] > 0
           /\ \A m \in Notifications : published'[m] >= published[m]
<1>1. queue \in [Notifications -> Nat] /\ published \in [Notifications -> Nat]
  BY DEF Types, TypeOK
<1>2. /\ queue[n] + 1 \in Nat
      /\ published[n] + 1 \in Nat /\ published[n] + 1 > 0
      /\ published[n] + 1 >= published[n]
      /\ \A m \in Notifications : published[m] >= published[m]
  BY <1>1
<1> QED
  BY <1>1, <1>2 DEF Publish

LEMMA InvInit == Init => Inv
<1> SUFFICES ASSUME Init
             PROVE  Inv
  OBVIOUS
<1>1. TypeOK
  <2>1. Len(records) <= 1 /\ \A i \in DOMAIN records : records[i] \in [Counters -> Nat]
    BY DEF Init
  <2>2. /\ status \in [Notifications -> Reads]
        /\ \A n \in Notifications : ~Exists(n) => entry[n] = "none"
    BY DEF Init, Exists, Reads, Statuses
  <2>3. overlap \in BOOLEAN
    BY Zenon DEF Init
  <2>4. /\ reason \in [Notifications -> SkipReason]
        /\ entry \in [Notifications -> {"none", "open"} \cup Resolutions]
        /\ queue \in [Notifications -> Nat]
        /\ spent \in 0..MaxRequests
        /\ faults \in 0..MaxFaults
        /\ published \in [Notifications -> Nat]
    BY BackOfficeAssumption DEF Init
  <2> QED
    BY <2>1, <2>2, <2>3, <2>4 DEF TypeOK, Reads
<1>2. records \in Seq(Tallies) /\ ReqInv
  BY DEF Init, ReqInv, Work
<1>3. QueuedInv /\ RetriedWasQueued
  BY DEF Init, QueuedInv, RetriedWasQueued, Idle
<1> QED
  BY <1>1, <1>2, <1>3 DEF Inv, Types

-----------------------------------------------------------------------------
\* What a request has published stays published: if a step takes nothing
\* from published and a request's new work is accounted for, QueuedInv holds.
LEMMA KeepsQueued ==
    ASSUME Types, QueuedInv, NEW q \in Slots, NEW w \in Work,
           req' = [req EXCEPT ![q] = w],
           published' \in [Notifications -> Nat],
           \A m \in Notifications : published'[m] >= published[m],
           \A m \in Notifications : status'[m] = "absent" => status[m] = "absent",
           w.op = "retrying" => published'[w.n] > 0 /\ status'[w.n] # "absent",
           w.op = "bulk" => \A i \in DOMAIN w.read : published'[w.read[i].n] > 0
    PROVE  ReqInv' /\ QueuedInv'
<1>1. ReqInv'
  BY DEF Types, ReqInv
<1>2. ASSUME NEW p \in Slots
      PROVE  /\ req'[p].op = "retrying" =>
                   published'[req'[p].n] > 0 /\ status'[req'[p].n] # "absent"
             /\ req'[p].op = "bulk" =>
                   \A i \in DOMAIN req'[p].read : published'[req'[p].read[i].n] > 0
  <2>1. CASE p = q
    BY <2>1 DEF Types, ReqInv
  <2>2. CASE p # q
    <3>1. req'[p] = req[p]
      BY <2>2 DEF Types, ReqInv
    <3>2. req[p].op = "retrying" => req[p].n \in Notifications
      BY Shapes DEF Types, Retries
    <3>3. req[p].op = "bulk" => \A i \in DOMAIN req[p].read : req[p].read[i].n \in Notifications
      <4>1. req[p].op = "bulk" => req[p].read \in Seq(Read)
        BY Shapes DEF Types, Bulks
      <4>2. req[p].op = "bulk" => \A i \in DOMAIN req[p].read : req[p].read[i] \in Read
        BY <4>1
      <4> QED
        BY <4>2 DEF Read
    <3>4. published \in [Notifications -> Nat]
      BY DEF Types, TypeOK
    <3>5. req[p].op = "retrying" => published[req[p].n] > 0 /\ status[req[p].n] # "absent"
      BY DEF QueuedInv, Exists
    <3>6. req[p].op = "bulk" => \A i \in DOMAIN req[p].read : published[req[p].read[i].n] > 0
      BY DEF QueuedInv
    <3> QED
      BY <3>1, <3>2, <3>3, <3>4, <3>5, <3>6
  <2> QED
    BY <2>1, <2>2
<1> QED
  BY <1>1, <1>2 DEF QueuedInv, Exists

\* If only entries with a published task become "retried", RetriedWasQueued
\* is kept too.
LEMMA KeepsRetried ==
    ASSUME Types, RetriedWasQueued,
           published' \in [Notifications -> Nat],
           \A m \in Notifications : published'[m] >= published[m],
           \A m \in Notifications : entry'[m] = "retried" =>
               entry[m] = "retried" \/ published'[m] > 0
    PROVE  RetriedWasQueued'
  BY DEF Types, TypeOK, RetriedWasQueued

\* A request that begins has read, and changes no table.
LEMMA BeginInv ==
    ASSUME Inv, NEW q \in Slots, NEW w \in Work, Begin(q, w),
           w.op # "retrying", w.op = "bulk" => w.read = <<>>,
           UNCHANGED <<rows, queue, records, faults, published>>,
           overlap' \in BOOLEAN
    PROVE  Inv'
<1> USE DEF Inv
<1>1. spent' \in 0..MaxRequests
  BY BackOfficeAssumption DEF Begin, Types, TypeOK
<1>2. TypeOK'
  BY <1>1 DEF rows, Types, TypeOK, Exists
<1>3. /\ published' \in [Notifications -> Nat]
      /\ \A m \in Notifications : published'[m] >= published[m]
  BY DEF Types, TypeOK
<1>4. w.op = "bulk" => \A i \in DOMAIN w.read : published'[w.read[i].n] > 0
  OBVIOUS
<1>5. ReqInv' /\ QueuedInv'
  BY <1>3, <1>4, KeepsQueued DEF Begin, rows
<1>6. RetriedWasQueued'
  BY <1>3, KeepsRetried DEF rows
<1> QED
  BY <1>2, <1>5, <1>6 DEF Types

LEMMA Beginnings ==
    ASSUME Inv, NEW q \in Slots,
           \/ \E n \in Notifications : BeginRetry(q, n) \/ BeginDiscard(q, n)
           \/ \E picked \in SUBSET Notifications : BeginBulk(q, picked)
           \/ BeginAggregate(q)
    PROVE  Inv'
<1>0. overlap \in BOOLEAN
  BY DEF Inv, Types, TypeOK
<1>1. ASSUME NEW n \in Notifications, BeginRetry(q, n)
      PROVE  Inv'
  <2>1. [op |-> "entry", n |-> n] \in Work
    BY DEF Work
  <2> QED
    BY <1>0, <1>1, <2>1, BeginInv DEF BeginRetry, ghosts
<1>2. ASSUME NEW n \in Notifications, BeginDiscard(q, n)
      PROVE  Inv'
  <2>1. [op |-> "discard", n |-> n] \in Work
    BY DEF Work
  <2> QED
    BY <1>0, <1>2, <2>1, BeginInv DEF BeginDiscard, ghosts
<1>3. ASSUME NEW picked \in SUBSET Notifications, BeginBulk(q, picked)
      PROVE  Inv'
  <2>1. [op |-> "bulk", todo |-> picked, read |-> <<>>] \in Work
    BY DEF Work, Bulks
  <2> QED
    BY <1>0, <1>3, <2>1, BeginInv DEF BeginBulk, ghosts
<1>4. CASE BeginAggregate(q)
  <2>1. [op |-> "aggregate", data |-> Tally] \in Work
    BY TallyType DEF Work
  <2>2. overlap' \in BOOLEAN
    BY <1>0, <1>4, Zenon DEF BeginAggregate
  <2> QED
    BY <1>4, <2>1, <2>2, BeginInv DEF BeginAggregate
<1> QED
  BY <1>1, <1>2, <1>3, <1>4

\* A request that goes on, or ends, without touching a table.
LEMMA MovesInv ==
    ASSUME Inv, NEW q \in Slots, NEW w \in Work, req' = [req EXCEPT ![q] = w],
           w.op = "retrying" => published'[w.n] > 0 /\ Exists(w.n),
           w.op = "bulk" => \A i \in DOMAIN w.read : published'[w.read[i].n] > 0,
           UNCHANGED <<rows, records, spent, overlap>>,
           faults' \in 0..MaxFaults,
           \/ UNCHANGED <<queue, published>>
           \/ \E n \in Notifications : Publish(n)
    PROVE  Inv'
<1> USE DEF Inv
<1>1. /\ queue' \in [Notifications -> Nat]
      /\ published' \in [Notifications -> Nat]
      /\ \A m \in Notifications : published'[m] >= published[m]
  <2>1. CASE UNCHANGED <<queue, published>>
    BY <2>1 DEF Types, TypeOK
  <2>2. CASE \E n \in Notifications : Publish(n)
    BY <2>2, Published
  <2> QED
    BY <2>1, <2>2
<1>2. TypeOK'
  BY <1>1 DEF rows, Types, TypeOK, Exists
<1>3. ReqInv' /\ QueuedInv'
  BY <1>1, KeepsQueued DEF rows, Exists
<1>4. RetriedWasQueued'
  BY <1>1, KeepsRetried DEF rows
<1> QED
  BY <1>2, <1>3, <1>4 DEF Types

LEMMA Moves ==
    ASSUME Inv, NEW q \in Slots,
           \/ ReadNotification(q) \/ retry_dlq_entry(q) \/ RetryFails(q)
           \/ \E n \in Notifications : BulkNext(q, n)
           \/ BulkFails(q) \/ LookUpRecord(q) \/ AggregateFails(q)
    PROVE  Inv'
<1>0. /\ Idle \in Work /\ Idle.op = "idle"
      /\ faults \in 0..MaxFaults
      /\ Fault => faults' \in 0..MaxFaults
      /\ ReqInv
  BY BackOfficeAssumption DEF Inv, Types, TypeOK, Fault, Work, Idle
<1>1. CASE ReadNotification(q)
  <2> DEFINE w == [op |-> "retry", n |-> req[q].n, read |-> status[req[q].n]]
  <2>1. req[q].n \in Notifications
    BY <1>0, <1>1, Shapes DEF ReadNotification
  <2>2. status[req[q].n] \in Reads
    BY <2>1 DEF Inv, Types, TypeOK, Reads
  <2>3. w \in Work /\ w.op = "retry"
    BY <2>1, <2>2 DEF Work, Retries
  <2> QED
    BY <1>0, <1>1, <2>3, MovesInv DEF ReadNotification, ghosts
<1>2. CASE retry_dlq_entry(q)
  <2>1. req[q] \in Retries /\ req[q].n \in Notifications
    BY <1>0, <1>2, Shapes DEF retry_dlq_entry, Retries
  <2>2. CASE Exists(req[q].n)
    <3> DEFINE w == [req[q] EXCEPT !.op = "retrying"]
    <3>1. w \in Work /\ w.op = "retrying" /\ w.n = req[q].n
      BY <2>1 DEF Work, Retries
    <3>2. Publish(req[q].n) /\ req' = [req EXCEPT ![q] = w]
      BY <1>2, <2>2 DEF retry_dlq_entry
    <3>3. published'[w.n] > 0 /\ Exists(w.n)
      BY <2>1, <2>2, <3>1, <3>2, Published DEF Inv
    <3> HIDE DEF w
    <3> QED
      BY <1>0, <1>2, <2>1, <3>1, <3>2, <3>3, MovesInv DEF retry_dlq_entry
  <2>3. CASE ~Exists(req[q].n)
    BY <1>0, <1>2, <2>3, MovesInv DEF retry_dlq_entry, End
  <2> QED
    BY <2>2, <2>3
<1>3. CASE RetryFails(q)
  <2>1. (\E n \in Notifications : Publish(n)) \/ UNCHANGED <<queue, published>>
    <3>1. req[q].op = "retry" => req[q].n \in Notifications
      BY <1>0, Shapes DEF Retries
    <3> QED
      BY <1>3, <3>1 DEF RetryFails
  <2> QED
    BY <1>0, <1>3, <2>1, MovesInv DEF RetryFails, End
<1>4. ASSUME NEW n \in Notifications, BulkNext(q, n)
      PROVE  Inv'
  <2> DEFINE r == [n |-> n, status |-> status[n]]
             left == req[q].todo \ {n}
             read == Append(req[q].read, r)
             w == [req[q] EXCEPT !.todo = left, !.read = read]
  <2>1. req[q] \in Bulks /\ Publish(n) /\ req' = [req EXCEPT ![q] = w]
    BY <1>0, <1>4, Shapes DEF BulkNext
  <2>2. req[q].read \in Seq(Read) /\ r \in Read /\ r.n = n
    BY <2>1 DEF Bulks, Read, Inv, Types, TypeOK, Reads
  <2>3. /\ w \in Bulks /\ w.op = "bulk" /\ w.read = Append(req[q].read, r)
        /\ w \in Work
    <3> HIDE DEF r
    <3>1. left \in SUBSET Notifications /\ read \in Seq(Read)
      BY <2>1, <2>2 DEF Bulks
    <3> HIDE DEF left, read
    <3>2. w \in Bulks /\ w.op = "bulk" /\ w.read = read
      BY <2>1, <3>1 DEF Bulks
    <3> QED
      BY <3>2 DEF Work, read
  <2>4. /\ published'[n] > 0
        /\ \A m \in Notifications : published'[m] >= published[m]
        /\ published' \in [Notifications -> Nat]
        /\ published \in [Notifications -> Nat]
    BY <2>1, Published DEF Inv, Types, TypeOK
  <2>5. ASSUME NEW i \in DOMAIN w.read
        PROVE  published'[w.read[i].n] > 0
    <3> HIDE DEF r, w
    <3>1. CASE i \in DOMAIN req[q].read
      <4>1. w.read[i] = req[q].read[i] /\ req[q].read[i] \in Read
        BY <2>2, <2>3, <3>1
      <4>2. published[req[q].read[i].n] > 0
        BY <2>1, <3>1 DEF Inv, QueuedInv, Bulks
      <4>3. req[q].read[i].n \in Notifications
        BY <4>1 DEF Read
      <4> QED
        BY <2>4, <4>1, <4>2, <4>3
    <3>2. CASE i \notin DOMAIN req[q].read
      <4>1. w.read[i] = r
        BY <2>2, <2>3, <3>2
      <4> QED
        BY <2>2, <2>4, <4>1
    <3> QED
      BY <3>1, <3>2
  <2> HIDE DEF w
  <2> QED
    BY <1>0, <1>4, <2>1, <2>3, <2>5, MovesInv DEF BulkNext
<1>5. CASE BulkFails(q)
  <2>1. (\E n \in Notifications : Publish(n)) \/ UNCHANGED <<queue, published>>
    <3>1. req[q].todo \subseteq Notifications
      BY <1>0, <1>5, Shapes DEF BulkFails, Bulks
    <3> QED
      BY <1>5, <3>1 DEF BulkFails
  <2> QED
    BY <1>0, <1>5, <2>1, MovesInv DEF BulkFails, End
<1>6. CASE LookUpRecord(q)
  <2>1. CASE Len(records) > 1
    BY <1>0, <1>6, <2>1, MovesInv DEF LookUpRecord, ghosts
  <2>2. CASE ~(Len(records) > 1)
    <3> DEFINE w == [op |-> "upsert", data |-> req[q].data, found |-> records]
    <3>1. req[q].data \in Tallies /\ records \in Seq(Tallies)
      BY <1>0, <1>6, Shapes DEF LookUpRecord, Inv, Types
    <3>2. w \in Work /\ w.op = "upsert"
      BY <3>1 DEF Work
    <3> QED
      BY <1>0, <1>6, <2>2, <3>2, MovesInv DEF LookUpRecord, ghosts
  <2> QED
    BY <2>1, <2>2
<1>7. CASE AggregateFails(q)
  BY <1>0, <1>7, MovesInv DEF AggregateFails, End, ghosts
<1> QED
  BY <1>1, <1>2, <1>3, <1>4, <1>5, <1>6, <1>7

\* The requests that write entries: after a retry's publication, at the
\* commit of a bulk retry, and for a discard.
LEMMA Commits ==
    ASSUME Inv, NEW q \in Slots,
           RetryCommit(q) \/ discard_dlq_entry(q) \/ bulk_retry_dlq(q)
    PROVE  Inv'
<1> USE DEF Inv
<1>0. /\ Idle \in Work /\ Idle.op = "idle"
      /\ published \in [Notifications -> Nat]
      /\ \A m \in Notifications : published[m] >= published[m]
      /\ ReqInv
      /\ status \in [Notifications -> Reads]
      /\ entry \in [Notifications -> {"none", "open"} \cup Resolutions]
      /\ \A m \in Notifications : ~Exists(m) => entry[m] = "none"
  BY DEF Types, TypeOK, Work, Idle, Reads
<1>1. ASSUME UNCHANGED <<reason, queue, records, spent, faults, ghosts>>, End(q),
             status' \in [Notifications -> Reads],
             entry' \in [Notifications -> {"none", "open"} \cup Resolutions],
             \A m \in Notifications : status'[m] = "absent" => entry'[m] = "none",
             \A m \in Notifications : status'[m] = "absent" => status[m] = "absent",
             \A m \in Notifications : entry'[m] = "retried" =>
                 entry[m] = "retried" \/ published[m] > 0
      PROVE  Inv'
  <2>1. published' = published /\ overlap' = overlap
    BY <1>1 DEF ghosts
  <2>2. TypeOK'
    BY <1>1, <2>1 DEF Types, TypeOK, Exists, Reads
  <2>3. ReqInv' /\ QueuedInv'
    BY <1>0, <1>1, <2>1, KeepsQueued DEF End
  <2>4. RetriedWasQueued'
    BY <1>0, <1>1, <2>1, KeepsRetried
  <2> QED
    BY <1>1, <2>2, <2>3, <2>4 DEF Types
<1>2. CASE RetryCommit(q)
  <2> DEFINE n == req[q].n
  <2>1. n \in Notifications /\ published[n] > 0 /\ Exists(n)
    BY <1>0, <1>2, Shapes DEF RetryCommit, Retries, QueuedInv
  <2>2. status' \in [Notifications -> Reads]
    BY <1>0, <1>2, <2>1 DEF RetryCommit, Reset, Reads, Statuses
  <2>3. entry' \in [Notifications -> {"none", "open"} \cup Resolutions]
    BY <1>0, <1>2 DEF RetryCommit, Resolutions
  <2>4. \A m \in Notifications : entry'[m] = "retried" =>
            entry[m] = "retried" \/ published[m] > 0
    BY <1>0, <1>2, <2>1 DEF RetryCommit
  <2>5. \A m \in Notifications : status'[m] = "absent" =>
            entry'[m] = "none" /\ status[m] = "absent"
    BY <1>0, <1>2, <2>1 DEF RetryCommit, Reset, Exists
  <2> QED
    BY <1>1, <1>2, <2>2, <2>3, <2>4, <2>5 DEF RetryCommit
<1>3. CASE discard_dlq_entry(q)
  BY <1>0, <1>1, <1>3 DEF discard_dlq_entry, Resolutions, Exists
<1>4. CASE bulk_retry_dlq(q)
  <2> DEFINE done == req[q].read
             has == {done[i].n : i \in DOMAIN done}
             ReadAs(n) == (CHOOSE r \in {done[i] : i \in DOMAIN done} : r.n = n).status
  <2>1. CASE \A n \in has : Exists(n)
    <3>1. /\ entry' = [n \in Notifications |-> IF n \in has THEN "retried" ELSE entry[n]]
          /\ status' = [n \in Notifications |->
                IF n \in has THEN Reset(n, ReadAs(n)) ELSE status[n]]
      BY <1>4, <2>1 DEF bulk_retry_dlq
    <3>2. \A n \in has : published[n] > 0
      BY <1>4 DEF bulk_retry_dlq, QueuedInv
    <3> HIDE DEF has, ReadAs
    <3>3. \A n \in Notifications : Reset(n, ReadAs(n)) \in {"PENDING", status[n]}
      BY DEF Reset
    <3>4. status' \in [Notifications -> Reads]
      BY <1>0, <3>1, <3>3 DEF Reads, Statuses
    <3>5. entry' \in [Notifications -> {"none", "open"} \cup Resolutions]
      BY <1>0, <3>1 DEF Resolutions
    <3>6. \A m \in Notifications : entry'[m] = "retried" =>
              entry[m] = "retried" \/ published[m] > 0
      BY <3>1, <3>2
    <3>7. \A m \in Notifications : status'[m] = "absent" =>
              entry'[m] = "none" /\ status[m] = "absent"
      BY <1>0, <2>1, <3>1, <3>3 DEF Exists
    <3> QED
      BY <1>1, <1>4, <3>4, <3>5, <3>6, <3>7 DEF bulk_retry_dlq
  <2>2. CASE ~(\A n \in has : Exists(n))
    <3>1. UNCHANGED <<entry, status>>
      BY <1>4, <2>2 DEF bulk_retry_dlq
    <3> HIDE DEF has
    <3> QED
      BY <1>0, <1>1, <1>4, <3>1 DEF bulk_retry_dlq, Exists
  <2> QED
    BY <2>1, <2>2
<1> QED
  BY <1>2, <1>3, <1>4

LEMMA UpsertInv ==
    ASSUME Inv, NEW q \in Slots, upsert_daily_aggregates(q)
    PROVE  Inv'
<1> USE DEF Inv
<1>0. /\ Idle \in Work /\ Idle.op = "idle"
      /\ published' = published /\ overlap' = overlap
      /\ published \in [Notifications -> Nat]
      /\ \A m \in Notifications : published[m] >= published[m]
  BY DEF upsert_daily_aggregates, Types, TypeOK, Work, Idle
<1>1. records \in Seq(Tallies) /\ Len(records) <= 1 /\ req[q].data \in Tallies
  BY Shapes DEF upsert_daily_aggregates, Types, TypeOK
<1>2. records' \in Seq(Tallies) /\ Len(records') <= 1
  <2>1. CASE Refused(req[q].found)
    BY <1>1, <2>1 DEF upsert_daily_aggregates
  <2>2. CASE ~Refused(req[q].found) /\ req[q].found = <<>>
    <3>1. records = <<>> /\ records' = Append(records, req[q].data)
      BY <2>2 DEF upsert_daily_aggregates, Refused
    <3> QED
      BY <1>1, <3>1
  <2>3. CASE ~Refused(req[q].found) /\ req[q].found # <<>>
    <3> DEFINE merged == Merged(records[1], req[q].found[1], req[q].data)
    <3>1. records' = [records EXCEPT ![1] = merged]
      BY <2>3 DEF upsert_daily_aggregates
    <3>2. 1 \in DOMAIN records => merged \in Tallies
      <4>1. 1 \in DOMAIN records => records[1] \in Tallies
        BY <1>1
      <4> QED
        BY <1>1, <4>1 DEF Merged, Tallies
    <3> HIDE DEF merged
    <3>3. CASE records = <<>>
      <4>1. records' = [i \in DOMAIN records |-> IF i = 1 THEN merged ELSE records[i]]
        BY <3>1, Zenon
      <4>2. records' = [i \in {} |-> records[i]] /\ records = [i \in {} |-> records[i]]
        BY <3>3, <4>1
      <4> QED
        BY <1>1, <4>2
    <3>4. CASE records # <<>>
      <4>1. 1 \in 1..Len(records) /\ merged \in Tallies
        BY <1>1, <3>2, <3>4
      <4> QED
        BY <1>1, <3>1, <4>1, ExceptSeq
    <3> QED
      BY <3>3, <3>4
  <2> QED
    BY <2>1, <2>2, <2>3
<1>3. \A i \in DOMAIN records' : records'[i] \in [Counters -> Nat]
  BY <1>2 DEF Tallies
<1>4. TypeOK'
  BY <1>0, <1>2, <1>3 DEF upsert_daily_aggregates, rows, Types, TypeOK, Exists
<1>5. ReqInv' /\ QueuedInv'
  BY <1>0, KeepsQueued DEF upsert_daily_aggregates, End, rows
<1>6. RetriedWasQueued'
  BY <1>0, KeepsRetried DEF upsert_daily_aggregates, rows
<1> QED
  BY <1>2, <1>4, <1>5, <1>6 DEF Types

\* Workers, receipts and purges never write an entry "retried".
LEMMA WorldInv ==
    ASSUME Inv,
           \/ \E n \in Notifications :
                 DeadLettered(n) \/ send_notification_task(n) \/ receipt(n)
           \/ purge_dead_letters
           \/ UNCHANGED vars
    PROVE  Inv'
<1> USE DEF Inv
<1>0. /\ published \in [Notifications -> Nat]
      /\ \A m \in Notifications : published[m] >= published[m]
      /\ queue \in [Notifications -> Nat]
      /\ status \in [Notifications -> Reads]
      /\ entry \in [Notifications -> {"none", "open"} \cup Resolutions]
      /\ \A m \in Notifications : status[m] = "absent" => entry[m] = "none"
  BY DEF Types, TypeOK, Reads, Exists
<1>1. ASSUME UNCHANGED <<reason, records, req, spent, faults, published, overlap>>,
             queue' \in [Notifications -> Nat],
             status' \in [Notifications -> Reads],
             entry' \in [Notifications -> {"none", "open"} \cup Resolutions],
             \A m \in Notifications : status'[m] = "absent" => entry'[m] = "none",
             \A m \in Notifications : entry'[m] = "retried" => entry[m] = "retried",
             \A m \in Notifications : Locked(m) /\ status'[m] = "absent" => status[m] = "absent"
      PROVE  Inv'
  <2>1. TypeOK'
    BY <1>1 DEF Types, TypeOK, Exists, Reads
  <2>2. RetriedWasQueued'
    BY <1>0, <1>1, KeepsRetried
  <2>3. ASSUME NEW q \in Slots, req[q].op = "retrying"
        PROVE  status'[req[q].n] # "absent"
    <3>1. req[q].n \in Notifications
      BY <2>3, Shapes DEF Types, Retries
    <3>2. Locked(req[q].n) /\ Exists(req[q].n)
      BY <2>3 DEF Locked, QueuedInv
    <3> QED
      BY <1>1, <3>1, <3>2 DEF Exists
  <2>4. QueuedInv'
    BY <1>1, <2>3 DEF QueuedInv, Exists
  <2> QED
    BY <1>1, <2>1, <2>2, <2>4 DEF Types, ReqInv
<1>2. ASSUME NEW n \in Notifications, DeadLettered(n)
      PROVE  Inv'
  BY <1>0, <1>1, <1>2 DEF DeadLettered, ghosts
<1>3. ASSUME NEW n \in Notifications, send_notification_task(n)
      PROVE  Inv'
  <2>1. queue' \in [Notifications -> Nat]
    BY <1>0, <1>3 DEF send_notification_task
  <2>2. /\ status' \in [Notifications -> Reads]
        /\ \A m \in Notifications : status'[m] = "absent" => status[m] = "absent"
    BY <1>0, <1>3 DEF send_notification_task, Reads, Statuses
  <2> QED
    BY <1>0, <1>1, <1>3, <2>1, <2>2 DEF send_notification_task, ghosts
<1>4. ASSUME NEW n \in Notifications, receipt(n)
      PROVE  Inv'
  BY <1>0, <1>1, <1>4 DEF receipt, ghosts, Reads, Statuses
<1>5. CASE purge_dead_letters
  BY <1>0, <1>1, <1>5 DEF purge_dead_letters, ghosts, Reads
<1>6. CASE UNCHANGED vars
  BY <1>0, <1>1, <1>6 DEF vars, rows, ghosts
<1> QED
  BY <1>2, <1>3, <1>4, <1>5, <1>6

LEMMA InvStep == Inv /\ [Next]_vars => Inv'
<1> SUFFICES ASSUME Inv, [Next]_vars
             PROVE  Inv'
  OBVIOUS
<1>1. ASSUME NEW q \in Slots, Request(q)
      PROVE  Inv'
  BY <1>1, Beginnings, Moves, Commits, UpsertInv DEF Request
<1> QED
  BY <1>1, WorldInv DEF Next

LEMMA InvAlways == Spec => []Inv
  BY InvInit, InvStep, PTL DEF Spec

\* Type correctness, with at most one analytics row
\* (uq_analytics_date_event_channel) and no entry without its notification.
THEOREM TypeCorrect == Spec => []TypeOK
  BY InvAlways, PTL DEF Inv, Types

\* retry_dlq_entry and bulk_retry_dlq resolve an entry as "retried" only when
\* its send task was published, through rollbacks, purges and any number of
\* concurrent requests.
THEOREM RetriedQueued == Spec => []RetriedWasQueued
  BY InvAlways, PTL DEF Inv

-----------------------------------------------------------------------------
(* RecordIsOneCount.  Until two aggregations overlap, at most one is under *)
(* way, the record it has looked up is the one in the table, and that is   *)
(* what the aggregation before it counted.                                 *)

\* Counts of disjoint sets of notifications.
Counted(r) ==
    /\ r["total_delivered"] <= r["total_sent"]
    /\ r["skip_dnd"] <= r["total_skipped"]
    /\ r["total_sent"] + r["total_failed"] + r["total_skipped"]
          + r["total_retried"] + r["total_dead"] <= Cardinality(Notifications)

CountInv ==
    /\ \A q \in Slots : Aggregating(q) => Counted(req[q].data)
    /\ \A i \in DOMAIN last : Counted(last[i])
    /\ ~overlap =>
        /\ records = last
        /\ \A p, q \in Slots : Aggregating(p) /\ Aggregating(q) => p = q
        /\ \A q \in Slots : req[q].op = "upsert" => req[q].found = records

LEMMA DisjointCounts ==
    ASSUME NEW S, IsFiniteSet(S), NEW A \in SUBSET S, NEW B \in SUBSET S, A \cap B = {}
    PROVE  /\ Cardinality(A) \in Nat /\ Cardinality(B) \in Nat
           /\ Cardinality(A \cup B) = Cardinality(A) + Cardinality(B)
<1>1. IsFiniteSet(A) /\ IsFiniteSet(B)
  BY FS_Subset
<1>2. Cardinality(A) \in Nat /\ Cardinality(B) \in Nat
  BY <1>1, FS_CardinalityType
<1>3. Cardinality(A \cup B) = Cardinality(A) + Cardinality(B) - Cardinality(A \cap B)
  BY <1>1, FS_Union
<1>4. Cardinality(A \cap B) = 0
  BY FS_EmptySet
<1> QED
  BY <1>2, <1>3, <1>4

LEMMA TallyCounted == Counted(Tally)
<1> DEFINE N == Notifications
           Of(s) == {n \in N : status[n] = s}
           dnd == {n \in N : status[n] = "SKIPPED" /\ reason[n] = "dnd_registered"}
           C1 == Of("DELIVERED") \cup Of("FAILED")
           C2 == C1 \cup Of("SKIPPED")
           C3 == C2 \cup Of("RETRYING")
           C4 == C3 \cup Of("DEAD")
<1>0. IsFiniteSet(N)
  BY BackOfficeAssumption
<1>1. /\ Tally["total_sent"] = Cardinality(Of("DELIVERED"))
      /\ Tally["total_delivered"] = Cardinality(Of("DELIVERED"))
      /\ Tally["total_failed"] = Cardinality(Of("FAILED"))
      /\ Tally["total_skipped"] = Cardinality(Of("SKIPPED"))
      /\ Tally["total_retried"] = Cardinality(Of("RETRYING"))
      /\ Tally["total_dead"] = Cardinality(Of("DEAD"))
      /\ Tally["skip_dnd"] = Cardinality(dnd)
  BY DEF Tally, Counters, Count
<1>2. \A s : Cardinality(Of(s)) \in Nat
  BY <1>0, FS_Subset, FS_CardinalityType
<1>3. Cardinality(dnd) <= Cardinality(Of("SKIPPED"))
  <2>1. dnd \in SUBSET Of("SKIPPED") /\ Of("SKIPPED") \in SUBSET N
    OBVIOUS
  <2>2. IsFiniteSet(Of("SKIPPED"))
    BY <1>0, <2>1, FS_Subset
  <2> HIDE DEF Of, dnd
  <2> QED
    BY <2>1, <2>2, FS_Subset
<1>4. /\ Of("DELIVERED") \cap Of("FAILED") = {}
      /\ C1 \cap Of("SKIPPED") = {}
      /\ C2 \cap Of("RETRYING") = {}
      /\ C3 \cap Of("DEAD") = {}
  OBVIOUS
<1>5. /\ \A s : Of(s) \in SUBSET N
      /\ C1 \in SUBSET N /\ C2 \in SUBSET N /\ C3 \in SUBSET N /\ C4 \in SUBSET N
  OBVIOUS
<1> HIDE DEF N, Of, dnd
<1>6. Cardinality(C1) = Cardinality(Of("DELIVERED")) + Cardinality(Of("FAILED"))
  <2>1. Of("DELIVERED") \in SUBSET N /\ Of("FAILED") \in SUBSET N /\ Of("DELIVERED") \cap Of("FAILED") = {}
    BY <1>4, <1>5
  <2>2. Cardinality(Of("DELIVERED") \cup Of("FAILED")) = Cardinality(Of("DELIVERED")) + Cardinality(Of("FAILED"))
    BY ONLY <1>0, <2>1, DisjointCounts
  <2> QED
    BY <2>2
<1> HIDE DEF C1
<1>7. Cardinality(C2) = Cardinality(C1) + Cardinality(Of("SKIPPED"))
  <2>1. C1 \in SUBSET N /\ Of("SKIPPED") \in SUBSET N /\ C1 \cap Of("SKIPPED") = {}
    BY <1>4, <1>5
  <2>2. Cardinality(C1 \cup Of("SKIPPED")) = Cardinality(C1) + Cardinality(Of("SKIPPED"))
    BY ONLY <1>0, <2>1, DisjointCounts
  <2> QED
    BY <2>2
<1> HIDE DEF C2
<1>8. Cardinality(C3) = Cardinality(C2) + Cardinality(Of("RETRYING"))
  <2>1. C2 \in SUBSET N /\ Of("RETRYING") \in SUBSET N /\ C2 \cap Of("RETRYING") = {}
    BY <1>4, <1>5
  <2>2. Cardinality(C2 \cup Of("RETRYING")) = Cardinality(C2) + Cardinality(Of("RETRYING"))
    BY ONLY <1>0, <2>1, DisjointCounts
  <2> QED
    BY <2>2
<1> HIDE DEF C3
<1>9. Cardinality(C4) = Cardinality(C3) + Cardinality(Of("DEAD"))
  <2>1. C3 \in SUBSET N /\ Of("DEAD") \in SUBSET N /\ C3 \cap Of("DEAD") = {}
    BY <1>4, <1>5
  <2>2. Cardinality(C3 \cup Of("DEAD")) = Cardinality(C3) + Cardinality(Of("DEAD"))
    BY ONLY <1>0, <2>1, DisjointCounts
  <2> QED
    BY <2>2
<1> HIDE DEF C4
<1>10. Cardinality(C4) <= Cardinality(N)
  BY <1>0, <1>5, FS_Subset
<1> QED
  BY <1>1, <1>2, <1>3, <1>6, <1>7, <1>8, <1>9, <1>10 DEF Counted, N

\* Over the record it was read from, the new tally is the whole result.
LEMMA MergedAlone ==
    ASSUME NEW old, NEW data \in Tallies
    PROVE  Merged(old, old, data) = data
<1>1. \A c \in Counters : Merged(old, old, data)[c] = data[c]
  BY DEF Merged
<1> QED
  BY <1>1 DEF Merged, Tallies

LEMMA CountInit == Init => CountInv
  BY DEF Init, CountInv, Aggregating, Idle

\* Nothing that leaves the record and the aggregations alone matters.
LEMMA CountKept ==
    ASSUME CountInv, UNCHANGED <<records, last, overlap>>,
           \A q \in Slots : Aggregating(q)' => req'[q] = req[q]
    PROVE  CountInv'
<1>1. \A q \in Slots : Aggregating(q)' => Aggregating(q) /\ req'[q] = req[q]
  BY DEF Aggregating
<1>2. \A q \in Slots : req'[q].op = "upsert" => req[q].op = "upsert" /\ req'[q] = req[q]
  BY <1>1 DEF Aggregating
<1> QED
  BY <1>1, <1>2 DEF CountInv

LEMMA CountRequest ==
    ASSUME Inv, CountInv, NEW q \in Slots, Request(q)
    PROVE  CountInv'
<1>0. req \in [Slots -> Work] /\ Idle.op = "idle"
  BY DEF Inv, Types, ReqInv, Idle
<1>1. ASSUME NEW w, req' = [req EXCEPT ![q] = w], w.op \notin {"aggregate", "upsert"},
             UNCHANGED <<records, last, overlap>>
      PROVE  CountInv'
  <2>1. \A p \in Slots : Aggregating(p)' => req'[p] = req[p]
    BY <1>0, <1>1 DEF Aggregating
  <2> QED
    BY <1>1, <2>1, CountKept
<1>2. ASSUME NEW n \in Notifications, BeginRetry(q, n) \/ BeginDiscard(q, n) \/ BulkNext(q, n)
      PROVE  CountInv'
  <2>1. CASE BeginRetry(q, n)
    BY <1>1, <2>1 DEF BeginRetry, Begin, ghosts
  <2>2. CASE BeginDiscard(q, n)
    BY <1>1, <2>2 DEF BeginDiscard, Begin, ghosts
  <2>3. CASE BulkNext(q, n)
    <3> DEFINE r == Append(req[q].read, [n |-> n, status |-> status[n]])
               t == req[q].todo \ {n}
               w == [req[q] EXCEPT !.todo = t, !.read = r]
    <3>1. req[q] \in Bulks /\ req' = [req EXCEPT ![q] = w]
      BY <2>3, Shapes DEF BulkNext, Inv, Types
    <3> HIDE DEF r, t
    <3>2. w.op = "bulk"
      BY <3>1 DEF Bulks
    <3> HIDE DEF w
    <3> QED
      BY <1>1, <2>3, <3>1, <3>2 DEF BulkNext
  <2> QED
    BY <1>2, <2>1, <2>2, <2>3
<1>3. ASSUME NEW picked \in SUBSET Notifications, BeginBulk(q, picked)
      PROVE  CountInv'
  BY <1>1, <1>3 DEF BeginBulk, Begin, ghosts
<1>4. CASE ReadNotification(q)
  BY <1>1, <1>4 DEF ReadNotification, ghosts
<1>5. CASE retry_dlq_entry(q)
  <2>1. CASE Exists(req[q].n)
    <3> DEFINE w == [req[q] EXCEPT !.op = "retrying"]
    <3>1. req[q] \in Retries /\ req' = [req EXCEPT ![q] = w]
      BY <1>5, <2>1, Shapes DEF retry_dlq_entry, Inv, Types
    <3>2. w.op = "retrying"
      BY <3>1 DEF Retries
    <3> HIDE DEF w
    <3> QED
      BY <1>1, <1>5, <3>1, <3>2 DEF retry_dlq_entry
  <2>2. CASE ~Exists(req[q].n)
    BY <1>0, <1>1, <1>5, <2>2 DEF retry_dlq_entry, End
  <2> QED
    BY <2>1, <2>2
<1>6. CASE \/ RetryCommit(q) \/ RetryFails(q) \/ discard_dlq_entry(q)
           \/ bulk_retry_dlq(q) \/ BulkFails(q) \/ AggregateFails(q)
  <2>1. End(q) /\ UNCHANGED <<records, last, overlap>>
    BY <1>6 DEF RetryCommit, RetryFails, discard_dlq_entry, bulk_retry_dlq, BulkFails,
       AggregateFails, ghosts
  <2> QED
    BY <1>0, <1>1, <2>1 DEF End
<1>7. CASE BeginAggregate(q)
  <2> DEFINE w == [op |-> "aggregate", data |-> Tally]
  <2>1. /\ req'[q] = w /\ ~Aggregating(q)
        /\ \A p \in Slots \ {q} : req'[p] = req[p]
        /\ UNCHANGED <<records, last>>
        /\ ~overlap' => ~overlap /\ \A p \in Slots : ~Aggregating(p)
    BY <1>0, <1>7 DEF BeginAggregate, Begin, Aggregating
  <2>2. w.op = "aggregate" /\ Counted(w.data)
    BY TallyCounted
  <2> HIDE DEF w
  <2>3. \A p \in Slots : Aggregating(p)' => Counted(req'[p].data)
    BY <2>1, <2>2 DEF CountInv, Aggregating
  <2>4. ASSUME ~overlap'
        PROVE  \A p \in Slots : Aggregating(p)' => p = q /\ req'[p].op = "aggregate"
    BY <2>1, <2>2, <2>4 DEF Aggregating
  <2> QED
    BY <2>1, <2>3, <2>4 DEF CountInv, Aggregating
<1>8. CASE LookUpRecord(q)
  <2>1. CASE Len(records) > 1
    BY <1>0, <1>1, <1>8, <2>1 DEF LookUpRecord, ghosts
  <2>2. CASE ~(Len(records) > 1)
    <3> DEFINE w == [op |-> "upsert", data |-> req[q].data, found |-> records]
    <3>1. /\ req'[q] = w /\ Aggregating(q)
          /\ \A p \in Slots \ {q} : req'[p] = req[p]
          /\ UNCHANGED <<records, last, overlap>>
      BY <1>0, <1>8, <2>2 DEF LookUpRecord, Aggregating, ghosts
    <3>2. w.op = "upsert" /\ w.data = req[q].data /\ w.found = records
      OBVIOUS
    <3> HIDE DEF w
    <3>3. \A p \in Slots : Aggregating(p)' =>
              Aggregating(p) /\ req'[p].data = req[p].data
      BY <3>1, <3>2 DEF Aggregating
    <3>4. \A p \in Slots : req'[p].op = "upsert" =>
              req'[p].found = records \/ (req[p].op = "upsert" /\ req'[p].found = req[p].found)
      BY <3>1, <3>2
    <3> QED
      BY <3>1, <3>3, <3>4 DEF CountInv
  <2> QED
    BY <2>1, <2>2
<1>9. CASE upsert_daily_aggregates(q)
  <2> DEFINE found == req[q].found
             data == req[q].data
  <2>1. /\ req'[q] = Idle /\ Aggregating(q) /\ req[q].op = "upsert"
        /\ \A p \in Slots \ {q} : req'[p] = req[p]
        /\ overlap' = overlap
    BY <1>0, <1>9 DEF upsert_daily_aggregates, Aggregating, End
  <2>2. data \in Tallies /\ Counted(data) /\ records \in Seq(Tallies) /\ Len(records) <= 1
    BY <2>1, Shapes DEF Inv, Types, TypeOK, CountInv, Aggregating
  <2>3. \/ UNCHANGED <<records, last>> /\ Refused(found)
        \/ last' = <<data>>
    BY <1>9 DEF upsert_daily_aggregates
  <2>4. \A i \in DOMAIN last' : Counted(last'[i])
    BY <2>2, <2>3 DEF CountInv
  <2>5. \A p \in Slots : Aggregating(p)' => p # q /\ Aggregating(p) /\ req'[p] = req[p]
    BY <1>0, <2>1 DEF Aggregating
  <2>6. ASSUME ~overlap
        PROVE  records' = last'
    <3>1. found = records /\ ~Refused(found)
      BY <2>1, <2>6 DEF CountInv, Refused
    <3>2. last' = <<data>>
      BY <2>3, <3>1
    <3>3. CASE records = <<>>
      <4>1. records' = Append(records, data)
        BY <1>9, <3>1, <3>3 DEF upsert_daily_aggregates
      <4> QED
        BY <2>2, <3>2, <3>3, <4>1
    <3>4. CASE records # <<>>
      <4> DEFINE merged == Merged(records[1], records[1], data)
      <4>1. records' = [records EXCEPT ![1] = merged]
        BY <1>9, <3>1, <3>4 DEF upsert_daily_aggregates
      <4>2. 1 \in DOMAIN records /\ Len(records) = 1 /\ records[1] \in Tallies
        <5>1. Len(records) \in Nat \ {0}
          BY <2>2, <3>4, EmptySeq
        <5>2. PICK l \in Nat \ {0} : l = Len(records)
          BY <5>1
        <5>3. l <= 1
          BY <2>2, <5>2
        <5>4. Len(records) = 1
          BY <5>2, <5>3
        <5>5. records \in Seq(Tallies)
          BY <2>2
        <5> QED
          BY ONLY <5>4, <5>5
      <4>3. merged = data
        <5> HIDE DEF data
        <5> QED
          BY <2>2, MergedAlone
      <4> HIDE DEF merged
      <4> QED
        BY <2>2, <3>2, <4>1, <4>2, <4>3
    <3> QED
      BY <3>3, <3>4
  <2>7. ~overlap => \A p \in Slots : ~Aggregating(p)'
    BY <2>1, <2>5 DEF CountInv
  <2>8. \A p \in Slots : Aggregating(p)' => Counted(req'[p].data)
    BY <2>5 DEF CountInv
  <2> QED
    BY <2>1, <2>4, <2>6, <2>7, <2>8 DEF CountInv, Aggregating
<1> QED
  BY <1>2, <1>3, <1>4, <1>5, <1>6, <1>7, <1>8, <1>9 DEF Request

LEMMA CountStep == Inv /\ CountInv /\ [Next]_vars => CountInv'
<1> SUFFICES ASSUME Inv, CountInv, [Next]_vars
             PROVE  CountInv'
  OBVIOUS
<1>1. CASE \/ \E n \in Notifications :
                 DeadLettered(n) \/ send_notification_task(n) \/ receipt(n)
           \/ purge_dead_letters
           \/ UNCHANGED vars
  <2>1. UNCHANGED <<records, last, overlap, req>>
    BY <1>1 DEF DeadLettered, send_notification_task, receipt, purge_dead_letters, vars, ghosts
  <2> QED
    BY <2>1, CountKept
<1> QED
  BY <1>1, CountRequest DEF Next

\* upsert_daily_aggregates: one analytics row, and unless aggregations have
\* overlapped it is what the last of them counted, nothing twice, for any
\* number of notifications, requests and faults.
THEOREM RecordsAreOneCount == Spec => []RecordIsOneCount
<1>1. Inv /\ CountInv => RecordIsOneCount
  BY DEF Inv, Types, TypeOK, CountInv, Counted, RecordIsOneCount
<1> QED
  BY <1>1, InvAlways, CountInit, CountStep, PTL DEF Spec

-----------------------------------------------------------------------------
(* RetriesBounded.  A publication for an open entry is paid for by a       *)
(* request that is still holding it, by a fault, or by a purge: a bulk     *)
(* retry ends without resolving what it published only when one of its     *)
(* rows is gone, and it began before that row was.  Once an entry is not   *)
(* open any more, only the requests that wait to publish for it still can. *)

Handled(w) == {w.read[i].n : i \in DOMAIN w.read}

\* The names in a sequence of entries that is one longer.
LEMMA NamesOfMore ==
    ASSUME NEW D, NEW d, NEW s, NEW t, \A i \in D : t[i] = s[i]
    PROVE  {t[i].n : i \in D \cup {d}} = {s[i].n : i \in D} \cup {t[d].n}
  OBVIOUS

\* The request is to publish a task of n; it has, and has not committed; it
\* will not commit.
Waits(w, n) ==
    \/ w.op \in {"entry", "retry"} /\ w.n = n
    \/ w.op = "bulk" /\ n \in w.todo
Holds(w, n) ==
    \/ w.op = "retrying" /\ w.n = n
    \/ w.op = "bulk" /\ n \in Handled(w) /\ n \notin w.todo
Doomed(w) ==
    w.op = "bulk" /\ \E m \in Notifications : ~Exists(m) /\ m \in w.todo \cup Handled(w)

Waiting(n) == {q \in Slots : Waits(req[q], n)}
Holding(n) == {q \in Slots : Holds(req[q], n)}
DoomedSlots == {q \in Slots : Doomed(req[q])}
Purged == {n \in Notifications : ~Exists(n)}

RetryInv ==
    \A n \in Notifications :
        /\ entry[n] = "none" /\ Exists(n) =>
              published[n] = 0 /\ Waiting(n) = {} /\ Holding(n) = {}
        /\ entry[n] = "open" =>
              published[n] + Cardinality(DoomedSlots)
                  <= Cardinality(Slots) * Cardinality(Purged) + faults + Cardinality(Holding(n))
        /\ published[n] + Cardinality(Waiting(n))
              <= Cardinality(Slots) * (1 + Cardinality(Purged)) + faults

LEMMA Products ==
    ASSUME NEW k \in Nat, NEW a \in Nat, NEW b \in Nat
    PROVE  /\ k * a \in Nat
           /\ k * (1 + a) = k * a + k
           /\ a + 1 <= b => k * a + k <= k * b
<1>1. k * a \in Nat /\ k * (1 + a) = k * a + k
  OBVIOUS
<1>2. ASSUME a + 1 <= b
      PROVE  k * a + k <= k * b
  <2>1. PICK c \in Nat : b = a + 1 + c
    BY <1>2
  <2>2. k * b = k * a + k + k * c /\ k * c \in Nat
    BY <2>1
  <2> QED
    BY <1>1, <2>2
<1> QED
  BY <1>1, <1>2

LEMMA Sizes ==
    /\ Cardinality(Slots) \in Nat
    /\ \A S \in SUBSET Slots : Cardinality(S) \in Nat /\ Cardinality(S) <= Cardinality(Slots)
    /\ \A S \in SUBSET Notifications : IsFiniteSet(S) /\ Cardinality(S) \in Nat
  BY BackOfficeAssumption, FS_Subset, FS_CardinalityType

\* Two sets of slots that differ in one slot at most.
LEMMA OneSlot ==
    ASSUME NEW q \in Slots, NEW A \in SUBSET Slots, NEW B \in SUBSET Slots,
           \A p \in Slots \ {q} : p \in A <=> p \in B
    PROVE  /\ (q \in A <=> q \in B) => Cardinality(A) = Cardinality(B)
           /\ q \notin A /\ q \in B => Cardinality(B) = Cardinality(A) + 1
           /\ q \in A /\ q \notin B => Cardinality(A) = Cardinality(B) + 1
<1>1. IsFiniteSet(A) /\ IsFiniteSet(B)
  BY BackOfficeAssumption, FS_Subset
<1>2. (q \in A <=> q \in B) => A = B
  OBVIOUS
<1>3. q \notin A /\ q \in B => B = A \cup {q}
  OBVIOUS
<1>4. q \in A /\ q \notin B => A = B \cup {q}
  OBVIOUS
<1> QED
  BY <1>1, <1>2, <1>3, <1>4, FS_AddElement

\* Requests of two kinds that exclude each other are no more than the slots.
LEMMA SharedSlots ==
    ASSUME NEW A \in SUBSET Slots, NEW B \in SUBSET Slots, A \cap B = {}
    PROVE  Cardinality(A) + Cardinality(B) <= Cardinality(Slots)
<1>1. IsFiniteSet(Slots)
  BY BackOfficeAssumption
<1>2. Cardinality(A \cup B) = Cardinality(A) + Cardinality(B)
  BY <1>1, DisjointCounts
<1>3. Cardinality(A \cup B) <= Cardinality(Slots)
  <2>1. A \cup B \in SUBSET Slots
    OBVIOUS
  <2> QED
    BY <2>1, Sizes
<1> QED
  BY <1>2, <1>3

LEMMA FewDoomed ==
    /\ Purged \in SUBSET Notifications /\ Cardinality(Purged) \in Nat
    /\ DoomedSlots \in SUBSET Slots /\ Cardinality(DoomedSlots) \in Nat
    /\ Cardinality(DoomedSlots) <= Cardinality(Slots) * Cardinality(Purged)
<1>1. /\ Purged \in SUBSET Notifications /\ Cardinality(Purged) \in Nat /\ IsFiniteSet(Purged)
      /\ DoomedSlots \in SUBSET Slots /\ Cardinality(DoomedSlots) \in Nat
      /\ Cardinality(DoomedSlots) <= Cardinality(Slots)
  BY Sizes DEF Purged, DoomedSlots
<1>2. CASE Purged = {}
  <2>1. DoomedSlots = {} /\ Cardinality(DoomedSlots) = 0
    BY <1>2, FS_EmptySet DEF Purged, DoomedSlots, Doomed
  <2> QED
    BY <1>1, <2>1, Sizes, Products
<1>3. CASE Purged # {}
  <2>1. Cardinality(Purged) # 0
    BY <1>1, <1>3, FS_EmptySet
  <2>2. 0 + 1 <= Cardinality(Purged)
    BY <1>1, <2>1
  <2>3. Cardinality(Slots) * 0 + Cardinality(Slots) <= Cardinality(Slots) * Cardinality(Purged)
    BY <1>1, <2>2, Sizes, Products
  <2> QED
    BY <1>1, <2>3, Sizes
<1> QED
  BY <1>2, <1>3

LEMMA RetryInit == Init => RetryInv
<1> SUFFICES ASSUME Init
             PROVE  RetryInv
  OBVIOUS
<1>1. ASSUME NEW n \in Notifications
      PROVE  /\ entry[n] = "none" /\ published[n] = 0 /\ faults = 0
             /\ Waiting(n) = {} /\ Holding(n) = {} /\ Cardinality(Waiting(n)) = 0
  <2>1. Waiting(n) = {} /\ Holding(n) = {}
    BY DEF Init, Idle, Waiting, Holding, Waits, Holds
  <2> QED
    BY <2>1, FS_EmptySet DEF Init
<1>2. Cardinality(Slots) * (1 + Cardinality(Purged)) \in Nat
  BY Sizes, FewDoomed, Products
<1> QED
  BY <1>1, <1>2 DEF RetryInv

\* A request q goes from its work to w: it publishes only what it waited to,
\* and then holds it or costs a fault; it lets go of what it held only by
\* resolving the entry, by a fault or because it was doomed; and it starts to
\* wait only for an open entry.
LEMMA RetryMove ==
    ASSUME Inv, RetryInv, NEW q \in Slots, NEW w, req' = [req EXCEPT ![q] = w],
           \A m \in Notifications : Exists(m)' <=> Exists(m),
           faults' \in {faults, faults + 1},
           Doomed(w) => Doomed(req[q]),
           \A n \in Notifications :
               /\ published'[n] \in {published[n], published[n] + 1}
               /\ published'[n] # published[n] =>
                     /\ Waits(req[q], n)
                     /\ faults' = faults + 1 \/ (Holds(w, n) /\ ~Waits(w, n))
               /\ entry'[n] \in {entry[n], "retried", "discarded"}
               /\ Waits(w, n) => Waits(req[q], n) \/ entry'[n] = "open"
               /\ Holds(w, n) => Holds(req[q], n) \/ Waits(req[q], n)
               /\ Holds(req[q], n) /\ ~Holds(w, n) /\ entry'[n] = "open" =>
                     faults' = faults + 1 \/ (Doomed(req[q]) /\ ~Doomed(w))
    PROVE  RetryInv'
<1>0. /\ req'[q] = w /\ \A p \in Slots \ {q} : req'[p] = req[p]
      /\ faults \in Nat /\ published \in [Notifications -> Nat]
  BY DEF Inv, Types, TypeOK, ReqInv
<1>1. Purged' = Purged
  BY DEF Purged
<1>2. /\ DoomedSlots' \in SUBSET Slots /\ DoomedSlots \in SUBSET Slots
      /\ \A p \in Slots \ {q} : p \in DoomedSlots' <=> p \in DoomedSlots
      /\ q \in DoomedSlots' <=> Doomed(w)
      /\ q \in DoomedSlots <=> Doomed(req[q])
  <2>1. \A p \in Slots : p \in DoomedSlots' <=> Doomed(req'[p])
    BY DEF DoomedSlots, Doomed, Handled
  <2> QED
    BY <1>0, <2>1 DEF DoomedSlots
<1> DEFINE K == Cardinality(Slots)
           D == Cardinality(DoomedSlots)
           E == Cardinality(DoomedSlots')
           X == K * Cardinality(Purged)
<1>3. /\ D \in Nat /\ E \in Nat /\ K \in Nat /\ X \in Nat
      /\ K * (1 + Cardinality(Purged)) = X + K
  BY <1>2, Sizes, FewDoomed, Products
<1>4. /\ (Doomed(w) <=> Doomed(req[q])) => E = D
      /\ ~Doomed(w) /\ Doomed(req[q]) => D = E + 1
  BY <1>2, OneSlot
<1>5. ASSUME NEW n \in Notifications
      PROVE  /\ entry'[n] = "none" /\ Exists(n)' =>
                   published'[n] = 0 /\ Waiting(n)' = {} /\ Holding(n)' = {}
             /\ entry'[n] = "open" =>
                   published'[n] + E <= X + faults' + Cardinality(Holding(n)')
             /\ published'[n] + Cardinality(Waiting(n)')
                   <= K * (1 + Cardinality(Purged)) + faults'
  <2> DEFINE W == Waiting(n)
             V == Waiting(n)'
             H == Holding(n)
             G == Holding(n)'
  <2>1. /\ W \in SUBSET Slots /\ V \in SUBSET Slots
        /\ \A p \in Slots \ {q} : p \in V <=> p \in W
        /\ q \in V <=> Waits(w, n)
        /\ q \in W <=> Waits(req[q], n)
    BY <1>0 DEF Waiting, Waits
  <2>2. /\ H \in SUBSET Slots /\ G \in SUBSET Slots
        /\ \A p \in Slots \ {q} : p \in G <=> p \in H
        /\ q \in G <=> Holds(w, n)
        /\ q \in H <=> Holds(req[q], n)
    BY <1>0 DEF Holding, Holds, Handled
  <2>3. /\ Cardinality(V) + Cardinality(G) <= K
        /\ ~(Waits(req[q], n) /\ Holds(req[q], n))
    <3>1. V \cap G = {}
      BY DEF Waiting, Holding, Waits, Holds
    <3>2. Cardinality(V) + Cardinality(G) <= K
      <4>1. V \in SUBSET Slots /\ G \in SUBSET Slots
        BY <2>1, <2>2
      <4> HIDE DEF V, G
      <4> QED
        BY <3>1, <4>1, SharedSlots
    <3> QED
      BY <3>2 DEF Waits, Holds
  <2> HIDE DEF W, V, H, G
  <2>4. /\ Cardinality(W) \in Nat /\ Cardinality(V) \in Nat
        /\ Cardinality(H) \in Nat /\ Cardinality(G) \in Nat
    BY <2>1, <2>2, Sizes
  <2>5. /\ (Waits(w, n) <=> Waits(req[q], n)) => Cardinality(V) = Cardinality(W)
        /\ ~Waits(w, n) /\ Waits(req[q], n) => Cardinality(W) = Cardinality(V) + 1
    BY <2>1, OneSlot
  <2>6. /\ (Holds(w, n) <=> Holds(req[q], n)) => Cardinality(G) = Cardinality(H)
        /\ Holds(w, n) /\ ~Holds(req[q], n) => Cardinality(G) = Cardinality(H) + 1
        /\ ~Holds(w, n) /\ Holds(req[q], n) => Cardinality(H) = Cardinality(G) + 1
    BY <2>2, OneSlot
  <2>7. /\ entry[n] = "none" /\ Exists(n) => published[n] = 0 /\ W = {} /\ H = {}
        /\ entry[n] = "open" => published[n] + D <= X + faults + Cardinality(H)
        /\ published[n] + Cardinality(W) <= X + K + faults
        /\ published[n] \in Nat
    BY <1>0, <1>3 DEF RetryInv, W, H
  <2> DEFINE a == published[n]
             b == published'[n]
  <2>8. /\ b \in {a, a + 1}
        /\ b # a => Waits(req[q], n) /\ (faults' = faults + 1 \/ (Holds(w, n) /\ ~Waits(w, n)))
    OBVIOUS
  <2>9. /\ entry'[n] \in {entry[n], "retried", "discarded"}
        /\ Waits(w, n) => Waits(req[q], n) \/ entry'[n] = "open"
        /\ Holds(w, n) => Holds(req[q], n) \/ Waits(req[q], n)
        /\ Holds(req[q], n) /\ ~Holds(w, n) /\ entry'[n] = "open" =>
              faults' = faults + 1 \/ (Doomed(req[q]) /\ ~Doomed(w))
    OBVIOUS
  <2>10. ASSUME entry'[n] = "none", Exists(n)'
         PROVE  b = 0 /\ V = {} /\ G = {}
    <3>1. entry[n] = "none" /\ Exists(n)
      BY <2>9, <2>10
    <3> QED
      BY <2>1, <2>2, <2>7, <2>8, <2>9, <2>10, <3>1
  <2> HIDE DEF K, D, E, X, a, b
  <2>11. ASSUME entry'[n] = "open"
         PROVE  b + E <= X + faults' + Cardinality(G)
    <3>1. a + D <= X + faults + Cardinality(H) /\ a \in Nat
      BY <2>7, <2>9, <2>11 DEF a
    <3>2. E = D \/ (D = E + 1 /\ Doomed(req[q]) /\ ~Doomed(w))
      BY <1>4
    <3>3. CASE b # a
      BY <1>0, <1>3, <2>3, <2>4, <2>6, <2>8, <3>1, <3>2, <3>3
    <3>4. CASE b = a /\ ~(Holds(req[q], n) /\ ~Holds(w, n))
      BY <1>0, <1>3, <2>4, <2>6, <3>1, <3>2, <3>4
    <3>5. CASE b = a /\ Holds(req[q], n) /\ ~Holds(w, n)
      <4>1. faults' = faults + 1 \/ D = E + 1
        BY <1>4, <2>9, <2>11, <3>5
      <4> QED
        BY <1>0, <1>3, <2>4, <2>6, <3>1, <3>2, <3>5, <4>1
    <3> QED
      BY <3>3, <3>4, <3>5
  <2>12. b + Cardinality(V) <= X + K + faults'
    <3>1. CASE entry'[n] = "open"
      <4>1. b \in Nat
        BY <2>7, <2>8 DEF a
      <4> QED
        BY <1>0, <1>3, <2>3, <2>4, <2>11, <3>1, <4>1 DEF K
    <3>2. CASE entry'[n] # "open"
      <4>1. a + Cardinality(W) <= X + K + faults /\ a \in Nat
        BY <2>7 DEF a
      <4>2. Waits(w, n) => Waits(req[q], n)
        BY <2>9, <3>2
      <4> QED
        BY <1>0, <1>3, <2>4, <2>5, <2>8, <4>1, <4>2
    <3> QED
      BY <3>1, <3>2
  <2> QED
    BY <1>3, <2>10, <2>11, <2>12 DEF b, V, G, K, X
<1> QED
  BY <1>1, <1>5 DEF RetryInv

LEMMA RetryRequest ==
    ASSUME Inv, RetryInv, NEW q \in Slots, Request(q)
    PROVE  RetryInv'
<1> DEFINE r == req[q]
<1>0. /\ req \in [Slots -> Work] /\ ReqInv
      /\ published \in [Notifications -> Nat] /\ faults \in Nat
      /\ entry \in [Notifications -> {"none", "open"} \cup Resolutions]
      /\ \A n \in Notifications : ~Waits(Idle, n) /\ ~Holds(Idle, n)
      /\ ~Doomed(Idle)
      /\ \A n \in Notifications : entry[n] # "none" => Exists(n)
  BY DEF Inv, Types, TypeOK, ReqInv, Idle, Waits, Holds, Doomed
\* A request that begins.
<1>1. ASSUME NEW w, Begin(q, w), UNCHANGED <<rows, faults, published>>,
             \A n \in Notifications : Waits(w, n) => entry[n] = "open",
             \A n \in Notifications : ~Holds(w, n),
             ~Doomed(w)
      PROVE  RetryInv'
  <2>1. r = Idle /\ req' = [req EXCEPT ![q] = w]
    BY <1>1 DEF Begin
  <2>2. \A m \in Notifications : Exists(m)' <=> Exists(m)
    BY <1>1 DEF rows, Exists
  <2> QED
    BY <1>0, <1>1, <2>1, <2>2, RetryMove DEF rows
\* One that ends and publishes nothing.
<1>2. ASSUME End(q), UNCHANGED published, faults' \in {faults, faults + 1},
             \A m \in Notifications : Exists(m)' <=> Exists(m),
             \A n \in Notifications :
                 /\ entry'[n] \in {entry[n], "retried", "discarded"}
                 /\ Holds(r, n) /\ entry'[n] = "open" => faults' = faults + 1 \/ Doomed(r)
      PROVE  RetryInv'
  BY <1>0, <1>2, RetryMove DEF End
<1>3. ASSUME UNCHANGED rows
      PROVE  /\ \A m \in Notifications : Exists(m)' <=> Exists(m)
             /\ entry' = entry
  BY <1>3 DEF rows, Exists
\* One that publishes the task of n, and goes on or fails.
<1>4. ASSUME NEW n \in Notifications, Publish(n), NEW w, req' = [req EXCEPT ![q] = w],
             UNCHANGED rows, faults' \in {faults, faults + 1},
             Doomed(w) => Doomed(r),
             Waits(r, n), faults' = faults + 1 \/ (Holds(w, n) /\ ~Waits(w, n)),
             \A m \in Notifications :
                 /\ Waits(w, m) => Waits(r, m)
                 /\ Holds(w, m) => Holds(r, m) \/ Waits(r, m)
                 /\ Holds(r, m) /\ ~Holds(w, m) => faults' = faults + 1
      PROVE  RetryInv'
  <2>1. /\ published'[n] = published[n] + 1
        /\ \A m \in Notifications \ {n} : published'[m] = published[m]
    BY <1>0, <1>4 DEF Publish
  <2>2. \A m \in Notifications :
            /\ published'[m] \in {published[m], published[m] + 1}
            /\ published'[m] # published[m] =>
                  Waits(r, m) /\ (faults' = faults + 1 \/ (Holds(w, m) /\ ~Waits(w, m)))
    BY <1>4, <2>1
  <2>3. /\ \A m \in Notifications : Exists(m)' <=> Exists(m)
        /\ entry' = entry
    BY <1>3, <1>4
  <2>4. \A m \in Notifications :
            /\ entry'[m] \in {entry[m], "retried", "discarded"}
            /\ Waits(w, m) => Waits(r, m) \/ entry'[m] = "open"
            /\ Holds(w, m) => Holds(r, m) \/ Waits(r, m)
            /\ Holds(r, m) /\ ~Holds(w, m) /\ entry'[m] = "open" =>
                  faults' = faults + 1 \/ (Doomed(r) /\ ~Doomed(w))
    BY <1>4, <2>3
  <2>5. /\ req' = [req EXCEPT ![q] = w]
        /\ faults' \in {faults, faults + 1}
        /\ Doomed(w) => Doomed(r)
    BY <1>4
  <2> QED
    BY <2>2, <2>3, <2>4, <2>5, RetryMove
<1>5. ASSUME NEW n \in Notifications, BeginRetry(q, n) \/ BeginDiscard(q, n)
      PROVE  RetryInv'
  <2>1. CASE BeginRetry(q, n)
    <3> DEFINE w == [op |-> "entry", n |-> n]
    <3>1. /\ \A m \in Notifications : (Waits(w, m) => m = n) /\ ~Holds(w, m)
          /\ ~Doomed(w)
      BY DEF Waits, Holds, Doomed
    <3>2. Begin(q, w) /\ UNCHANGED <<rows, faults, published>> /\ entry[n] = "open"
      BY <2>1 DEF BeginRetry, ghosts
    <3> HIDE DEF w
    <3> QED
      BY <1>1, <3>1, <3>2
  <2>2. CASE BeginDiscard(q, n)
    <3> DEFINE w == [op |-> "discard", n |-> n]
    <3>1. /\ \A m \in Notifications : ~Waits(w, m) /\ ~Holds(w, m)
          /\ ~Doomed(w)
      BY DEF Waits, Holds, Doomed
    <3>2. Begin(q, w) /\ UNCHANGED <<rows, faults, published>>
      BY <2>2 DEF BeginDiscard, ghosts
    <3> HIDE DEF w
    <3> QED
      BY <1>1, <3>1, <3>2
  <2> QED
    BY <1>5, <2>1, <2>2
<1>6. ASSUME NEW picked \in SUBSET Notifications, BeginBulk(q, picked)
      PROVE  RetryInv'
  <2> DEFINE w == [op |-> "bulk", todo |-> picked, read |-> <<>>]
  <2>1. /\ \A m \in Notifications : (Waits(w, m) => m \in picked) /\ ~Holds(w, m)
        /\ Doomed(w) => \E m \in picked : ~Exists(m)
    BY DEF Waits, Holds, Doomed, Handled
  <2>2. /\ Begin(q, w) /\ UNCHANGED <<rows, faults, published>>
        /\ \A m \in picked : entry[m] = "open"
    BY <1>6 DEF BeginBulk, ghosts
  <2> HIDE DEF w
  <2> QED
    BY <1>0, <1>1, <2>1, <2>2
<1>7. CASE BeginAggregate(q)
  <2> DEFINE w == [op |-> "aggregate", data |-> Tally]
  <2>1. /\ \A m \in Notifications : ~Waits(w, m) /\ ~Holds(w, m)
        /\ ~Doomed(w)
    BY DEF Waits, Holds, Doomed
  <2>2. Begin(q, w) /\ UNCHANGED <<rows, faults, published>>
    BY <1>7 DEF BeginAggregate
  <2> HIDE DEF w
  <2> QED
    BY <1>1, <2>1, <2>2
<1>8. ASSUME NEW w, req' = [req EXCEPT ![q] = w], UNCHANGED <<rows, faults, published>>,
             \A n \in Notifications :
                 (Waits(w, n) <=> Waits(r, n)) /\ ~Holds(w, n) /\ ~Holds(r, n),
             ~Doomed(w)
      PROVE  RetryInv'
  BY <1>0, <1>3, <1>8, RetryMove
<1>9. CASE ReadNotification(q)
  <2> DEFINE w == [op |-> "retry", n |-> r.n, read |-> status[r.n]]
  <2>1. r.op = "entry" /\ req' = [req EXCEPT ![q] = w]
    BY <1>9 DEF ReadNotification
  <2>2. /\ \A n \in Notifications :
              (Waits(w, n) <=> Waits(r, n)) /\ ~Holds(w, n) /\ ~Holds(r, n)
        /\ ~Doomed(w)
    BY <2>1 DEF Waits, Holds, Doomed
  <2>3. UNCHANGED <<rows, faults, published>>
    BY <1>9 DEF ReadNotification, ghosts
  <2> HIDE DEF w
  <2> QED
    BY <1>8, <2>1, <2>2, <2>3
<1>10. CASE retry_dlq_entry(q)
  <2>1. r \in Retries /\ r.op = "retry" /\ r.n \in Notifications /\ UNCHANGED <<rows, faults>>
    BY <1>0, <1>10, Shapes DEF retry_dlq_entry, Retries
  <2>2. CASE Exists(r.n)
    <3> DEFINE w == [r EXCEPT !.op = "retrying"]
    <3>1. w.op = "retrying" /\ w.n = r.n
      BY <2>1 DEF Retries
    <3>2. req' = [req EXCEPT ![q] = w] /\ Publish(r.n)
      BY <1>10, <2>2 DEF retry_dlq_entry
    <3> HIDE DEF w
    <3>3. /\ ~Doomed(w)
          /\ \A n \in Notifications :
                /\ ~Waits(w, n)
                /\ Holds(w, n) <=> n = r.n
                /\ Waits(r, n) <=> n = r.n
                /\ ~Holds(r, n)
      BY <2>1, <3>1 DEF Waits, Holds, Doomed
    <3> HIDE DEF r
    <3> QED
      BY <1>4, <2>1, <3>2, <3>3
  <2>3. CASE ~Exists(r.n)
    <3>1. End(q) /\ UNCHANGED published /\ \A n \in Notifications : ~Holds(r, n)
      BY <1>10, <2>1, <2>3 DEF retry_dlq_entry, Holds
    <3> QED
      BY <1>2, <1>3, <2>1, <3>1
  <2> QED
    BY <2>2, <2>3
<1>11. CASE RetryCommit(q)
  <2>1. /\ r.op = "retrying" /\ r.n \in Notifications /\ Exists(r.n)
        /\ status \in [Notifications -> Reads]
    BY <1>0, <1>11, Shapes DEF RetryCommit, Retries, Inv, QueuedInv, Types, TypeOK, Reads
  <2>2. /\ End(q) /\ UNCHANGED <<published, faults>>
        /\ status' = [status EXCEPT ![r.n] = Reset(r.n, r.read)]
        /\ entry' = [entry EXCEPT ![r.n] = "retried"]
    BY <1>11 DEF RetryCommit, ghosts
  <2>3. \A m \in Notifications : Exists(m)' <=> Exists(m)
    BY <2>1, <2>2 DEF Exists, Reset
  <2>4. \A n \in Notifications : Holds(r, n) => n = r.n
    BY <2>1 DEF Holds
  <2> HIDE DEF r
  <2> QED
    BY <1>0, <1>2, <2>1, <2>2, <2>3, <2>4
<1>12. CASE RetryFails(q)
  <2>1. /\ End(q) /\ faults' = faults + 1 /\ UNCHANGED rows
        /\ UNCHANGED published \/ (r.op = "retry" /\ Publish(r.n))
    BY <1>12 DEF RetryFails, Fault
  <2>2. CASE UNCHANGED published
    BY <1>2, <1>3, <2>1, <2>2
  <2>3. CASE r.op = "retry" /\ Publish(r.n)
    <3>1. r.n \in Notifications /\ \A n \in Notifications : Waits(r, n) <=> n = r.n
      BY <1>0, <2>3, Shapes DEF Retries, Waits
    <3> HIDE DEF r
    <3> QED
      BY <1>0, <1>4, <2>1, <2>3, <3>1 DEF End
  <2> QED
    BY <2>1, <2>2, <2>3
<1>13. CASE discard_dlq_entry(q)
  <2>1. /\ End(q) /\ UNCHANGED <<status, published, faults>>
        /\ r.op = "discard"
        /\ entry' \in {entry, [entry EXCEPT ![r.n] = "discarded"]}
    BY <1>13 DEF discard_dlq_entry, ghosts
  <2>2. \A n \in Notifications : entry'[n] \in {entry[n], "retried", "discarded"}
    BY <1>0, <2>1
  <2>3. \A n \in Notifications : ~Holds(r, n) /\ (Exists(n)' <=> Exists(n))
    BY <2>1 DEF Holds, Exists
  <2> QED
    BY <1>2, <2>1, <2>2, <2>3
<1>14. ASSUME NEW n \in Notifications, BulkNext(q, n)
       PROVE  RetryInv'
  <2> DEFINE x == [n |-> n, status |-> status[n]]
             left == r.todo \ {n}
             read == Append(r.read, x)
             w == [r EXCEPT !.todo = left, !.read = read]
  <2>1. /\ r \in Bulks /\ r.op = "bulk" /\ n \in r.todo /\ Publish(n)
        /\ req' = [req EXCEPT ![q] = w] /\ UNCHANGED <<rows, faults>>
    BY <1>0, <1>14, Shapes DEF BulkNext
  <2>2. r.read \in Seq(Read) /\ x \in Read /\ x.n = n
    BY <2>1 DEF Bulks, Read, Inv, Types, TypeOK, Reads
  <2> HIDE DEF x
  <2>3. read \in Seq(Read) /\ {read[i].n : i \in DOMAIN read} = Handled(r) \cup {n}
    <3>1. /\ read \in Seq(Read) /\ Len(read) = Len(r.read) + 1
          /\ \A i \in 1..Len(r.read) : read[i] = r.read[i]
          /\ read[Len(r.read) + 1] = x
      BY <2>2, AppendProperties
    <3>2. DOMAIN read = 1..Len(r.read) + 1 /\ DOMAIN r.read = 1..Len(r.read)
      BY <2>2, <3>1, LenProperties
    <3>3. DOMAIN read = (DOMAIN r.read) \cup {Len(r.read) + 1}
      BY <2>2, <3>2, LenProperties
    <3>4. \A i \in DOMAIN r.read : read[i] = r.read[i]
      BY <3>1, <3>2
    <3> HIDE DEF read
    <3>5. {read[i].n : i \in DOMAIN read} = {r.read[i].n : i \in DOMAIN r.read} \cup {x.n}
      BY <3>1, <3>3, <3>4, NamesOfMore
    <3> QED
      BY <2>2, <3>1, <3>5 DEF Handled
  <2> HIDE DEF read, left
  <2>4. w.op = "bulk" /\ w.todo = left /\ w.read = read
    BY <2>1 DEF Bulks
  <2> HIDE DEF w
  <2>5. Handled(w) = Handled(r) \cup {n} /\ w.todo = r.todo \ {n}
    BY <2>3, <2>4 DEF Handled, left
  <2>6. /\ Doomed(w) => Doomed(r)
        /\ ~Waits(w, n) /\ Holds(w, n) /\ Waits(r, n) /\ ~Holds(r, n)
        /\ \A m \in Notifications \ {n} :
              (Waits(w, m) <=> Waits(r, m)) /\ (Holds(w, m) <=> Holds(r, m))
    BY <2>1, <2>4, <2>5 DEF Doomed, Waits, Holds
  <2> HIDE DEF r
  <2> QED
    BY <1>4, <2>1, <2>6
<1>15. CASE BulkFails(q)
  <2>1. /\ End(q) /\ faults' = faults + 1 /\ UNCHANGED rows /\ r.op = "bulk"
        /\ UNCHANGED published \/ \E n \in r.todo : Publish(n)
    BY <1>15 DEF BulkFails, Fault
  <2>2. CASE UNCHANGED published
    BY <1>2, <1>3, <2>1, <2>2
  <2>3. CASE \E n \in r.todo : Publish(n)
    <3>1. PICK n \in r.todo : Publish(n)
      BY <2>3
    <3>2. n \in Notifications /\ Waits(r, n)
      BY <1>0, <2>1, <3>1, Shapes DEF Bulks, Waits
    <3> HIDE DEF r
    <3> QED
      BY <1>0, <1>4, <2>1, <3>1, <3>2 DEF End
  <2> QED
    BY <2>1, <2>2, <2>3
<1>16. CASE bulk_retry_dlq(q)
  <2> DEFINE has == Handled(r)
             ReadAs(n) == (CHOOSE x \in {r.read[i] : i \in DOMAIN r.read} : x.n = n).status
  <2>1. /\ End(q) /\ UNCHANGED <<published, faults>> /\ r.op = "bulk" /\ r.todo = {}
        /\ r.read \in Seq(Read)
    BY <1>0, <1>16, Shapes DEF bulk_retry_dlq, ghosts, Bulks
  <2>2. \A n \in Notifications : Holds(r, n) <=> n \in has
    BY <2>1 DEF Holds
  <2>3. CASE \A n \in has : Exists(n)
    <3>1. /\ entry' = [n \in Notifications |-> IF n \in has THEN "retried" ELSE entry[n]]
          /\ status' = [n \in Notifications |->
                IF n \in has THEN Reset(n, ReadAs(n)) ELSE status[n]]
      BY <1>16, <2>3 DEF bulk_retry_dlq, Handled
    <3> HIDE DEF has, ReadAs
    <3>2. \A n \in Notifications : Reset(n, ReadAs(n)) \in {"PENDING", status[n]}
      BY DEF Reset
    <3>3. \A n \in Notifications : Exists(n)' <=> Exists(n)
      BY <2>3, <3>1, <3>2 DEF Exists
    <3> QED
      BY <1>2, <2>1, <2>2, <3>1, <3>3
  <2>4. CASE ~(\A n \in has : Exists(n))
    <3>1. UNCHANGED <<entry, status>>
      BY <1>16, <2>4 DEF bulk_retry_dlq, Handled
    <3>2. \A i \in DOMAIN r.read : r.read[i] \in Read
      BY <2>1
    <3>3. Doomed(r)
      BY <2>1, <2>4, <3>2 DEF Doomed, Handled, Read
    <3> QED
      BY <1>2, <2>1, <3>1, <3>3 DEF Exists
  <2> QED
    BY <2>3, <2>4
<1>17. CASE LookUpRecord(q)
  <2> DEFINE v == [op |-> "upsert", data |-> r.data, found |-> records]
             w == IF Len(records) > 1 THEN Idle ELSE v
  <2>1. r.op = "aggregate" /\ req' = [req EXCEPT ![q] = w]
    BY <1>17 DEF LookUpRecord
  <2>2. w.op \in {"idle", "upsert"}
    BY DEF Idle
  <2> HIDE DEF w
  <2>3. /\ \A n \in Notifications :
              (Waits(w, n) <=> Waits(r, n)) /\ ~Holds(w, n) /\ ~Holds(r, n)
        /\ ~Doomed(w)
    BY <2>1, <2>2 DEF Waits, Holds, Doomed
  <2>4. UNCHANGED <<rows, faults, published>>
    BY <1>17 DEF LookUpRecord, ghosts
  <2> QED
    BY <1>8, <2>1, <2>3, <2>4
<1>18. CASE upsert_daily_aggregates(q) \/ AggregateFails(q)
  <2>1. /\ End(q) /\ UNCHANGED <<rows, published>> /\ faults' \in {faults, faults + 1}
        /\ r.op \in {"aggregate", "upsert"}
    BY <1>18 DEF upsert_daily_aggregates, AggregateFails, Aggregating, Fault, ghosts
  <2>2. \A n \in Notifications : ~Holds(r, n)
    BY <2>1 DEF Holds
  <2> QED
    BY <1>2, <1>3, <2>1, <2>2
<1> QED
  BY <1>5, <1>6, <1>7, <1>9, <1>10, <1>11, <1>12, <1>13, <1>14, <1>15, <1>16, <1>17, <1>18
     DEF Request

\* A purge dooms the bulk retries that hold one of its rows, at most one per
\* slot, and adds a row to the ones that are gone.
LEMMA RetryPurge ==
    ASSUME Inv, RetryInv, purge_dead_letters
    PROVE  RetryInv'
<1> DEFINE dead == {n \in Notifications : status[n] = "DEAD"}
           K == Cardinality(Slots)
           a == Cardinality(Purged)
           b == Cardinality(Purged')
<1>1. /\ dead # {} /\ UNCHANGED <<req, faults, published>>
      /\ status' = [n \in Notifications |-> IF n \in dead THEN "absent" ELSE status[n]]
      /\ entry' = [n \in Notifications |-> IF n \in dead THEN "none" ELSE entry[n]]
  BY DEF purge_dead_letters, ghosts
<1>2. Purged' = Purged \cup dead /\ Purged \cap dead = {}
  BY <1>1 DEF Purged, Exists
<1>3. K \in Nat /\ a \in Nat /\ b \in Nat /\ a + 1 <= b
  <2>1. IsFiniteSet(dead) /\ Cardinality(dead) \in Nat /\ Purged \in SUBSET Notifications
    BY Sizes DEF Purged
  <2>2. Cardinality(dead) # 0
    BY <1>1, <2>1, FS_EmptySet
  <2>3. b = a + Cardinality(dead) /\ a \in Nat
    <3> HIDE DEF dead
    <3>1. dead \in SUBSET Notifications
      BY DEF dead
    <3>2. Purged \in SUBSET Notifications /\ IsFiniteSet(Notifications)
      BY <2>1, BackOfficeAssumption
    <3>3. /\ Cardinality(Purged) \in Nat
          /\ Cardinality(Purged \cup dead) = Cardinality(Purged) + Cardinality(dead)
      BY <1>2, <3>1, <3>2, DisjointCounts
    <3> QED
      BY <1>2, <3>3
  <2> HIDE DEF dead, a, b
  <2> QED
    BY <2>1, <2>2, <2>3, Sizes
<1>4. /\ K * a \in Nat /\ K * b \in Nat /\ K * a + K <= K * b
      /\ K * (1 + a) = K * a + K /\ K * (1 + b) = K * b + K
  <2> HIDE DEF K, a, b
  <2> QED
    BY <1>3, Products
<1>5. /\ Cardinality(DoomedSlots') \in Nat /\ Cardinality(DoomedSlots') <= K
      /\ Cardinality(DoomedSlots) \in Nat
  <2>1. DoomedSlots' \in SUBSET Slots /\ DoomedSlots \in SUBSET Slots
    BY DEF DoomedSlots
  <2> QED
    BY <2>1, Sizes
<1>6. ASSUME NEW n \in Notifications
      PROVE  /\ entry'[n] = "none" /\ Exists(n)' =>
                   published'[n] = 0 /\ Waiting(n)' = {} /\ Holding(n)' = {}
             /\ entry'[n] = "open" =>
                   published'[n] + Cardinality(DoomedSlots')
                       <= K * b + faults' + Cardinality(Holding(n)')
             /\ published'[n] + Cardinality(Waiting(n)') <= K * (1 + b) + faults'
  <2>1. /\ Waiting(n)' = Waiting(n) /\ Holding(n)' = Holding(n)
        /\ published'[n] = published[n] /\ faults' = faults
        /\ entry'[n] = "open" => entry[n] = "open"
        /\ entry'[n] = "none" /\ Exists(n)' => entry[n] = "none" /\ Exists(n)
    BY <1>1 DEF Waiting, Holding, Waits, Holds, Handled, Exists
  <2>2. /\ Cardinality(Waiting(n)) \in Nat /\ Cardinality(Holding(n)) \in Nat
        /\ published[n] \in Nat /\ faults \in Nat
    BY Sizes DEF Waiting, Holding, Inv, Types, TypeOK
  <2>3. /\ entry[n] = "none" /\ Exists(n) =>
              published[n] = 0 /\ Waiting(n) = {} /\ Holding(n) = {}
        /\ entry[n] = "open" =>
              published[n] + Cardinality(DoomedSlots) <= K * a + faults + Cardinality(Holding(n))
        /\ published[n] + Cardinality(Waiting(n)) <= K * (1 + a) + faults
    BY DEF RetryInv
  <2> HIDE DEF K, a, b
  <2>4. PICK x \in Nat, y \in Nat : x = K * a /\ y = K * b
    BY <1>4
  <2>5. x + K <= y /\ K * (1 + a) = x + K /\ K * (1 + b) = y + K /\ K \in Nat
    BY <1>3, <1>4, <2>4
  <2>6. entry'[n] = "open" =>
            published'[n] + Cardinality(DoomedSlots') <= y + faults' + Cardinality(Holding(n)')
    <3>1. entry'[n] = "open" =>
              published[n] + Cardinality(DoomedSlots) <= x + faults + Cardinality(Holding(n))
      BY <2>1, <2>3, <2>4
    <3> QED
      BY <1>5, <2>1, <2>2, <2>5, <3>1
  <2>7. published'[n] + Cardinality(Waiting(n)') <= y + K + faults'
    <3>1. published[n] + Cardinality(Waiting(n)) <= x + K + faults
      BY <2>3, <2>5
    <3> QED
      BY <2>1, <2>2, <2>5, <3>1
  <2> QED
    BY <2>1, <2>3, <2>4, <2>5, <2>6, <2>7
<1> QED
  BY <1>6 DEF RetryInv

\* The entry a dead notification gets is its first, and nothing was
\* published for it.
LEMMA RetryDeadLettered ==
    ASSUME Inv, RetryInv, NEW n \in Notifications, DeadLettered(n)
    PROVE  RetryInv'
<1>1. /\ UNCHANGED <<status, req, faults, published>>
      /\ entry[n] = "none" /\ Exists(n) /\ entry' = [entry EXCEPT ![n] = "open"]
      /\ entry \in [Notifications -> {"none", "open"} \cup Resolutions]
  BY DEF DeadLettered, ghosts, Exists, Inv, Types, TypeOK
<1>2. /\ DoomedSlots' = DoomedSlots /\ Purged' = Purged
      /\ \A m \in Notifications : Waiting(m)' = Waiting(m) /\ Holding(m)' = Holding(m)
      /\ \A m \in Notifications : Exists(m)' <=> Exists(m)
  BY <1>1 DEF DoomedSlots, Doomed, Purged, Waiting, Holding, Waits, Holds, Handled, Exists
<1>3. published[n] = 0 /\ Holding(n) = {} /\ Cardinality(Holding(n)) = 0
  BY <1>1, FS_EmptySet DEF RetryInv
<1>4. published[n] + Cardinality(DoomedSlots)
          <= Cardinality(Slots) * Cardinality(Purged) + faults + Cardinality(Holding(n))
  <2>1. Cardinality(Slots) * Cardinality(Purged) \in Nat /\ faults \in Nat
    BY Sizes, FewDoomed, Products DEF Inv, Types, TypeOK
  <2> QED
    BY <1>3, <2>1, FewDoomed
<1>5. \A m \in Notifications \ {n} : entry'[m] = entry[m]
  BY <1>1
<1>6. entry'[n] = "open"
  BY <1>1
<1> QED
  BY <1>1, <1>2, <1>4, <1>5, <1>6 DEF RetryInv

LEMMA RetryStep == Inv /\ RetryInv /\ [Next]_vars => RetryInv'
<1> SUFFICES ASSUME Inv, RetryInv, [Next]_vars
             PROVE  RetryInv'
  OBVIOUS
<1>1. CASE \/ \E n \in Notifications : send_notification_task(n) \/ receipt(n)
           \/ UNCHANGED vars
  <2>1. UNCHANGED <<entry, req, faults, published>>
    BY <1>1 DEF send_notification_task, receipt, vars, rows, ghosts
  <2>2. \A m \in Notifications : Exists(m)' <=> Exists(m)
    <3>1. ASSUME NEW n \in Notifications, send_notification_task(n)
          PROVE  \A m \in Notifications : Exists(m)' <=> Exists(m)
      BY <3>1 DEF send_notification_task, Exists, Inv, Types, TypeOK
    <3>2. ASSUME NEW n \in Notifications, receipt(n)
          PROVE  \A m \in Notifications : Exists(m)' <=> Exists(m)
      BY <3>2 DEF receipt, Exists, Inv, Types, TypeOK
    <3>3. ASSUME UNCHANGED vars
          PROVE  \A m \in Notifications : Exists(m)' <=> Exists(m)
      BY <3>3 DEF vars, rows, Exists
    <3> QED
      BY <1>1, <3>1, <3>2, <3>3
  <2>3. /\ DoomedSlots' = DoomedSlots /\ Purged' = Purged
        /\ \A m \in Notifications : Waiting(m)' = Waiting(m) /\ Holding(m)' = Holding(m)
    BY <2>1, <2>2 DEF DoomedSlots, Doomed, Purged, Waiting, Holding, Waits, Holds, Handled
  <2> QED
    BY <2>1, <2>2, <2>3 DEF RetryInv
<1> QED
  BY <1>1, RetryRequest, RetryPurge, RetryDeadLettered DEF Next

\* retry_dlq_entry and bulk_retry_dlq publish a notification's task at most
\* once for each request that may be under way, and that often again only for
\* each purged row, and once more for each failed call.
THEOREM RetriesAreBounded == Spec => []RetriesBounded
<1>1. Inv /\ RetryInv => RetriesBounded
  <2> SUFFICES ASSUME Inv, RetryInv, NEW n \in Notifications
               PROVE  published[n] <= Cardinality(Slots) * (1 + Cardinality(Purged)) + faults
    BY DEF RetriesBounded, Purged
  <2>1. /\ Cardinality(Waiting(n)) \in Nat /\ published[n] \in Nat /\ faults \in Nat
        /\ Cardinality(Slots) * (1 + Cardinality(Purged)) \in Nat
    BY Sizes, FewDoomed, Products DEF Waiting, Inv, Types, TypeOK
  <2>2. published[n] + Cardinality(Waiting(n))
            <= Cardinality(Slots) * (1 + Cardinality(Purged)) + faults
    BY DEF RetryInv
  <2> QED
    BY <2>1, <2>2
<1> QED
  BY <1>1, InvAlways, RetryInit, RetryStep, PTL DEF Spec

=============================================================================

-------------------------- MODULE OrderLoopsProofs --------------------------
(* What holds of OrderLoops for any number of processes, subscriptions, events *)
(* and failures, whatever loops each process runs.                             *)
EXTENDS OrderLoops, FiniteSetTheorems, TLAPS

USE OrderLoopsAssumption, SwitchAssumption

\* What a loop may have in hand.
CHand == [scan : SUBSET Jobs, left : 0 .. MaxJobs, job : Jobs \cup {NoJob},
          res : {"none", "place", "done", "skipped", "failed"}]
RHand == [todo : SUBSET Events, ready : BOOLEAN, event : 0 .. MaxEvents,
          res : {"none", "live", "paper"} \cup ExecStatus]

\* TypeOK, table by table.
CopyTyped ==
  /\ active \in SUBSET Subs /\ job \in [Jobs -> JobStatus]
  /\ copied \in [Jobs -> Nat] /\ chand \in [Procs -> CHand]
RangeTyped ==
  /\ events \in 0 .. MaxEvents /\ exec \in [Events -> ExecStatus]
  /\ sent \in Seq(Events \X Kinds) /\ rhand \in [Procs -> RHand]

\* Nobody orders without a row: a hand with an outcome has the row it is about.
CopyHeld == \A p \in Procs : chand[p].res # "none" => chand[p].job \in Jobs
RangeHeld == \A p \in Procs : rhand[p].res # "none" => rhand[p].event \in Events

\* A row in a hand is being processed, and is in no other hand.
CopyOwned ==
  \A p \in Procs : chand[p].job \in Jobs =>
    /\ job[chand[p].job] = "processing"
    /\ \A q \in Procs : chand[q].job = chand[p].job => q = p
RangeOwned ==
  \A p \in Procs : rhand[p].event \in Events =>
    /\ exec[rhand[p].event] = "processing"
    /\ \A q \in Procs : rhand[q].event = rhand[p].event => q = p

\* A row nobody has claimed, or that is about to be ordered, has no order.
CopyFresh ==
  /\ \A j \in Jobs : job[j] \in {"absent", "pending"} => copied[j] = 0
  /\ \A p \in Procs : chand[p].res = "place" => copied[chand[p].job] = 0
Placed(e) == \E i \in DOMAIN sent : sent[i][1] = e
RangeFresh ==
  /\ \A e \in Events : exec[e] = "none" => ~Placed(e)
  /\ \A p \in Procs : rhand[p].res \in Kinds => ~Placed(rhand[p].event)

CopyInv == CopyTyped /\ CopyHeld /\ CopyOwned /\ CopyFresh /\ CopiedOnce
RangeInv == RangeTyped /\ RangeHeld /\ RangeOwned /\ RangeFresh /\ RangeOnce

---------------------------------------------------------------------------
(* copy_trade_execution_jobs.                                             *)

LEMMA CopyInit == Init => CopyInv
BY DEF Init, CopyInv, CopyTyped, CopyHeld, CopyOwned, CopyFresh, CopiedOnce, CHand, NoCopy,
       JobStatus

\* What leaves the jobs and the hands alone leaves the invariant alone.
LEMMA CopyKept ==
  CopyInv /\ active' \in SUBSET Subs /\ UNCHANGED <<job, copied, chand>> => CopyInv'
BY DEF CopyInv, CopyTyped, CopyHeld, CopyOwned, CopyFresh, CopiedOnce

\* A hand that keeps its job and its outcome, and jobs that are only enqueued.
LEMMA CopyScanKeeps ==
  ASSUME CopyInv, NEW p \in Procs, CopyScan(p) \/ \E j \in Jobs : CopyEnqueue(p, j)
  PROVE  CopyInv'
<1> USE DEF CopyInv, CHand
<1>1. CASE CopyScan(p)
  <2>1. active \X Recent \subseteq Jobs /\ MaxJobs \in 0 .. MaxJobs
    BY <1>1 DEF CopyScan, CopyTyped, Recent, Jobs
  <2>2. CopyTyped'
    <3>1. chand \in [Procs -> CHand] /\ chand[p] \in CHand
      BY DEF CopyTyped
    <3>2. [chand[p] EXCEPT !.scan = active \X Recent, !.left = MaxJobs] \in CHand
      BY <2>1, <3>1
    <3>3. chand' = [chand EXCEPT ![p] = [chand[p] EXCEPT !.scan = active \X Recent,
                                                         !.left = MaxJobs]]
      BY <1>1, Zenon DEF CopyScan
    <3> HIDE DEF CHand
    <3>4. chand' \in [Procs -> CHand]
      BY <3>1, <3>2, <3>3
    <3> QED
      BY <1>1, <3>4 DEF CopyScan, CopyTyped
  <2>3. \A q \in Procs : chand'[q].job = chand[q].job /\ chand'[q].res = chand[q].res
    BY <1>1 DEF CopyScan, CopyTyped
  <2>4. UNCHANGED <<job, copied>>
    BY <1>1 DEF CopyScan
  <2> QED
    BY <2>2, <2>3, <2>4 DEF CopyHeld, CopyOwned, CopyFresh, CopiedOnce
<1>2. ASSUME NEW j \in Jobs, CopyEnqueue(p, j) PROVE CopyInv'
  <2>1. CopyTyped'
    BY <1>2 DEF CopyEnqueue, CopyTyped, Enqueued, JobStatus
  <2>2. \A q \in Procs : chand'[q].job = chand[q].job /\ chand'[q].res = chand[q].res
    BY <1>2 DEF CopyEnqueue, CopyTyped
  <2>3. \A k \in Jobs : \/ job'[k] = job[k]
                        \/ job[k] = "absent" /\ job'[k] = "pending"
    BY <1>2 DEF CopyEnqueue, CopyTyped, Enqueued
  <2>4. UNCHANGED copied
    BY <1>2 DEF CopyEnqueue
  <2> QED
    BY <2>1, <2>2, <2>3, <2>4 DEF CopyTyped, CopyHeld, CopyOwned, CopyFresh, CopiedOnce
<1> QED
  BY <1>1, <1>2

\* A hand that takes a waiting job, or nothing.
LEMMA CopyClaimKeeps ==
  ASSUME CopyInv, NEW p \in Procs, CopyClaim(p)
  PROVE  CopyInv'
<1> USE DEF CopyInv, CHand
<1>1. UNCHANGED <<active, copied>> /\ chand[p].job = NoJob
  BY DEF CopyClaim
<1>2. CASE chand' = [chand EXCEPT ![p] = NoCopy] /\ UNCHANGED job
  BY <1>1, <1>2 DEF CopyTyped, CopyHeld, CopyOwned, CopyFresh, CopiedOnce, NoCopy
<1>3. ASSUME NEW j \in Waiting,
             job' = [job EXCEPT ![j] = "processing"],
             chand' = [chand EXCEPT ![p].left = @ - 1, ![p].job = j,
                                    ![p].res = IF CopyAllowed(p) THEN "place" ELSE "skipped"]
      PROVE  CopyInv'
  <2>1. j \in Jobs /\ job[j] = "pending" /\ copied[j] = 0
    BY <1>3 DEF Waiting, CopyFresh
  <2>2. chand[p].left - 1 \in 0 .. MaxJobs
    <3>1. chand[p].left \in 0 .. MaxJobs /\ chand[p].left > 0
      BY DEF CopyClaim, CopyTyped
    <3> QED
      BY <3>1
  <2>3. CopyTyped'
    BY <1>1, <1>3, <2>1, <2>2 DEF CopyTyped, JobStatus
  <2>4. \A q \in Procs \ {p} : chand'[q] = chand[q]
    BY <1>3 DEF CopyTyped
  <2>5. chand'[p].job = j
    BY <1>3 DEF CopyTyped
  <2>6. \A k \in Jobs : job'[k] = IF k = j THEN "processing" ELSE job[k]
    BY <1>3, <2>1 DEF CopyTyped
  <2>7. \A q \in Procs : chand[q].job # j
    BY <2>1 DEF CopyOwned
  <2>8. CopyOwned'
    BY <2>4, <2>5, <2>6, <2>7 DEF CopyOwned, CopyTyped
  <2>9. CopyHeld' /\ CopyFresh' /\ CopiedOnce'
    BY <1>1, <2>1, <2>4, <2>5, <2>6 DEF CopyHeld, CopyFresh, CopiedOnce, CopyTyped
  <2> QED
    BY <2>3, <2>8, <2>9
<1> QED
  BY <1>2, <1>3 DEF CopyClaim

\* The order of the job in hand, and the end of that job.
LEMMA CopyPlaceKeeps ==
  ASSUME CopyInv, NEW p \in Procs, CopyPlace(p) \/ CopyMark(p)
  PROVE  CopyInv'
<1> USE DEF CopyInv, CHand
<1>1. PICK k \in Jobs : chand[p].job = k /\ job[k] = "processing"
  BY DEF CopyHeld, CopyOwned, CopyPlace, CopyMark
<1>2. \A q \in Procs \ {p} : chand[q].job # k
  BY <1>1 DEF CopyOwned
<1>3. CASE CopyPlace(p)
  <2>1. copied[k] = 0
    BY <1>1, <1>3 DEF CopyPlace, CopyFresh
  <2>2. UNCHANGED <<active, job>> /\ (UNCHANGED copied \/ copied' = [copied EXCEPT ![k] = @ + 1])
    BY <1>1, <1>3 DEF CopyPlace
  <2>3. PICK r \in {"done", "failed"} : chand' = [chand EXCEPT ![p].res = r]
    BY <1>3 DEF CopyPlace
  <2>4. CopyTyped'
    BY <2>2, <2>3 DEF CopyTyped
  <2>5. \A q \in Procs : chand'[q].job = chand[q].job
                         /\ chand'[q].res = IF q = p THEN r ELSE chand[q].res
    BY <2>3 DEF CopyTyped
  <2>6. CopyHeld' /\ CopyOwned'
    BY <1>1, <2>2, <2>5 DEF CopyHeld, CopyOwned
  <2>7. \A j \in Jobs : copied'[j] = copied[j] \/ (j = k /\ copied'[j] = 1)
    <3>1. CASE UNCHANGED copied
      BY <3>1
    <3>2. CASE copied' = [copied EXCEPT ![k] = @ + 1]
      BY <2>1, <3>2 DEF CopyTyped
    <3> QED
      BY <2>2, <3>1, <3>2
  <2>8. CopyFresh' /\ CopiedOnce'
    BY <1>1, <1>2, <2>2, <2>5, <2>7 DEF CopyFresh, CopiedOnce, CopyHeld
  <2> QED
    BY <2>4, <2>6, <2>8
<1>4. CASE CopyMark(p)
  <2>1. PICK r \in {"done", "skipped", "failed"} : chand[p].res = r
    BY <1>4 DEF CopyMark
  <2>2. UNCHANGED <<active, copied>> /\ (UNCHANGED job \/ job' = [job EXCEPT ![k] = r])
    BY <1>1, <1>4, <2>1 DEF CopyMark, CopyVerdict
  <2>3. CopyTyped'
    <3>1. chand[p] \in CHand /\ chand \in [Procs -> CHand]
      BY DEF CopyTyped
    <3>2. NoCopy \in CHand
      BY DEF NoCopy
    <3>3. [chand[p] EXCEPT !.job = NoJob, !.res = "none"] \in CHand
      BY <3>1
    <3>4. chand' \in [Procs -> CHand]
      BY <1>4, <3>1, <3>2, <3>3 DEF CopyMark
    <3>5. job' \in [Jobs -> JobStatus]
      BY <2>2 DEF CopyTyped, JobStatus
    <3> QED
      BY <2>2, <3>4, <3>5 DEF CopyTyped
  <2>4. \A q \in Procs \ {p} : chand'[q] = chand[q]
    BY <1>4 DEF CopyMark, CopyTyped
  <2>5. chand'[p].job = NoJob /\ chand'[p].res = "none"
    BY <1>4 DEF CopyMark, CopyTyped, NoCopy
  <2>6. \A j \in Jobs : job'[j] = job[j] \/ (j = k /\ job'[j] = r)
    <3>1. CASE UNCHANGED job
      BY <3>1
    <3>2. CASE job' = [job EXCEPT ![k] = r]
      BY <3>2 DEF CopyTyped
    <3> QED
      BY <2>2, <3>1, <3>2
  <2>7. CopyHeld' /\ CopyOwned'
    BY <1>2, <2>4, <2>5, <2>6 DEF CopyHeld, CopyOwned
  <2>8. CopyFresh' /\ CopiedOnce'
    BY <2>2, <2>4, <2>5, <2>6 DEF CopyFresh, CopiedOnce
  <2> QED
    BY <2>3, <2>7, <2>8
<1> QED
  BY <1>3, <1>4

---------------------------------------------------------------------------
(* range_signal_paper_executions.                                         *)

LEMMA AppendTyped ==
  \A S : \A s \in Seq(S), x \in S : Append(s, x) \in Seq(S)
OBVIOUS

LEMMA NoRangeTyped ==
  NoRange \in RHand /\ NoRange.event = 0 /\ NoRange.res = "none" /\ NoRange.todo = {}
BY DEF NoRange, RHand

LEMMA RangeInit == Init => RangeInv
<1>1. ASSUME Init PROVE DOMAIN sent = {} /\ sent \in Seq(Events \X Kinds)
  BY <1>1 DEF Init
<1>2. ASSUME Init PROVE RangeTyped
  BY <1>1, <1>2, NoRangeTyped DEF Init, RangeTyped, ExecStatus
<1> QED
  BY <1>1, <1>2 DEF Init, RangeInv, RangeHeld, RangeOwned, RangeFresh, RangeOnce, NoRange,
         Events, Kinds, Placed

LEMMA RangeKept ==
  RangeInv /\ events' \in 0 .. MaxEvents /\ UNCHANGED <<exec, sent, rhand>> => RangeInv'
BY DEF RangeInv, RangeTyped, RangeHeld, RangeOwned, RangeFresh, RangeOnce, Placed

\* The list of a tick.
LEMMA RangeListKeeps ==
  ASSUME RangeInv, NEW p \in Procs, RangeList(p)
  PROVE  RangeInv'
<1> USE DEF RangeInv, RHand
<1>1. UNCHANGED <<events, exec, sent>> /\ rhand[p] = NoRange
  BY DEF RangeList
<1>2. PICK b \in BOOLEAN :
        rhand' = [rhand EXCEPT ![p] = [NoRange EXCEPT !.todo = Listed, !.ready = b]]
  BY Zenon DEF RangeList
<1>3. Listed \subseteq Events
  BY DEF Listed, Open
<1>4. RangeTyped'
  <2>1. [NoRange EXCEPT !.todo = Listed, !.ready = b] \in RHand
    BY <1>3, NoRangeTyped
  <2> QED
    BY <1>1, <1>2, <2>1 DEF RangeTyped
<1>5. \A q \in Procs : rhand'[q].event = rhand[q].event /\ rhand'[q].res = rhand[q].res
  BY <1>1, <1>2, NoRangeTyped DEF RangeTyped
<1> QED
  BY <1>1, <1>4, <1>5 DEF RangeHeld, RangeOwned, RangeFresh, RangeOnce, Placed

\* What is left of a tick that passes an event over.
LEMMA RestHand ==
  ASSUME RangeInv, NEW p \in Procs, NEW e \in Events, rhand[p].event = 0
  PROVE  /\ Rest(p, e) \in RHand
         /\ Rest(p, e).event = 0 /\ Rest(p, e).todo = rhand[p].todo \ {e}
         /\ Rest(p, e).res \in {"none", rhand[p].res}
<1> USE DEF RHand
<1>1. rhand[p] \in RHand
  BY DEF RangeInv, RangeTyped
<1>2. CASE rhand[p].todo = {e}
  <2>1. Rest(p, e) = NoRange
    BY <1>2 DEF Rest
  <2> QED
    BY <1>2, <2>1, NoRangeTyped
<1>3. CASE rhand[p].todo # {e}
  <2>1. Rest(p, e) = [rhand[p] EXCEPT !.todo = @ \ {e}]
    BY <1>3 DEF Rest
  <2> QED
    BY <1>1, <2>1
<1> QED
  BY <1>2, <1>3

\* An event is won, or passed over.
LEMMA RangeClaimKeeps ==
  ASSUME RangeInv, NEW p \in Procs, NEW e \in Events, RangeClaim(p, e)
  PROVE  RangeInv'
<1> USE DEF RangeInv
<1>1. UNCHANGED <<events, sent>> /\ rhand[p].event = 0
  BY DEF RangeClaim
<1>2. rhand[p].res = "none"
  BY <1>1 DEF RangeHeld, Events
<1>3. CASE rhand' = [rhand EXCEPT ![p] = Rest(p, e)] /\ UNCHANGED exec
  <2>1. RangeTyped'
    BY <1>1, <1>3, RestHand DEF RangeTyped
  <2>2. \A q \in Procs : rhand'[q].event = rhand[q].event /\ rhand'[q].res = rhand[q].res
    BY <1>1, <1>2, <1>3, RestHand DEF RangeTyped
  <2> QED
    BY <1>1, <1>3, <2>1, <2>2 DEF RangeHeld, RangeOwned, RangeFresh, RangeOnce, Placed
<1>4. ASSUME exec[e] = "none", exec' = [exec EXCEPT ![e] = "processing"],
             NEW r \in {"skipped", "failed"} \cup Kinds,
             rhand' = [rhand EXCEPT ![p].todo = @ \ {e}, ![p].event = e, ![p].res = r]
      PROVE  RangeInv'
  <2>1. RangeTyped'
    <3>1. exec' \in [Events -> ExecStatus]
      BY <1>4 DEF RangeTyped, ExecStatus
    <3>2. e \in 0 .. MaxEvents /\ r \in {"none", "live", "paper"} \cup ExecStatus
      BY DEF Events, Kinds, ExecStatus
    <3>3. rhand \in [Procs -> RHand] /\ rhand[p] \in RHand
      BY DEF RangeTyped
    <3>4. [rhand[p] EXCEPT !.todo = @ \ {e}, !.event = e, !.res = r] \in RHand
      BY <3>2, <3>3 DEF RHand
    <3>5. rhand' = [rhand EXCEPT ![p] = [rhand[p] EXCEPT !.todo = @ \ {e}, !.event = e, !.res = r]]
      BY <1>4, Zenon
    <3>6. rhand' \in [Procs -> RHand]
      BY <3>3, <3>4, <3>5
    <3> QED
      BY <1>1, <3>1, <3>6 DEF RangeTyped
  <2>2. \A q \in Procs \ {p} : rhand'[q] = rhand[q]
    BY <1>4 DEF RangeTyped
  <2>3. rhand'[p].event = e /\ rhand'[p].res = r
    BY <1>4 DEF RangeTyped, RHand
  <2>4. \A d \in Events : exec'[d] = IF d = e THEN "processing" ELSE exec[d]
    BY <1>4 DEF RangeTyped
  <2>5. \A q \in Procs : rhand[q].event # e
    BY <1>4 DEF RangeOwned
  <2>6. RangeHeld' /\ RangeOwned'
    BY <2>2, <2>3, <2>4, <2>5 DEF RangeHeld, RangeOwned
  <2>7. ~Placed(e)
    BY <1>4 DEF RangeFresh
  <2>8. RangeFresh' /\ RangeOnce'
    BY <1>1, <2>2, <2>3, <2>4, <2>7 DEF RangeFresh, RangeOnce, Placed
  <2> QED
    BY <2>1, <2>6, <2>8
<1> QED
  BY <1>3, <1>4 DEF RangeClaim, Winnable, Routes, Kinds

\* The order of the event in hand, and the end of that event.
LEMMA RangePlaceKeeps ==
  ASSUME RangeInv, NEW p \in Procs, RangePlace(p)
  PROVE  RangeInv'
<1> USE DEF RangeInv
<1>1. PICK k \in Events, kind \in Kinds :
        rhand[p].event = k /\ rhand[p].res = kind /\ exec[k] = "processing"
  BY DEF RangePlace, RangeHeld, RangeOwned, Kinds
<1>2. UNCHANGED <<events, exec>>
  BY DEF RangePlace
<1>3. UNCHANGED sent \/ sent' = Append(sent, <<k, kind>>)
  BY <1>1 DEF RangePlace
<1>4. PICK r \in {"placed_live", "placed_paper", "failed"} :
        rhand' = [rhand EXCEPT ![p].res = r]
  BY Zenon DEF RangePlace
<1>5. \A q \in Procs : rhand'[q].event = rhand[q].event
                       /\ rhand'[q].res = IF q = p THEN r ELSE rhand[q].res
  BY <1>4 DEF RangeTyped, RHand
<1>6. RangeTyped'
  <2>1. rhand' \in [Procs -> RHand]
    BY <1>4 DEF RangeTyped, RHand, ExecStatus
  <2>2. sent' \in Seq(Events \X Kinds)
    <3>1. sent \in Seq(Events \X Kinds) /\ <<k, kind>> \in Events \X Kinds
      BY DEF RangeTyped
    <3>2. CASE UNCHANGED sent
      BY <3>1, <3>2
    <3>3. CASE sent' = Append(sent, <<k, kind>>)
      <4>1. Append(sent, <<k, kind>>) \in Seq(Events \X Kinds)
        BY <3>1, AppendTyped
      <4> QED
        BY <3>3, <4>1
    <3> QED
      BY <1>3, <3>2, <3>3
  <2> QED
    BY <1>2, <2>1, <2>2 DEF RangeTyped
<1>7. RangeHeld' /\ RangeOwned'
  BY <1>1, <1>2, <1>5 DEF RangeHeld, RangeOwned
<1>8. \A d \in Events : Placed(d)' => Placed(d) \/ d = k
  <2>1. CASE UNCHANGED sent
    BY <2>1 DEF Placed
  <2>2. CASE sent' = Append(sent, <<k, kind>>)
    BY <2>2 DEF Placed, RangeTyped
  <2> QED
    BY <1>3, <2>1, <2>2
<1>9. RangeFresh'
  BY <1>1, <1>2, <1>5, <1>8 DEF RangeFresh, RangeHeld, RangeOwned, Kinds
<1>10. RangeOnce'
  <2>1. CASE UNCHANGED sent
    BY <2>1 DEF RangeOnce
  <2>2. CASE sent' = Append(sent, <<k, kind>>)
    <3>1. \A i \in DOMAIN sent : sent[i][1] # k
      BY <1>1 DEF RangeFresh, Placed
    <3>2. \A i \in DOMAIN sent' : \/ i \in DOMAIN sent /\ sent'[i] = sent[i]
                                  \/ i = Len(sent) + 1 /\ sent'[i][1] = k
      BY <2>2 DEF RangeTyped
    <3> QED
      BY <3>1, <3>2 DEF RangeOnce
  <2> QED
    BY <1>3, <2>1, <2>2
<1> QED
  BY <1>6, <1>7, <1>9, <1>10

LEMMA RangeMarkKeeps ==
  ASSUME RangeInv, NEW p \in Procs, RangeMark(p)
  PROVE  RangeInv'
<1> USE DEF RangeInv
<1>1. PICK k \in Events, r \in ExecStatus \ {"none"} :
        rhand[p].event = k /\ rhand[p].res = r /\ exec[k] = "processing"
  BY DEF RangeMark, RangeHeld, RangeOwned
<1>2. UNCHANGED <<events, sent>> /\ (UNCHANGED exec \/ exec' = [exec EXCEPT ![k] = r])
  BY <1>1 DEF RangeMark
<1>3. \A d \in Events : exec'[d] = exec[d] \/ (d = k /\ exec'[d] = r)
  <2>1. CASE UNCHANGED exec
    BY <2>1
  <2>2. CASE exec' = [exec EXCEPT ![k] = r]
    BY <2>2 DEF RangeTyped
  <2> QED
    BY <1>2, <2>1, <2>2
<1>4. RangeTyped'
  <2>1. rhand[p] \in RHand /\ rhand \in [Procs -> RHand]
    BY DEF RangeTyped
  <2>2. [rhand[p] EXCEPT !.event = 0, !.res = "none"] \in RHand
    <3>1. 0 \in 0 .. MaxEvents
      OBVIOUS
    <3> QED
      BY <2>1, <3>1, Zenon DEF RHand
  <2>3. rhand' \in [Procs -> RHand]
    BY <2>1, <2>2, NoRangeTyped DEF RangeMark
  <2>4. exec' \in [Events -> ExecStatus]
    BY <1>2 DEF RangeTyped
  <2> QED
    BY <1>2, <2>3, <2>4 DEF RangeTyped
<1>5. \A q \in Procs \ {p} : rhand'[q] = rhand[q]
  BY DEF RangeMark, RangeTyped
<1>6. rhand'[p].event = 0 /\ rhand'[p].res = "none"
  BY DEF RangeMark, RangeTyped, RHand, NoRange
<1>7. \A q \in Procs \ {p} : rhand[q].event # k
  BY <1>1 DEF RangeOwned
<1>8. RangeHeld' /\ RangeOwned'
  BY <1>3, <1>5, <1>6, <1>7 DEF RangeHeld, RangeOwned, Events
<1>9. RangeFresh' /\ RangeOnce'
  BY <1>2, <1>3, <1>5, <1>6 DEF RangeFresh, RangeOnce, Placed, Kinds
<1> QED
  BY <1>4, <1>8, <1>9

---------------------------------------------------------------------------
(* One process that runs the range loop, and no failure: the events are    *)
(* executed oldest first.                                                  *)

Solo == Cardinality(Running("range")) = 1 /\ faults = 0

\* Only a process that runs the loop has anything in hand.
RangeOnly == \A p \in Procs : rhand[p] # NoRange => p \in Running("range")

\* No event has a row while an older one has none; nor does a tick's list skip one.
RowsClosed == \A d, e \in Events : d < e /\ exec[e] # "none" => exec[d] # "none"
ListClosed ==
  \A p \in Procs : \A e \in rhand[p].todo, d \in Events :
    d < e /\ exec[d] = "none" => d \in rhand[p].todo

\* What is ordered, and what is about to be, is in order.
NextInOrder ==
  \A p \in Procs : rhand[p].res \in Kinds => \A i \in DOMAIN sent : sent[i][1] < rhand[p].event
SentInOrder == \A i, k \in DOMAIN sent : i < k => sent[i][1] < sent[k][1]

InOrder == RowsClosed /\ ListClosed /\ NextInOrder /\ SentInOrder
OrderInv == faults \in Nat /\ RangeOnly /\ (Solo => InOrder)

LEMMA OrderInit == Init => OrderInv
<1>1. ASSUME Init PROVE DOMAIN sent = {}
  BY <1>1 DEF Init
<1> QED
  BY <1>1, NoRangeTyped DEF Init, SwitchInit, OrderInv, RangeOnly, InOrder, RowsClosed, ListClosed,
                        NextInOrder, SentInOrder

\* What leaves the range loop alone leaves its order alone.
LEMMA OrderKept ==
  ASSUME OrderInv, UNCHANGED <<on, exec, sent, rhand>>,
         faults' = faults \/ faults' = faults + 1
  PROVE  OrderInv'
<1>1. Solo' => Solo
  BY DEF OrderInv, Solo, Running
<1> QED
  BY <1>1 DEF OrderInv, RangeOnly, Running, InOrder, RowsClosed, ListClosed, NextInOrder,
              SentInOrder

\* The process that runs the loop is the only one with anything in hand.
LEMMA OnlyOne ==
  ASSUME OrderInv, Solo, NEW p \in Procs, NEW q \in Procs, p \in Running("range"), q # p
  PROVE  rhand[q] = NoRange
<1>1. Running("range") \subseteq Procs
  BY DEF Running
<1>2. IsFiniteSet(Running("range"))
  BY <1>1, FS_Subset
<1>3. PICK r : Running("range") = {r}
  BY <1>2, FS_Singleton DEF Solo
<1> QED
  BY <1>3 DEF OrderInv, RangeOnly

\* A tick's list is the oldest of what is open.
LEMMA ListedClosed ==
  ASSUME RangeTyped, NEW e \in Listed, NEW d \in Events, d < e, exec[d] = "none"
  PROVE  d \in Listed
<1> DEFINE before(n) == {c \in Open : c < n}
<1>1. e \in Open /\ Cardinality(before(e)) < RangeBatch /\ d \in Open
  <2>1. e \in Open /\ Cardinality(before(e)) < RangeBatch
    BY DEF Listed
  <2>2. e <= events /\ e \in Nat /\ d \in Nat /\ events \in Nat
    BY <2>1 DEF Open, Events, RangeTyped
  <2> QED
    BY <2>1, <2>2 DEF Open
<1>2. IsFiniteSet(before(e))
  <2>1. IsFiniteSet(Events) /\ before(e) \subseteq Events
    BY FS_Interval DEF Events, Open
  <2> QED
    BY <2>1, FS_Subset
<1>3. before(d) \subseteq before(e)
  <2>1. \A c \in Open : c \in Nat
    BY DEF Open, Events
  <2>2. d \in Nat /\ e \in Nat
    BY <1>1, <2>1
  <2> QED
    BY <2>1, <2>2
<1>4. Cardinality(before(d)) <= Cardinality(before(e)) /\ IsFiniteSet(before(d))
  BY <1>2, <1>3, FS_Subset
<1>5. Cardinality(before(d)) \in Nat /\ Cardinality(before(e)) \in Nat
  BY <1>2, <1>4, FS_CardinalityType
<1>6. Cardinality(before(d)) < RangeBatch
  BY <1>1, <1>4, <1>5
<1> QED
  BY <1>1, <1>6 DEF Listed

LEMMA RangeListOrder ==
  ASSUME RangeInv, OrderInv, NEW p \in Procs, RangeList(p)
  PROVE  OrderInv'
<1>1. UNCHANGED <<on, exec, sent, faults>> /\ p \in Running("range")
  BY DEF RangeList, Fine, switchVars, Running
<1>2. PICK b \in BOOLEAN :
        rhand' = [rhand EXCEPT ![p] = [NoRange EXCEPT !.todo = Listed, !.ready = b]]
  BY Zenon DEF RangeList
<1>3. \A q \in Procs \ {p} : rhand'[q] = rhand[q]
  BY <1>2 DEF RangeInv, RangeTyped
<1>4. rhand'[p].todo = Listed /\ rhand'[p].res = "none"
  BY <1>2, NoRangeTyped DEF RangeInv, RangeTyped, RHand
<1>5. RangeOnly'
  BY <1>1, <1>3 DEF OrderInv, RangeOnly, Running
<1>6. ASSUME Solo PROVE InOrder'
  <2>1. InOrder
    BY <1>6 DEF OrderInv
  <2>2. ListClosed'
    BY <1>1, <1>3, <1>4, <2>1, ListedClosed DEF InOrder, ListClosed, RangeInv
  <2> QED
    BY <1>1, <1>3, <1>4, <2>1, <2>2 DEF InOrder, RowsClosed, NextInOrder, SentInOrder, Kinds
<1>7. Solo' => Solo
  BY <1>1 DEF Solo, Running
<1> QED
  BY <1>1, <1>5, <1>6, <1>7 DEF OrderInv

LEMMA RangeClaimOrder ==
  ASSUME RangeInv, OrderInv, NEW p \in Procs, NEW e \in Events, RangeClaim(p, e)
  PROVE  OrderInv'
<1>1. UNCHANGED <<on, sent>> /\ rhand[p].event = 0 /\ NextEvent(p, e)
  BY DEF RangeClaim
<1>2. \A q \in Procs \ {p} : rhand'[q] = rhand[q]
  BY DEF RangeClaim, RangeInv, RangeTyped
<1>3. p \in Running("range")
  BY <1>1, NoRangeTyped DEF OrderInv, RangeOnly, NextEvent
<1>4. RangeOnly'
  BY <1>1, <1>2, <1>3 DEF OrderInv, RangeOnly, Running
<1>5. faults' \in Nat /\ (Solo' => Solo) /\ (faults' = 0 => UNCHANGED faults)
  BY <1>1 DEF RangeClaim, Fine, Fault, Fail, switchVars, OrderInv, Solo, Running
<1>6. ASSUME Solo, Solo' PROVE InOrder'
  <2>1. InOrder
    BY <1>6 DEF OrderInv
  <2>2. \A q \in Procs \ {p} : rhand'[q] = NoRange
    BY <1>2, <1>3, <1>6, OnlyOne
  <2>3. rhand'[p].todo = rhand[p].todo \ {e}
    BY <1>1, RestHand DEF RangeClaim, RangeInv, RangeTyped, RHand
  <2>4. \A d \in Events : d < e => exec[d] # "none"
    BY <1>1, <2>1 DEF InOrder, ListClosed, NextEvent, RangeInv, RangeTyped, RHand, Events
  <2>5. \A d \in Events : /\ exec'[d] = "none" <=> exec[d] = "none" /\ d # e
    <3>1. CASE exec[e] = "none"
      BY <1>6, <3>1 DEF RangeClaim, Winnable, Fault, Fail, Solo, RangeInv, RangeTyped
    <3>2. CASE exec[e] # "none"
      BY <3>2 DEF RangeClaim, Winnable
    <3> QED
      BY <3>1, <3>2
  <2>6. RowsClosed'
    BY <2>1, <2>4, <2>5 DEF InOrder, RowsClosed
  <2>7. ListClosed'
    BY <1>1, <2>1, <2>2, <2>3, <2>5, NoRangeTyped DEF InOrder, ListClosed
  <2>8. NextInOrder'
    <3>1. CASE exec[e] = "none"
      <4>1. \A i \in DOMAIN sent : sent[i][1] \in Events /\ exec[sent[i][1]] # "none"
        BY DEF RangeInv, RangeTyped, RangeFresh, Placed
      <4>2. \A i \in DOMAIN sent : sent[i][1] < e
        BY <3>1, <4>1, <2>1 DEF InOrder, RowsClosed, Events
      <4>3. rhand'[p].res \in Kinds => rhand'[p].event = e
        BY <1>6, <3>1 DEF RangeClaim, Winnable, Fault, Fail, Solo, RangeInv, RangeTyped, RHand
      <4> QED
        BY <1>1, <2>2, <4>2, <4>3, NoRangeTyped DEF NextInOrder, Kinds
    <3>2. CASE exec[e] # "none"
      <4>1. rhand'[p].res = "none"
        BY <1>1, <3>2, RestHand DEF RangeClaim, Winnable, RangeInv, RangeHeld, RangeTyped, Events
      <4> QED
        BY <2>2, <4>1, NoRangeTyped DEF NextInOrder, Kinds
    <3> QED
      BY <3>1, <3>2
  <2>9. SentInOrder'
    BY <1>1, <2>1 DEF InOrder, SentInOrder
  <2> QED
    BY <2>6, <2>7, <2>8, <2>9 DEF InOrder
<1> QED
  BY <1>4, <1>5, <1>6 DEF OrderInv

LEMMA RangePlaceOrder ==
  ASSUME RangeInv, OrderInv, NEW p \in Procs, RangePlace(p)
  PROVE  OrderInv'
<1>1. PICK k \in Events : rhand[p].event = k /\ rhand[p].res \in Kinds
  BY DEF RangePlace, RangeInv, RangeHeld, Kinds
<1>2. UNCHANGED <<on, exec>>
  BY DEF RangePlace
<1>3. UNCHANGED sent \/ \E kind \in Kinds : sent' = Append(sent, <<k, kind>>)
  BY <1>1 DEF RangePlace
<1>4. PICK r \in {"placed_live", "placed_paper", "failed"} :
        rhand' = [rhand EXCEPT ![p].res = r]
  BY Zenon DEF RangePlace
<1>5. \A q \in Procs : /\ rhand'[q].event = rhand[q].event /\ rhand'[q].todo = rhand[q].todo
                       /\ q # p => rhand'[q] = rhand[q]
                       /\ rhand'[q].res = IF q = p THEN r ELSE rhand[q].res
  BY <1>4 DEF RangeInv, RangeTyped, RHand
<1>6. p \in Running("range")
  BY <1>1, NoRangeTyped DEF OrderInv, RangeOnly, Kinds
<1>7. RangeOnly'
  BY <1>2, <1>5, <1>6 DEF OrderInv, RangeOnly, Running
<1>8. faults' \in Nat /\ (Solo' => Solo)
  BY <1>2 DEF RangePlace, Fine, Fault, Fail, switchVars, OrderInv, Solo, Running
<1>9. ASSUME Solo PROVE InOrder'
  <2>1. InOrder
    BY <1>9 DEF OrderInv
  <2>2. RowsClosed' /\ ListClosed'
    BY <1>2, <1>5, <2>1 DEF InOrder, RowsClosed, ListClosed
  <2>3. NextInOrder'
    BY <1>5, <1>6, <1>9, OnlyOne, NoRangeTyped DEF NextInOrder, Kinds
  <2>4. \A i \in DOMAIN sent : sent[i][1] < k
    BY <1>1, <2>1 DEF InOrder, NextInOrder
  <2>5. \A i \in DOMAIN sent' : \/ i \in DOMAIN sent /\ sent'[i] = sent[i]
                                \/ i = Len(sent) + 1 /\ sent'[i][1] = k
    <3>1. CASE UNCHANGED sent
      BY <3>1
    <3>2. ASSUME NEW kind \in Kinds, sent' = Append(sent, <<k, kind>>)
          PROVE  \A i \in DOMAIN sent' : \/ i \in DOMAIN sent /\ sent'[i] = sent[i]
                                         \/ i = Len(sent) + 1 /\ sent'[i][1] = k
      BY <3>2 DEF RangeInv, RangeTyped
    <3> QED
      BY <1>3, <3>1, <3>2
  <2>6. DOMAIN sent = 1 .. Len(sent) /\ Len(sent) \in Nat
    BY DEF RangeInv, RangeTyped
  <2>7. SentInOrder'
    BY <2>1, <2>4, <2>5, <2>6 DEF InOrder, SentInOrder
  <2> QED
    BY <2>2, <2>3, <2>7 DEF InOrder
<1> QED
  BY <1>7, <1>8, <1>9 DEF OrderInv

LEMMA RangeMarkOrder ==
  ASSUME RangeInv, OrderInv, NEW p \in Procs, RangeMark(p)
  PROVE  OrderInv'
<1>1. PICK k \in Events, r \in ExecStatus \ {"none"} :
        rhand[p].event = k /\ rhand[p].res = r /\ exec[k] = "processing"
  BY DEF RangeMark, RangeInv, RangeHeld, RangeOwned
<1>2. UNCHANGED <<on, sent>> /\ (UNCHANGED exec \/ exec' = [exec EXCEPT ![k] = r])
  BY <1>1 DEF RangeMark
<1>3. \A d \in Events : exec'[d] = "none" <=> exec[d] = "none"
  <2>1. CASE UNCHANGED exec
    BY <2>1
  <2>2. CASE exec' = [exec EXCEPT ![k] = r]
    BY <1>1, <2>2 DEF RangeInv, RangeTyped
  <2> QED
    BY <1>2, <2>1, <2>2
<1>4. \A q \in Procs \ {p} : rhand'[q] = rhand[q]
  BY DEF RangeMark, RangeInv, RangeTyped
<1>5. rhand'[p].todo = rhand[p].todo /\ rhand'[p].res = "none"
  BY NoRangeTyped DEF RangeMark, RangeInv, RangeTyped, RHand
<1>6. p \in Running("range")
  BY <1>1, NoRangeTyped DEF OrderInv, RangeOnly
<1>7. RangeOnly'
  BY <1>2, <1>4, <1>6 DEF OrderInv, RangeOnly, Running
<1>8. faults' \in Nat /\ (Solo' => Solo)
  BY <1>2 DEF RangeMark, Fine, Fault, Fail, switchVars, OrderInv, Solo, Running
<1>9. ASSUME InOrder PROVE InOrder'
  BY <1>2, <1>3, <1>4, <1>5, <1>9 DEF InOrder, RowsClosed, ListClosed, NextInOrder, SentInOrder,
                                      Kinds
<1> QED
  BY <1>7, <1>8, <1>9 DEF OrderInv

---------------------------------------------------------------------------
(* The specification.                                                     *)

OnceInv == CopyInv /\ RangeInv /\ OrderInv

\* A process that dies drops what it had in hand; its rows stay claimed.
LEMMA CrashKeeps ==
  ASSUME OnceInv, NEW p \in Procs, Crash(p)
  PROVE  OnceInv'
<1>1. UNCHANGED <<on, active, job, copied, events, exec, sent>> /\ faults' = faults + 1
  BY DEF Crash, Reboot, Fail
<1>2. chand' = [chand EXCEPT ![p] = NoCopy] /\ rhand' = [rhand EXCEPT ![p] = NoRange]
  BY DEF Crash
<1>3. CopyInv'
  <2>1. NoCopy \in CHand /\ NoCopy.job = NoJob /\ NoCopy.res = "none"
    BY DEF NoCopy, CHand
  <2> QED
    BY <1>1, <1>2, <2>1 DEF OnceInv, CopyInv, CopyTyped, CopyHeld, CopyOwned, CopyFresh, CopiedOnce
<1>4. RangeInv'
  BY <1>1, <1>2, NoRangeTyped DEF OnceInv, RangeInv, RangeTyped, RangeHeld, RangeOwned, RangeFresh,
                                  RangeOnce, Placed, Events, Kinds
<1>5. OrderInv'
  <2>1. RangeOnly'
    BY <1>1, <1>2 DEF OnceInv, RangeInv, RangeTyped, OrderInv, RangeOnly, Running
  <2>2. faults' \in Nat /\ ~Solo'
    BY <1>1 DEF OnceInv, OrderInv, Solo
  <2> QED
    BY <2>1, <2>2 DEF OrderInv
<1> QED
  BY <1>3, <1>4, <1>5 DEF OnceInv

\* Everything else leaves the rows, the orders and the hands alone.
LEMMA ElsewhereKeeps ==
  ASSUME OnceInv, UNCHANGED <<on, job, copied, chand, exec, sent, rhand>>,
         active' \in SUBSET Subs, events' \in 0 .. MaxEvents,
         faults' = faults \/ faults' = faults + 1
  PROVE  OnceInv'
BY CopyKept, RangeKept, OrderKept DEF OnceInv

LEMMA SwitchKeeps ==
  ASSUME OnceInv, SwitchStep
  PROVE  OnceInv'
<1>1. UNCHANGED <<on, active, job, copied, chand, events, exec, sent, rhand>>
  BY DEF SwitchStep, loopVars, copyVars, rangeVars
<1>2. faults' = faults \/ faults' = faults + 1
  BY DEF SwitchStep, Pnl, Reset, TripLoop, Trip, Persist, Fail, SyncLoop, SyncRead, SyncApply
<1> QED
  BY <1>1, <1>2, ElsewhereKeeps DEF OnceInv, CopyInv, CopyTyped, RangeInv, RangeTyped

LEMMA OnceNext == OnceInv /\ [Next]_vars => OnceInv'
<1> SUFFICES ASSUME OnceInv, [Next]_vars PROVE OnceInv'
  OBVIOUS
<1>0. active \in SUBSET Subs /\ events \in 0 .. MaxEvents
  BY DEF OnceInv, CopyInv, CopyTyped, RangeInv, RangeTyped
<1> USE DEF copyVars, rangeVars, Fine, switchVars
<1>1. CASE UNCHANGED vars
  BY <1>0, <1>1, ElsewhereKeeps DEF vars, loopVars
<1>2. CASE SwitchStep
  BY <1>2, SwitchKeeps
<1>3. CASE LeaderFill \/ (\E s \in Subs : Leave(s))
  <2>1. active' \in SUBSET Subs
    BY <1>0, <1>3 DEF LeaderFill, Leave
  <2> QED
    BY <1>0, <1>3, <2>1, ElsewhereKeeps DEF LeaderFill, Leave
<1>4. CASE RangeEvent
  <2>1. events' \in 0 .. MaxEvents
    BY <1>0, <1>4 DEF RangeEvent
  <2> QED
    BY <1>0, <1>4, <2>1, ElsewhereKeeps DEF RangeEvent
<1>5. ASSUME NEW p \in Procs, CopyStep(p) PROVE OnceInv'
  <2>1. CopyInv'
    BY <1>5, CopyScanKeeps, CopyClaimKeeps, CopyPlaceKeeps DEF CopyStep, OnceInv
  <2>2. UNCHANGED <<on, events, exec, sent, rhand>>
    BY <1>5 DEF CopyStep, CopyScan, CopyEnqueue, CopyClaim, CopyPlace, CopyMark
  <2>3. faults' = faults \/ faults' = faults + 1
    BY <1>5 DEF CopyStep, CopyScan, CopyEnqueue, CopyClaim, CopyPlace, CopyMark, Fault, Fail
  <2> QED
    BY <1>0, <2>1, <2>2, <2>3, RangeKept, OrderKept DEF OnceInv
<1>6. ASSUME NEW p \in Procs, FollowStep(p) PROVE OnceInv'
  <2>1. UNCHANGED <<on, copyVars, rangeVars, switchVars>>
    BY <1>6 DEF FollowStep, FollowStart, FollowPlace
  <2> QED
    BY <1>0, <2>1, ElsewhereKeeps
<1>7. ASSUME NEW p \in Procs, RangeStep(p) PROVE OnceInv'
  <2>1. RangeInv'
    BY <1>7, RangeListKeeps, RangeClaimKeeps, RangePlaceKeeps, RangeMarkKeeps DEF RangeStep, OnceInv
  <2>2. OrderInv'
    BY <1>7, RangeListOrder, RangeClaimOrder, RangePlaceOrder, RangeMarkOrder DEF RangeStep, OnceInv
  <2>3. UNCHANGED copyVars
    BY <1>7 DEF RangeStep, RangeList, RangeClaim, RangePlace, RangeMark
  <2> QED
    BY <1>0, <2>1, <2>2, <2>3, CopyKept DEF OnceInv
<1>8. ASSUME NEW p \in Procs, BridgePlace(p) PROVE OnceInv'
  BY <1>0, <1>8, ElsewhereKeeps DEF BridgePlace, loopVars
<1>9. ASSUME NEW p \in Procs, Crash(p) PROVE OnceInv'
  BY <1>9, CrashKeeps
<1> QED
  BY <1>1, <1>2, <1>3, <1>4, <1>5, <1>6, <1>7, <1>8, <1>9 DEF Next

\* copy_trade_execution_jobs and range_signal_paper_executions: whatever the loops, the
\* failures and the crashes, no job and no event is ordered twice, and a single process
\* without failures executes the events oldest first.
THEOREM OrdersAreOnce == Spec => []OrderedOnce
<1>1. Init => OnceInv
  BY CopyInit, RangeInit, OrderInit DEF OnceInv
<1>2. OnceInv => OrderedOnce
  BY DEF OnceInv, CopyInv, RangeInv, OrderInv, Solo, InOrder, SentInOrder, OrderedOnce, RangeInOrder
<1> QED
  BY <1>1, <1>2, OnceNext, PTL DEF Spec

---------------------------------------------------------------------------
(* What a raised flag lets out.                                           *)

\* The elements of a set of numbers with fewer than n smaller ones are at most n.
LEMMA OldestAreFew ==
  ASSUME NEW S \in SUBSET Nat, IsFiniteSet(S), NEW n \in Nat
  PROVE  LET Least == {e \in S : Cardinality({d \in S : d < e}) < n}
         IN  IsFiniteSet(Least) /\ Cardinality(Least) <= n
<1> DEFINE before(e) == {d \in S : d < e}
           Least == {e \in S : Cardinality(before(e)) < n}
           rank == [e \in Least |-> Cardinality(before(e))]
<1>1. IsFiniteSet(Least) /\ Cardinality(Least) \in Nat
  BY FS_Subset, FS_CardinalityType
<1>2. \A e \in S : IsFiniteSet(before(e)) /\ Cardinality(before(e)) \in Nat
  <2> SUFFICES ASSUME NEW e \in S PROVE IsFiniteSet(before(e)) /\ Cardinality(before(e)) \in Nat
    OBVIOUS
  <2>1. before(e) \subseteq S
    OBVIOUS
  <2> QED
    BY <2>1, FS_Subset, FS_CardinalityType
<1>3. \A d, e \in S : d < e => Cardinality(before(d)) < Cardinality(before(e))
  <2> SUFFICES ASSUME NEW d \in S, NEW e \in S, d < e
               PROVE  Cardinality(before(d)) < Cardinality(before(e))
    OBVIOUS
  <2>1. before(d) \cup {d} \subseteq before(e) /\ d \notin before(d)
    <3>1. \A c \in S : c \in Nat
      OBVIOUS
    <3>2. \A c : (c \in before(d) <=> c \in S /\ c < d) /\ (c \in before(e) <=> c \in S /\ c < e)
      OBVIOUS
    <3> HIDE DEF before
    <3>3. d \in Nat /\ e \in Nat
      BY <3>1
    <3>4. d \notin before(d)
      BY <3>2, <3>3
    <3>5. d \in before(e)
      BY <3>2
    <3>6. ASSUME NEW c \in before(d) PROVE c \in before(e)
      <4>1. c \in S /\ c < d /\ c \in Nat
        BY <3>1, <3>2, <3>6
      <4>2. c < e
        BY <3>3, <4>1
      <4> QED
        BY <3>2, <4>1, <4>2
    <3> QED
      BY <3>4, <3>5, <3>6
  <2>2. Cardinality(before(d) \cup {d}) = Cardinality(before(d)) + 1
    BY <1>2, <2>1, FS_AddElement
  <2>3. Cardinality(before(d) \cup {d}) <= Cardinality(before(e))
    BY <1>2, <2>1, FS_Subset
  <2> QED
    BY <1>2, <2>2, <2>3
<1>4. IsFiniteSet(0 .. n - 1) /\ Cardinality(0 .. n - 1) = n
  BY FS_Interval
<1>5. rank \in [Least -> 0 .. n - 1]
  <2>1. \A e \in Least : e \in S /\ Cardinality(before(e)) < n
    OBVIOUS
  <2> HIDE DEF before, Least
  <2>2. ASSUME NEW e \in Least PROVE Cardinality(before(e)) \in 0 .. n - 1
    <3>1. Cardinality(before(e)) \in Nat /\ Cardinality(before(e)) < n
      BY <1>2, <2>1
    <3> QED
      BY <3>1
  <2> QED
    BY <2>2
<1>6. \A d, e \in Least : d # e => rank[d] # rank[e]
  <2> SUFFICES ASSUME NEW d \in Least, NEW e \in Least, d # e PROVE rank[d] # rank[e]
    OBVIOUS
  <2>1. d \in Nat /\ e \in Nat /\ d \in S /\ e \in S
    OBVIOUS
  <2>2. d < e \/ e < d
    BY <2>1
  <2>3. Cardinality(before(d)) # Cardinality(before(e))
    <3> HIDE DEF before
    <3> QED
      BY <1>2, <1>3, <2>1, <2>2
  <2> QED
    BY <2>3
<1> HIDE DEF Least, rank
<1>7. ~(n < Cardinality(Least))
  BY <1>1, <1>4, <1>5, <1>6, FS_PigeonHole
<1> QED
  BY <1>1, <1>7 DEF Least

\* Orders that what a process has in hand may still become, whatever the flag.
CopyDue(p) == IF chand[p].res = "place" THEN 1 ELSE 0
FollowDue(p) == Cardinality(fhand[p])
RangeDue(p) == (IF rhand[p].ready THEN Cardinality(rhand[p].todo) ELSE 0)
               + (IF rhand[p].res = "live" THEN 1 ELSE 0)

\* A hand belongs to a loop that runs, and is no larger than a tick.
Room(p) ==
  /\ chand[p] # NoCopy => "copy" \in on[p]
  /\ fhand[p] # {} => "follow" \in on[p]
  /\ rhand[p] # NoRange => "range" \in on[p]
  /\ Cardinality(rhand[p].todo) + (IF rhand[p].event = 0 THEN 0 ELSE 1) <= RangeBatch

\* Once the flag is up, what was ordered and what is due stay within the grace.
Bounded(p) ==
  /\ late[p] <= Grace(p)
  /\ halted[p] => late[p] + CopyDue(p) + FollowDue(p) + RangeDue(p) <= Grace(p)

HandsTyped == late \in [Procs -> Nat] /\ fhand \in [Procs -> SUBSET Subs]
HaltInv == OnceInv /\ HandsTyped /\ \A p \in Procs : Room(p) /\ Bounded(p)

\* Hands are finite.
LEMMA HandsCount ==
  ASSUME OnceInv, HandsTyped, NEW p \in Procs
  PROVE  /\ IsFiniteSet(fhand[p]) /\ FollowDue(p) \in Nat /\ FollowDue(p) <= Cardinality(Subs)
         /\ IsFiniteSet(rhand[p].todo) /\ Cardinality(rhand[p].todo) \in Nat
         /\ CopyDue(p) \in Nat /\ RangeDue(p) \in Nat /\ Cardinality(Subs) \in Nat
         /\ Grace(p) \in Nat
<1>1. fhand[p] \subseteq Subs /\ rhand[p].todo \subseteq Events
  BY DEF HandsTyped, OnceInv, RangeInv, RangeTyped, RHand
<1>2. IsFiniteSet(fhand[p]) /\ Cardinality(fhand[p]) <= Cardinality(Subs)
  BY <1>1, FS_Subset
<1>3. IsFiniteSet(Events)
  BY FS_Interval DEF Events
<1>4. IsFiniteSet(rhand[p].todo)
  BY <1>1, <1>3, FS_Subset
<1>5. Cardinality(fhand[p]) \in Nat /\ Cardinality(Subs) \in Nat /\ Cardinality(rhand[p].todo) \in Nat
  BY <1>2, <1>4, FS_CardinalityType
<1>6. CopyDue(p) \in Nat /\ RangeDue(p) \in Nat
  BY <1>5 DEF CopyDue, RangeDue
<1>7. Grace(p) \in Nat
  BY <1>5 DEF Grace
<1> QED
  BY <1>2, <1>4, <1>5, <1>6, <1>7 DEF FollowDue

\* Whatever a process has in hand when the flag goes up fits the grace.
LEMMA DueFits ==
  ASSUME OnceInv, HandsTyped, NEW p \in Procs, Room(p)
  PROVE  CopyDue(p) + FollowDue(p) + RangeDue(p) <= Grace(p)
<1> DEFINE c == IF "copy" \in on[p] THEN 1 ELSE 0
           f == IF "follow" \in on[p] THEN Cardinality(Subs) ELSE 0
           r == IF "range" \in on[p] THEN RangeBatch ELSE 0
<1>1. CopyDue(p) <= c
  <2>1. NoCopy.res = "none"
    BY DEF NoCopy
  <2> QED
    BY <2>1 DEF CopyDue, Room
<1>2. FollowDue(p) <= f
  <2>1. CASE fhand[p] = {}
    BY <2>1, FS_EmptySet, HandsCount DEF FollowDue
  <2>2. CASE fhand[p] # {}
    BY <2>2, HandsCount DEF Room
  <2> QED
    BY <2>1, <2>2
<1>3. RangeDue(p) <= r
  <2>1. CASE rhand[p] = NoRange
    BY <2>1, FS_EmptySet, NoRangeTyped DEF RangeDue
  <2>2. CASE rhand[p] # NoRange
    <3>1. rhand[p].res = "live" => rhand[p].event # 0
      BY DEF OnceInv, RangeInv, RangeHeld, Events
    <3>2. Cardinality(rhand[p].todo) \in Nat
      BY HandsCount
    <3> QED
      BY <2>2, <3>1, <3>2 DEF Room, RangeDue
  <2> QED
    BY <2>1, <2>2
<1>4. c \in Nat /\ f \in Nat /\ r \in Nat /\ Grace(p) = c + f + r
  BY HandsCount DEF Grace
<1> HIDE DEF c, f, r
<1> QED
  BY <1>1, <1>2, <1>3, <1>4, HandsCount

\* A process whose loops do nothing keeps its bounds.
LEMMA IdleBounded ==
  ASSUME HaltInv, NEW p \in Procs, UNCHANGED on,
         chand'[p] = chand[p], fhand'[p] = fhand[p], rhand'[p] = rhand[p],
         late'[p] = late[p], halted'[p] = halted[p]
  PROVE  Room(p)' /\ Bounded(p)'
BY DEF HaltInv, Room, Bounded, CopyDue, FollowDue, RangeDue, Grace

\* A step that lets out no more than it takes from the hand keeps them too.
LEMMA PaidBounded ==
  ASSUME HaltInv, NEW p \in Procs, UNCHANGED on, halted'[p] = halted[p],
         NEW n \in Nat, late'[p] = late[p] + (IF halted[p] THEN n ELSE 0),
         CopyDue(p)' \in Nat, FollowDue(p)' \in Nat, RangeDue(p)' \in Nat,
         halted[p] => n + CopyDue(p)' + FollowDue(p)' + RangeDue(p)'
                        <= CopyDue(p) + FollowDue(p) + RangeDue(p)
  PROVE  Bounded(p)'
<1>1. late[p] \in Nat /\ late[p] <= Grace(p) /\ Bounded(p)
  BY DEF HaltInv, HandsTyped, Bounded
<1>2. Grace(p)' = Grace(p)
  BY DEF Grace
<1>3. CASE halted[p]
  BY <1>1, <1>2, <1>3, HandsCount DEF HaltInv, Bounded
<1>4. CASE ~halted[p]
  BY <1>1, <1>2, <1>4 DEF Bounded
<1> QED
  BY <1>3, <1>4

\* One order of a loop that looks at the halt counts once, and only under the flag.
LEMMA OrderCounted ==
  ASSUME HandsTyped, NEW p \in Procs
  PROVE  /\ Ordered(p) => /\ late' \in [Procs -> Nat]
                          /\ late'[p] = late[p] + (IF halted[p] THEN 1 ELSE 0)
                          /\ \A q \in Procs \ {p} : late'[q] = late[q]
         /\ NoOrder => /\ late' \in [Procs -> Nat] /\ UNCHANGED late
                       /\ late'[p] = late[p] + (IF halted[p] THEN 0 ELSE 0)
<1>1. late \in [Procs -> Nat] /\ late[p] \in Nat
  BY DEF HandsTyped
<1>2. CASE halted[p]
  BY <1>1, <1>2 DEF Ordered, NoOrder
<1>3. CASE ~halted[p]
  BY <1>1, <1>3 DEF Ordered, NoOrder
<1> QED
  BY <1>2, <1>3

\* copy_trade_queue_loop: a job is claimed for an order only while the flag is down.
LEMMA CopyBounded ==
  ASSUME HaltInv, NEW p \in Procs, CopyStep(p)
  PROVE  HandsTyped' /\ \A q \in Procs : Room(q)' /\ Bounded(q)'
<1>0. OnceInv /\ HandsTyped /\ chand \in [Procs -> CHand]
  BY DEF HaltInv, OnceInv, CopyInv, CopyTyped
<1>1. UNCHANGED <<on, halted, fhand, rhand>>
  <2>1. Fine \/ (\E k \in {"enqueue", "claim", "mark"} : Fault(k)) => UNCHANGED halted
    BY DEF Fine, Fault, Quiet, switchVars
  <2> QED
    BY <2>1 DEF CopyStep, CopyScan, CopyEnqueue, CopyClaim, CopyPlace, CopyMark, rangeVars
<1>2. \A q \in Procs \ {p} : chand'[q] = chand[q]
  BY <1>0 DEF CopyStep, CopyScan, CopyEnqueue, CopyClaim, CopyPlace, CopyMark
<1>3. "copy" \in on[p]
  <2>1. NoCopy.scan = {} /\ NoCopy.left = 0 /\ NoCopy.res = "none"
    BY DEF NoCopy
  <2>2. chand[p] # NoCopy => "copy" \in on[p]
    BY DEF HaltInv, Room
  <2>3. \/ "copy" \in on[p]
        \/ chand[p].scan # {} \/ chand[p].left # 0 \/ chand[p].res # "none"
    <3>1. CASE CopyScan(p)
      BY <3>1 DEF CopyScan
    <3>2. CASE \E j \in Jobs : CopyEnqueue(p, j)
      BY <3>2 DEF CopyEnqueue
    <3>3. CASE CopyClaim(p)
      <4>1. chand[p].left \in 0 .. MaxJobs /\ chand[p].left > 0
        BY <1>0, <3>3 DEF CopyClaim, CHand
      <4> QED
        BY <4>1
    <3>4. CASE CopyPlace(p) \/ CopyMark(p)
      BY <3>4 DEF CopyPlace, CopyMark
    <3> QED
      BY <3>1, <3>2, <3>3, <3>4 DEF CopyStep
  <2> QED
    BY <2>1, <2>2, <2>3
<1>4. PICK n \in {0, 1} :
        /\ late' \in [Procs -> Nat] /\ \A q \in Procs \ {p} : late'[q] = late[q]
        /\ late'[p] = late[p] + (IF halted[p] THEN n ELSE 0)
        /\ halted[p] => n + CopyDue(p)' <= CopyDue(p)
  <2>1. CASE CopyPlace(p)
    <3>1. CopyDue(p) = 1 /\ CopyDue(p)' = 0
      BY <1>0, <2>1 DEF CopyPlace, CopyDue, CHand
    <3>2. Ordered(p) \/ NoOrder
      BY <2>1 DEF CopyPlace
    <3> QED
      BY <1>0, <3>1, <3>2, OrderCounted
  <2>2. CASE CopyScan(p) \/ (\E j \in Jobs : CopyEnqueue(p, j))
    <3>1. chand'[p].res = chand[p].res /\ NoOrder
      BY <1>0, <2>2 DEF CopyScan, CopyEnqueue, CHand
    <3> QED
      BY <1>0, <3>1, OrderCounted DEF CopyDue
  <2>3. CASE CopyClaim(p)
    <3>1. NoOrder /\ (halted[p] => chand'[p].res # "place")
      <4>1. CASE chand' = [chand EXCEPT ![p] = NoCopy]
        BY <1>0, <2>3, <4>1 DEF CopyClaim, NoCopy
      <4>2. ASSUME NEW j \in Waiting, NEW r \in {"place", "skipped"}, halted[p] => r = "skipped",
                   chand' = [chand EXCEPT ![p].left = @ - 1, ![p].job = j, ![p].res = r]
            PROVE  halted[p] => chand'[p].res # "place"
        BY <1>0, <4>2 DEF CHand
      <4>3. \/ chand' = [chand EXCEPT ![p] = NoCopy]
            \/ \E j \in Waiting, r \in {"place", "skipped"} :
                 /\ halted[p] => r = "skipped"
                 /\ chand' = [chand EXCEPT ![p].left = @ - 1, ![p].job = j, ![p].res = r]
        <5>1. CASE CopyAllowed(p)
          BY <2>3, <5>1 DEF CopyClaim, CopyAllowed
        <5>2. CASE ~CopyAllowed(p)
          BY <2>3, <5>2 DEF CopyClaim
        <5> QED
          BY <5>1, <5>2
      <4> QED
        BY <2>3, <4>1, <4>2, <4>3 DEF CopyClaim
    <3> QED
      BY <1>0, <3>1, OrderCounted DEF CopyDue
  <2>4. CASE CopyMark(p)
    <3>1. NoOrder /\ chand'[p].res # "place"
      BY <1>0, <2>4 DEF CopyMark, CHand, NoCopy
    <3> QED
      BY <1>0, <3>1, OrderCounted DEF CopyDue
  <2> QED
    BY <2>1, <2>2, <2>3, <2>4 DEF CopyStep
<1>5. HandsTyped'
  BY <1>0, <1>1, <1>4 DEF HandsTyped
<1>6. ASSUME NEW q \in Procs \ {p} PROVE Room(q)' /\ Bounded(q)'
  BY <1>1, <1>2, <1>4, IdleBounded
<1>7. Room(p)'
  BY <1>1, <1>3 DEF HaltInv, Room
<1>8. Bounded(p)'
  <2>1. FollowDue(p)' = FollowDue(p) /\ RangeDue(p)' = RangeDue(p)
    BY <1>1 DEF FollowDue, RangeDue
  <2>2. CopyDue(p)' \in Nat
    BY DEF CopyDue
  <2>3. CopyDue(p) \in Nat /\ FollowDue(p) \in Nat /\ RangeDue(p) \in Nat
    BY <1>0, HandsCount
  <2> QED
    BY <1>1, <1>4, <2>1, <2>2, <2>3, PaidBounded
<1> QED
  BY <1>5, <1>6, <1>7, <1>8

\* copy_trade_follower_loop: a tick begins only while the flag is down.
LEMMA FollowBounded ==
  ASSUME HaltInv, NEW p \in Procs, FollowStep(p)
  PROVE  HandsTyped' /\ \A q \in Procs : Room(q)' /\ Bounded(q)'
<1>0. OnceInv /\ HandsTyped /\ Room(p) /\ active \subseteq Subs
  BY DEF HaltInv, OnceInv, CopyInv, CopyTyped
<1>1. UNCHANGED <<on, halted, chand, rhand>>
  BY DEF FollowStep, FollowStart, FollowPlace, Fine, switchVars, copyVars, rangeVars
<1>2. "follow" \in on[p]
  BY <1>0 DEF FollowStep, FollowStart, FollowPlace, Room
<1>3. /\ fhand' \in [Procs -> SUBSET Subs]
      /\ \A q \in Procs \ {p} : fhand'[q] = fhand[q]
  BY <1>0 DEF FollowStep, FollowStart, FollowPlace, HandsTyped
<1>4. PICK n \in {0, 1} :
        /\ late' \in [Procs -> Nat] /\ \A q \in Procs \ {p} : late'[q] = late[q]
        /\ late'[p] = late[p] + (IF halted[p] THEN n ELSE 0)
        /\ halted[p] => n + FollowDue(p)' <= FollowDue(p)
  <2>1. CASE FollowStart(p)
    BY <1>0, <2>1, OrderCounted DEF FollowStart
  <2>2. ASSUME NEW s \in Subs, FollowPlace(p, s)
        PROVE  \E n \in {0, 1} :
                 /\ late' \in [Procs -> Nat] /\ \A q \in Procs \ {p} : late'[q] = late[q]
                 /\ late'[p] = late[p] + (IF halted[p] THEN n ELSE 0)
                 /\ halted[p] => n + FollowDue(p)' <= FollowDue(p)
    <3>1. fhand'[p] = fhand[p] \ {s} /\ s \in fhand[p]
      BY <1>0, <2>2 DEF FollowPlace, HandsTyped
    <3>2. IsFiniteSet(fhand[p]) /\ FollowDue(p) \in Nat
      BY <1>0, HandsCount
    <3>3. FollowDue(p)' = FollowDue(p) - 1
      <4>1. PICK F : F = fhand[p] /\ IsFiniteSet(F) /\ s \in F
        BY <3>1, <3>2, Zenon
      <4>2. Cardinality(F \ {s}) = Cardinality(F) - 1
        BY <4>1, FS_RemoveElement
      <4> QED
        BY <3>1, <4>1, <4>2 DEF FollowDue
    <3>4. Ordered(p) \/ NoOrder
      BY <2>2 DEF FollowPlace
    <3> QED
      BY <1>0, <3>2, <3>3, <3>4, OrderCounted
  <2> QED
    BY <2>1, <2>2 DEF FollowStep
<1>5. HandsTyped'
  BY <1>3, <1>4 DEF HandsTyped
<1>6. ASSUME NEW q \in Procs \ {p} PROVE Room(q)' /\ Bounded(q)'
  BY <1>1, <1>3, <1>4, IdleBounded
<1>7. Room(p)'
  BY <1>0, <1>1, <1>2 DEF Room
<1>8. Bounded(p)'
  <2>1. CopyDue(p)' = CopyDue(p) /\ RangeDue(p)' = RangeDue(p)
    BY <1>1 DEF CopyDue, RangeDue
  <2>2. FollowDue(p)' \in Nat
    <3>1. fhand'[p] \subseteq Subs
      BY <1>3
    <3> QED
      BY <3>1, FS_Subset, FS_CardinalityType DEF FollowDue
  <2>3. CopyDue(p) \in Nat /\ FollowDue(p) \in Nat /\ RangeDue(p) \in Nat
    BY <1>0, HandsCount
  <2> QED
    BY <1>1, <1>4, <2>1, <2>2, <2>3, PaidBounded
<1> QED
  BY <1>5, <1>6, <1>7, <1>8

\* range_signal_execute_loop: a live order is possible only in a tick whose list was read
\* while the flag was down, and that list has RangeBatch events at most.
LEMMA RangeBounded ==
  ASSUME HaltInv, NEW p \in Procs, RangeStep(p)
  PROVE  HandsTyped' /\ \A q \in Procs : Room(q)' /\ Bounded(q)'
<1>0. /\ OnceInv /\ HandsTyped /\ Room(p) /\ RangeInv
      /\ rhand \in [Procs -> RHand] /\ rhand[p] \in RHand /\ RangeTyped
  BY DEF HaltInv, OnceInv, RangeInv, RangeTyped
<1>1. UNCHANGED <<on, halted, chand, fhand>>
  <2>1. Fine \/ (\E k \in {"lost", "claim", "mark"} : Fault(k)) => UNCHANGED halted
    BY DEF Fine, Fault, Quiet, switchVars
  <2> QED
    BY <2>1 DEF RangeStep, RangeList, RangeClaim, RangePlace, RangeMark, copyVars
<1>2. \A q \in Procs \ {p} : rhand'[q] = rhand[q]
  BY <1>0 DEF RangeStep, RangeList, RangeClaim, RangePlace, RangeMark
<1> DEFINE todo == Cardinality(rhand[p].todo)
           hand == IF rhand[p].event = 0 THEN 0 ELSE 1
<1>3. IsFiniteSet(rhand[p].todo) /\ todo \in Nat /\ todo + hand <= RangeBatch
  BY <1>0, HandsCount DEF Room
<1>4. ASSUME RangeList(p)
      PROVE  /\ NoOrder /\ "range" \in on[p] /\ RangeDue(p)' \in Nat
             /\ Cardinality(rhand'[p].todo) + (IF rhand'[p].event = 0 THEN 0 ELSE 1) <= RangeBatch
             /\ halted[p] => RangeDue(p)' = 0
  <2>1. PICK b \in BOOLEAN :
          /\ halted[p] => b = FALSE
          /\ rhand' = [rhand EXCEPT ![p] = [NoRange EXCEPT !.todo = Listed, !.ready = b]]
    BY <1>4, Zenon DEF RangeList
  <2>2. /\ rhand'[p].todo = Listed /\ rhand'[p].event = 0 /\ rhand'[p].res = "none"
        /\ rhand'[p].ready = b
    BY <1>0, <2>1, NoRangeTyped DEF RHand
  <2>3. Cardinality(Listed) \in Nat /\ Cardinality(Listed) <= RangeBatch
    <3>1. PICK O : O = Open
      OBVIOUS
    <3>2. O \in SUBSET Nat /\ IsFiniteSet(O)
      <4>1. IsFiniteSet(Events) /\ Events \subseteq Nat /\ O \subseteq Events
        BY <3>1, FS_Interval DEF Events, Open
      <4> QED
        BY <4>1, FS_Subset
    <3>3. PICK L : L = {e \in O : Cardinality({d \in O : d < e}) < RangeBatch}
      OBVIOUS
    <3>4. IsFiniteSet(L) /\ Cardinality(L) <= RangeBatch
      BY <3>2, <3>3, OldestAreFew
    <3>5. Listed = L
      BY <3>1, <3>3 DEF Listed
    <3> QED
      BY <3>4, <3>5, FS_CardinalityType
  <2>4. RangeDue(p)' = IF b THEN Cardinality(Listed) ELSE 0
    <3>1. CASE b = TRUE
      BY <2>2, <2>3, <3>1 DEF RangeDue
    <3>2. CASE b = FALSE
      BY <2>2, <3>2 DEF RangeDue
    <3> QED
      BY <3>1, <3>2
  <2> QED
    BY <1>4, <2>1, <2>2, <2>3, <2>4 DEF RangeList
<1>5. ASSUME NEW e \in Events, RangeClaim(p, e)
      PROVE  /\ NoOrder /\ rhand[p] # NoRange /\ RangeDue(p)' \in Nat
             /\ Cardinality(rhand'[p].todo) + (IF rhand'[p].event = 0 THEN 0 ELSE 1) <= RangeBatch
             /\ RangeDue(p)' <= RangeDue(p)
  <2>1. e \in rhand[p].todo /\ NoOrder /\ rhand[p].event = 0 /\ rhand[p].res = "none"
    BY <1>0, <1>5 DEF RangeClaim, NextEvent, RangeInv, RangeHeld, Events
  <2>2. Cardinality(rhand[p].todo \ {e}) = todo - 1 /\ todo - 1 \in Nat
    <3>1. PICK T : T = rhand[p].todo /\ IsFiniteSet(T) /\ e \in T
      BY <1>3, <2>1, Zenon
    <3>2. Cardinality(T \ {e}) = Cardinality(T) - 1 /\ IsFiniteSet(T \ {e})
      BY <3>1, FS_RemoveElement
    <3>3. Cardinality(T \ {e}) \in Nat
      BY <3>2, FS_CardinalityType, Zenon
    <3> QED
      BY <3>1, <3>2, <3>3
  <2>3. CASE rhand' = [rhand EXCEPT ![p] = Rest(p, e)]
    <3>1. rhand'[p] = Rest(p, e)
      BY <1>0, <2>3
    <3>2. /\ rhand'[p].todo = rhand[p].todo \ {e} /\ rhand'[p].event = 0
          /\ rhand'[p].res = "none"
      BY <1>0, <2>1, <3>1, RestHand
    <3>3. rhand'[p].ready => rhand[p].ready
      <4>1. ~NoRange.ready
        BY DEF NoRange
      <4>2. [rhand[p] EXCEPT !.todo = @ \ {e}].ready = rhand[p].ready
        BY <1>0 DEF RHand
      <4> QED
        BY <3>1, <4>1, <4>2 DEF Rest
    <3> QED
      BY <1>3, <2>1, <2>2, <3>2, <3>3, NoRangeTyped DEF RangeDue
  <2>4. ASSUME NEW r \in Routes(p),
               rhand' = [rhand EXCEPT ![p].todo = @ \ {e}, ![p].event = e, ![p].res = r]
        PROVE  /\ RangeDue(p)' \in Nat /\ RangeDue(p)' <= RangeDue(p)
               /\ Cardinality(rhand'[p].todo) + (IF rhand'[p].event = 0 THEN 0 ELSE 1) <= RangeBatch
    <3>1. /\ rhand'[p].todo = rhand[p].todo \ {e} /\ rhand'[p].event = e
          /\ rhand'[p].res = r /\ rhand'[p].ready = rhand[p].ready
      BY <1>0, <2>4 DEF RHand
    <3>2. r = "live" => rhand[p].ready
      BY <2>4 DEF Routes
    <3> QED
      BY <1>3, <2>1, <2>2, <3>1, <3>2 DEF RangeDue
  <2>5. \/ rhand' = [rhand EXCEPT ![p] = Rest(p, e)]
        \/ \E r \in Routes(p) :
             rhand' = [rhand EXCEPT ![p].todo = @ \ {e}, ![p].event = e, ![p].res = r]
    BY <1>5 DEF RangeClaim
  <2> QED
    BY <2>1, <2>3, <2>4, <2>5, NoRangeTyped
<1>6. ASSUME RangePlace(p)
      PROVE  /\ rhand[p] # NoRange /\ RangeDue(p)' \in Nat
             /\ Cardinality(rhand'[p].todo) + (IF rhand'[p].event = 0 THEN 0 ELSE 1) <= RangeBatch
             /\ \/ NoOrder /\ RangeDue(p)' <= RangeDue(p)
                \/ Ordered(p) /\ RangeDue(p)' + 1 <= RangeDue(p)
  <2>1. PICK r \in {"placed_live", "placed_paper", "failed"} :
          rhand' = [rhand EXCEPT ![p].res = r]
    BY <1>6, Zenon DEF RangePlace
  <2>2. /\ rhand'[p].todo = rhand[p].todo /\ rhand'[p].event = rhand[p].event
        /\ rhand'[p].ready = rhand[p].ready /\ rhand'[p].res = r
    BY <1>0, <2>1 DEF RHand
  <2>3. rhand[p].res \in Kinds /\ (NoOrder \/ (rhand[p].res = "live" /\ Ordered(p)))
    BY <1>6 DEF RangePlace
  <2> QED
    BY <1>3, <2>2, <2>3, NoRangeTyped DEF RangeDue, Kinds
<1>7. ASSUME RangeMark(p)
      PROVE  /\ NoOrder /\ rhand[p] # NoRange /\ RangeDue(p)' \in Nat
             /\ Cardinality(rhand'[p].todo) + (IF rhand'[p].event = 0 THEN 0 ELSE 1) <= RangeBatch
             /\ RangeDue(p)' <= RangeDue(p)
  <2>1. rhand[p].res # "none" /\ NoOrder
    BY <1>7 DEF RangeMark
  <2>2. rhand'[p].todo = rhand[p].todo /\ rhand'[p].event = 0 /\ rhand'[p].res = "none"
    BY <1>0, <1>7, NoRangeTyped DEF RangeMark, RHand
  <2>3. rhand'[p].ready => rhand[p].ready
    <3>1. ~NoRange.ready
      BY DEF NoRange
    <3>2. [rhand[p] EXCEPT !.event = 0, !.res = "none"].ready = rhand[p].ready
      BY <1>0 DEF RHand
    <3> QED
      BY <1>0, <1>7, <3>1, <3>2 DEF RangeMark
  <2> QED
    BY <1>3, <2>1, <2>2, <2>3, NoRangeTyped DEF RangeDue
<1> HIDE DEF todo, hand
<1>8. /\ "range" \in on[p] /\ RangeDue(p)' \in Nat
      /\ Cardinality(rhand'[p].todo) + (IF rhand'[p].event = 0 THEN 0 ELSE 1) <= RangeBatch
  BY <1>0, <1>4, <1>5, <1>6, <1>7 DEF RangeStep, Room
<1>9. PICK n \in {0, 1} :
        /\ late' \in [Procs -> Nat] /\ \A q \in Procs \ {p} : late'[q] = late[q]
        /\ late'[p] = late[p] + (IF halted[p] THEN n ELSE 0)
        /\ halted[p] => n + RangeDue(p)' <= RangeDue(p)
  <2>1. RangeDue(p) \in Nat
    BY <1>0, HandsCount
  <2>2. \/ NoOrder /\ (halted[p] => RangeDue(p)' <= RangeDue(p))
        \/ Ordered(p) /\ RangeDue(p)' + 1 <= RangeDue(p)
    BY <1>4, <1>5, <1>6, <1>7, <2>1 DEF RangeStep
  <2> QED
    BY <1>0, <1>8, <2>1, <2>2, OrderCounted
<1>10. HandsTyped'
  BY <1>0, <1>1, <1>9 DEF HandsTyped
<1>11. ASSUME NEW q \in Procs \ {p} PROVE Room(q)' /\ Bounded(q)'
  BY <1>1, <1>2, <1>9, IdleBounded
<1>12. Room(p)'
  BY <1>0, <1>1, <1>8 DEF Room
<1>13. Bounded(p)'
  <2>1. CopyDue(p)' = CopyDue(p) /\ FollowDue(p)' = FollowDue(p)
    BY <1>1 DEF CopyDue, FollowDue
  <2>2. CopyDue(p) \in Nat /\ FollowDue(p) \in Nat /\ RangeDue(p) \in Nat
    BY <1>0, HandsCount
  <2> QED
    BY <1>1, <1>8, <1>9, <2>1, <2>2, PaidBounded
<1> QED
  BY <1>10, <1>11, <1>12, <1>13

\* A flag that goes up starts the count again; one that stays up keeps it.
LEMMA RecountTyped ==
  ASSUME HandsTyped, Recount
  PROVE  /\ late' \in [Procs -> Nat]
         /\ \A p \in Procs : late'[p] = IF Raised(p) THEN 0 ELSE late[p]
BY DEF HandsTyped, Recount

\* The flag of a process that keeps its hand.
LEMMA RaisedBounded ==
  ASSUME HaltInv, NEW p \in Procs, UNCHANGED on, Recount,
         chand'[p] = chand[p], fhand'[p] = fhand[p], rhand'[p] = rhand[p]
  PROVE  Room(p)' /\ Bounded(p)'
<1>1. Room(p) /\ Bounded(p) /\ OnceInv /\ HandsTyped /\ late[p] \in Nat
  BY DEF HaltInv, HandsTyped
<1>2. Room(p)' /\ Grace(p)' = Grace(p)
  BY <1>1 DEF Room, Grace
<1>3. CopyDue(p)' = CopyDue(p) /\ FollowDue(p)' = FollowDue(p) /\ RangeDue(p)' = RangeDue(p)
  BY DEF CopyDue, FollowDue, RangeDue
<1>4. CopyDue(p) \in Nat /\ FollowDue(p) \in Nat /\ RangeDue(p) \in Nat /\ Grace(p) \in Nat
  BY <1>1, HandsCount
<1>5. CopyDue(p) + FollowDue(p) + RangeDue(p) <= Grace(p)
  BY <1>1, DueFits
<1>6. CASE Raised(p)
  <2>1. late'[p] = 0
    BY <1>1, <1>6, RecountTyped
  <2> QED
    BY <1>2, <1>3, <1>4, <1>5, <2>1 DEF Bounded
<1>7. CASE ~Raised(p)
  <2>1. late'[p] = late[p]
    BY <1>1, <1>7, RecountTyped
  <2> QED
    BY <1>1, <1>2, <1>3, <1>7, <2>1 DEF Bounded, Raised
<1> QED
  BY <1>6, <1>7

LEMMA SwitchBounded ==
  ASSUME HaltInv, SwitchStep
  PROVE  HandsTyped' /\ \A p \in Procs : Room(p)' /\ Bounded(p)'
<1>1. Recount /\ UNCHANGED <<on, chand, fhand, rhand>>
  BY DEF SwitchStep, loopVars, copyVars, rangeVars
<1>2. HandsTyped'
  BY <1>1, RecountTyped DEF HaltInv, HandsTyped
<1> QED
  BY <1>1, <1>2, RaisedBounded

\* A process that dies has nothing in hand: nothing more can come of it.
LEMMA CrashBounded ==
  ASSUME HaltInv, NEW p \in Procs, Crash(p)
  PROVE  HandsTyped' /\ \A q \in Procs : Room(q)' /\ Bounded(q)'
<1>0. /\ OnceInv /\ HandsTyped /\ Bounded(p) /\ late[p] \in Nat
      /\ chand \in [Procs -> CHand] /\ rhand \in [Procs -> RHand]
  BY DEF HaltInv, HandsTyped, OnceInv, CopyInv, CopyTyped, RangeInv, RangeTyped
<1>1. Recount /\ UNCHANGED on
  BY DEF Crash
<1>2. /\ chand' = [chand EXCEPT ![p] = NoCopy] /\ fhand' = [fhand EXCEPT ![p] = {}]
      /\ rhand' = [rhand EXCEPT ![p] = NoRange]
  BY DEF Crash
<1>3. HandsTyped'
  BY <1>0, <1>1, <1>2, RecountTyped DEF HandsTyped
<1>4. ASSUME NEW q \in Procs \ {p} PROVE Room(q)' /\ Bounded(q)'
  <2>1. chand'[q] = chand[q] /\ fhand'[q] = fhand[q] /\ rhand'[q] = rhand[q]
    BY <1>0, <1>2 DEF HandsTyped
  <2> QED
    BY <1>1, <2>1, RaisedBounded
<1>5. chand'[p] = NoCopy /\ fhand'[p] = {} /\ rhand'[p] = NoRange
  BY <1>0, <1>2 DEF HandsTyped
<1>6. Cardinality({}) = 0
  BY FS_EmptySet
<1>7. Room(p)'
  BY <1>5, <1>6, NoRangeTyped DEF Room
<1>8. Bounded(p)'
  <2>1. CopyDue(p)' = 0 /\ FollowDue(p)' = 0 /\ RangeDue(p)' = 0
    <3>1. NoCopy.res = "none"
      BY DEF NoCopy
    <3> QED
      BY <1>5, <1>6, <3>1, NoRangeTyped DEF CopyDue, FollowDue, RangeDue
  <2>2. Grace(p)' = Grace(p) /\ Grace(p) \in Nat
    BY <1>0, <1>1, HandsCount DEF Grace
  <2>3. late'[p] \in Nat /\ late'[p] <= Grace(p)
    BY <1>0, <1>1, <2>2, RecountTyped DEF Bounded
  <2> QED
    BY <2>1, <2>2, <2>3 DEF Bounded
<1> QED
  BY <1>3, <1>4, <1>7, <1>8

LEMMA HaltInit == Init => HaltInv
<1> SUFFICES ASSUME Init PROVE HaltInv
  OBVIOUS
<1>1. OnceInv
  BY CopyInit, RangeInit, OrderInit DEF OnceInv
<1>2. HandsTyped
  BY DEF Init, HandsTyped
<1>3. ASSUME NEW p \in Procs PROVE Room(p) /\ Bounded(p)
  <2>1. chand[p] = NoCopy /\ fhand[p] = {} /\ rhand[p] = NoRange /\ late[p] = 0 /\ halted[p] = FALSE
    BY DEF Init, SwitchInit
  <2>2. Grace(p) \in Nat
    BY <1>1, <1>2, HandsCount
  <2> QED
    BY <2>1, <2>2, FS_EmptySet, NoRangeTyped DEF Room, Bounded
<1> QED
  BY <1>1, <1>2, <1>3 DEF HaltInv

LEMMA HaltNext == HaltInv /\ [Next]_vars => HaltInv'
<1> SUFFICES ASSUME HaltInv, [Next]_vars PROVE HaltInv'
  OBVIOUS
<1>1. OnceInv'
  BY OnceNext DEF HaltInv
<1> DEFINE Held == HandsTyped' /\ \A p \in Procs : Room(p)' /\ Bounded(p)'
<1>2. ASSUME UNCHANGED <<on, halted, chand, fhand, rhand, late>> PROVE Held
  BY <1>2, IdleBounded DEF HaltInv, HandsTyped
<1>3. ASSUME SwitchStep PROVE Held
  BY <1>3, SwitchBounded
<1>4. ASSUME LeaderFill \/ (\E s \in Subs : Leave(s)) \/ RangeEvent \/ UNCHANGED vars
      PROVE  Held
  BY <1>2, <1>4 DEF LeaderFill, Leave, RangeEvent, vars, loopVars, copyVars, rangeVars, switchVars,
                    Fine, NoOrder
<1>5. ASSUME NEW p \in Procs, CopyStep(p) \/ FollowStep(p) \/ RangeStep(p) PROVE Held
  BY <1>5, CopyBounded, FollowBounded, RangeBounded
<1>6. ASSUME NEW p \in Procs, BridgePlace(p) PROVE Held
  BY <1>2, <1>6 DEF BridgePlace, loopVars, copyVars, rangeVars, switchVars, Fine
<1>7. ASSUME NEW p \in Procs, Crash(p) PROVE Held
  BY <1>7, CrashBounded
<1>8. Held
  BY <1>3, <1>4, <1>5, <1>6, <1>7 DEF Next
<1> QED
  BY <1>1, <1>8 DEF HaltInv

\* halt_trading: in every process, from the moment its flag is up, the loops that look at
\* it place at most what was past their last look: one job of the copy queue, the tick of
\* the follower, the batch of the range loop.
THEOREM HaltHolds == Spec => []HaltBoundsOrders
<1>1. HaltInv => HaltBoundsOrders
  BY DEF HaltInv, Bounded, HaltBoundsOrders
<1> QED
  BY <1>1, HaltInit, HaltNext, PTL DEF Spec

---------------------------------------------------------------------------
(* The rest of the types.                                                 *)

\* What only the switch, the deployment and the counts of the run touch.
RestTyped ==
  /\ SwitchTypeOK
  /\ on \in [Procs -> SUBSET Loops] /\ auto \in BOOLEAN /\ paper \in BOOLEAN
  /\ fills \in 0 .. MaxFills /\ bridged \in [Procs -> Nat]

LEMMA SwitchTyped ==
  ASSUME SwitchTypeOK,
         \/ Pnl \/ Reset
         \/ \E p \in Procs : TripLoop(p) \/ SyncLoop(p) \/ Reboot(p)
  PROVE  SwitchTypeOK'
<1> USE DEF SwitchTypeOK, Row
<1>1. CASE Pnl
  BY <1>1 DEF Pnl
<1>2. CASE Reset
  BY <1>2 DEF Reset
<1>3. ASSUME NEW p \in Procs, Trip(p) \/ Persist(p) PROVE SwitchTypeOK'
  <2>1. haltDb' \in Row /\ halted' \in [Procs -> BOOLEAN] /\ raising' \in [Procs -> BOOLEAN]
    BY <1>3 DEF Trip, Persist, Persisted
  <2>2. faults' \in 0 .. MaxFaults
    BY <1>3 DEF Trip, Persist, Fail
  <2> QED
    BY <1>3, <2>1, <2>2 DEF Trip, Persist
<1>4. ASSUME NEW p \in Procs, SyncRead(p) PROVE SwitchTypeOK'
  BY <1>4 DEF SyncRead
<1>5. ASSUME NEW p \in Procs, SyncApply(p) PROVE SwitchTypeOK'
  <2>1. Synced(p) \in BOOLEAN
    BY DEF Synced
  <2> QED
    BY <1>5, <2>1, Zenon DEF SyncApply
<1>6. ASSUME NEW p \in Procs, Reboot(p) PROVE SwitchTypeOK'
  <2>1. PICK b \in BOOLEAN : halted' = [halted EXCEPT ![p] = b]
    BY <1>6 DEF Reboot
  <2> QED
    BY <1>6, <2>1 DEF Reboot, Fail
<1> QED
  BY <1>1, <1>2, <1>3, <1>4, <1>5, <1>6 DEF TripLoop, SyncLoop

LEMMA RestInit == Init => RestTyped
<1> SUFFICES ASSUME Init PROVE RestTyped
  OBVIOUS
<1>1. SwitchTypeOK
  <2>1. 0 \in 0 .. MaxResets /\ 0 \in 0 .. MaxFaults
    OBVIOUS
  <2> QED
    BY <2>1 DEF Init, SwitchInit, SwitchTypeOK, Row
<1>2. on \in [Procs -> SUBSET Loops] /\ auto \in BOOLEAN /\ paper \in BOOLEAN
  BY DEF Init
<1> QED
  BY <1>1, <1>2 DEF Init, RestTyped

LEMMA RestNext == RestTyped /\ [Next]_vars => RestTyped'
<1> SUFFICES ASSUME RestTyped, [Next]_vars PROVE RestTyped'
  OBVIOUS
<1>1. ASSUME SwitchTypeOK', UNCHANGED <<on, auto, paper>>,
             fills' \in 0 .. MaxFills, bridged' \in [Procs -> Nat]
      PROVE  RestTyped'
  BY <1>1 DEF RestTyped
<1>2. SwitchTypeOK /\ fills \in 0 .. MaxFills /\ bridged \in [Procs -> Nat]
  BY DEF RestTyped
<1>3. UNCHANGED switchVars => SwitchTypeOK'
  BY <1>2 DEF SwitchTypeOK, switchVars
<1>4. \A k : Fault(k) => SwitchTypeOK'
  BY <1>2 DEF Fault, Fail, Quiet, SwitchTypeOK
<1>5. Recount => bridged' \in [Procs -> Nat]
  BY <1>2 DEF Recount
<1>6. CASE UNCHANGED vars
  BY <1>1, <1>2, <1>3, <1>6 DEF vars, loopVars, copyVars
<1>7. CASE SwitchStep
  BY <1>1, <1>2, <1>5, <1>7, SwitchTyped DEF SwitchStep, loopVars, copyVars
<1>8. CASE LeaderFill \/ (\E s \in Subs : Leave(s)) \/ RangeEvent
  BY <1>1, <1>2, <1>3, <1>8 DEF LeaderFill, Leave, RangeEvent, copyVars, Fine, NoOrder
<1>9. ASSUME NEW p \in Procs, CopyStep(p)
      PROVE  RestTyped'
  BY <1>1, <1>2, <1>3, <1>4, <1>9 DEF CopyStep, CopyScan, CopyEnqueue, CopyClaim, CopyPlace, CopyMark,
       Fine, NoOrder, Ordered
<1>10. ASSUME NEW p \in Procs, FollowStep(p)
       PROVE  RestTyped'
  BY <1>1, <1>2, <1>3, <1>10 DEF FollowStep, FollowStart, FollowPlace, copyVars, Fine, NoOrder, Ordered
<1>11. ASSUME NEW p \in Procs, RangeStep(p)
       PROVE  RestTyped'
  BY <1>1, <1>2, <1>3, <1>4, <1>11 DEF RangeStep, RangeList, RangeClaim, RangePlace, RangeMark, copyVars,
       Fine, NoOrder, Ordered
<1>12. ASSUME NEW p \in Procs, BridgePlace(p)
       PROVE  RestTyped'
  BY <1>1, <1>2, <1>3, <1>12 DEF BridgePlace, loopVars, copyVars, Fine
<1>13. ASSUME NEW p \in Procs, Crash(p)
       PROVE  RestTyped'
  BY <1>1, <1>2, <1>5, <1>13, SwitchTyped DEF Crash
<1> QED
  BY <1>6, <1>7, <1>8, <1>9, <1>10, <1>11, <1>12, <1>13 DEF Next

\* Flags, rows, hands and counts keep their types, in every process: in particular a loop that
\* has a job or an event in hand has one of those there are.
THEOREM TypeCorrect == Spec => []TypeOK
<1>1. HaltInv /\ RestTyped => TypeOK
  BY DEF HaltInv, HandsTyped, OnceInv, CopyInv, CopyTyped, RangeInv, RangeTyped, RestTyped, TypeOK,
         CHand, RHand
<1> QED
  BY <1>1, HaltInit, HaltNext, RestInit, RestNext, PTL DEF Spec
=============================================================================

--------------------------- MODULE JobQueueProofs ---------------------------
(* Proofs about JobQueue, for every value of its constants. *)
EXTENDS JobQueue, FiniteSetTheorems, TLAPS

USE JobQueueAssumptions DEF MsgIds, Entries, None, ChanCap

-----------------------------------------------------------------------------
(* The type invariant *)

LEMMA InitTypeOK == Init => TypeOK
  BY DEF Init, TypeOK, Shape, Sizes, Delivered, Idle, NoOp, Worker, Op, Threads

LEMMA PublishTypeOK ==
  ASSUME TypeOK, NEW j \in Jobs, Publish(j)
  PROVE  TypeOK'
  <1>1. stream' \in Seq(Jobs) /\ Len(stream') = Len(stream) + 1
    BY DEF Publish, TypeOK, Shape
  <1>2. Shape'
    BY <1>1 DEF TypeOK, Shape, Publish, dlqVars, loopVars, workVars
  <1>3. Sizes'
    BY <1>1 DEF TypeOK, Shape, Sizes, Publish
  <1>4. Delivered'
    BY DEF TypeOK, Delivered, Publish, dlqVars, loopVars, workVars
  <1> QED BY <1>2, <1>3, <1>4 DEF TypeOK

LEMMA BecomeStaleTypeOK ==
  ASSUME TypeOK, NEW m \in pel, BecomeStale(m)
  PROVE  TypeOK'
  <1>1. stale' \subseteq pel /\ UNCHANGED <<stream, cursor, pel, deliveries, batch, jobsCh>>
    BY DEF BecomeStale, TypeOK, Delivered
  <1>2. UNCHANGED <<dlqVars, loopVars, workVars>>
    BY DEF BecomeStale
  <1> QED BY <1>1, <1>2 DEF TypeOK, Shape, Sizes, Delivered, dlqVars, loopVars, workVars

LEMMA ConsumeTypeOK ==
  ASSUME TypeOK, NEW p \in Processors, Consume(p)
  PROVE  TypeOK'
  <1> USE DEF TypeOK, Consume, dlqVars, loopVars, workVars
  <1>1. Fresh \subseteq MsgIds /\ cursor' \in Fresh /\ Fresh \subseteq 1..cursor'
    BY DEF Fresh
  <1>2. cursor' \in Nat /\ cursor < cursor' /\ cursor' <= Len(stream)
    BY <1>1 DEF Fresh, Shape
  <1>3. Shape'
    BY <1>1, <1>2 DEF Shape
  <1>4. Sizes'
    BY <1>2 DEF Sizes
  <1>5. Delivered'
    <2>1. 1..cursor \subseteq 1..cursor'
      BY <1>2 DEF Shape
    <2>2. batch'[p] \subseteq 1..cursor' /\ \A q \in Processors : q # p => batch'[q] = batch[q]
      BY <1>1 DEF Shape
    <2>3. \A q \in Processors : batch'[q] \subseteq 1..cursor'
      BY <2>1, <2>2 DEF Delivered
    <2>4. pel' \subseteq 1..cursor' /\ stale' \subseteq pel'
      BY <1>1, <2>1 DEF Delivered
    <2> QED BY <2>1, <2>3, <2>4 DEF Delivered
  <1> QED BY <1>3, <1>4, <1>5

\* A send to a channel with room: what the channel holds afterwards.
LEMMA ChannelSend ==
  ASSUME NEW s \in Seq(MsgIds), NEW m \in MsgIds
  PROVE  /\ Append(s, m) \in Seq(MsgIds)
         /\ Len(Append(s, m)) = Len(s) + 1
         /\ \A i \in 1..Len(Append(s, m)) : Append(s, m)[i] = m \/ (i \in 1..Len(s) /\ Append(s, m)[i] = s[i])
  OBVIOUS

\* A receive from a channel that is not empty.
LEMMA ChannelReceive ==
  ASSUME NEW s \in Seq(MsgIds), s # <<>>
  PROVE  /\ Head(s) \in MsgIds /\ Head(s) = s[1] /\ 1 \in 1..Len(s)
         /\ Tail(s) \in Seq(MsgIds)
         /\ Len(s) \in Nat /\ Len(Tail(s)) = Len(s) - 1 /\ Len(Tail(s)) <= Len(s)
         /\ \A i \in 1..Len(Tail(s)) : i + 1 \in 1..Len(s) /\ Tail(s)[i] = s[i + 1]
  OBVIOUS

\* The channel of p after a send of a delivered message, the others untouched.
LEMMA SentTypeOK ==
  ASSUME TypeOK, NEW p \in Processors, NEW m \in 1..cursor, Len(jobsCh[p]) < ChanCap,
         jobsCh' = [jobsCh EXCEPT ![p] = Append(@, m)], UNCHANGED cursor
  PROVE  /\ jobsCh' \in [Processors -> Seq(MsgIds)]
         /\ \A q \in Processors : /\ Len(jobsCh'[q]) <= ChanCap
                                  /\ \A i \in 1..Len(jobsCh'[q]) : jobsCh'[q][i] \in 1..cursor'
  <1>1. m \in MsgIds /\ jobsCh[p] \in Seq(MsgIds) /\ jobsCh'[p] = Append(jobsCh[p], m)
    BY DEF TypeOK, Shape, Sizes
  <1>2. /\ jobsCh'[p] \in Seq(MsgIds)
        /\ Len(jobsCh'[p]) <= ChanCap
        /\ \A i \in 1..Len(jobsCh'[p]) : jobsCh'[p][i] \in 1..cursor'
    BY <1>1, ChannelSend DEF TypeOK, Shape, Delivered
  <1>3. \A q \in Processors : q # p => jobsCh'[q] = jobsCh[q]
    BY DEF TypeOK, Shape
  <1>4. jobsCh' \in [Processors -> Seq(MsgIds)]
    BY <1>1, <1>2 DEF TypeOK, Shape
  <1> QED BY <1>2, <1>3, <1>4 DEF TypeOK, Sizes, Delivered

LEMMA ForwardTypeOK ==
  ASSUME TypeOK, NEW p \in Processors, NEW m \in batch[p], SkipInvalid(p, m) \/ Send(p, m)
  PROVE  TypeOK'
  <1>1. CASE SkipInvalid(p, m)
    BY <1>1 DEF TypeOK, Shape, Sizes, Delivered, SkipInvalid, AckOrFail, Acked,
                streamVars, dlqVars, loopVars, workVars
  <1>2. CASE Send(p, m)
    <2>1. m \in 1..cursor
      BY DEF TypeOK, Delivered
    <2>2. /\ jobsCh' \in [Processors -> Seq(MsgIds)]
          /\ \A q \in Processors : /\ Len(jobsCh'[q]) <= ChanCap
                                   /\ \A i \in 1..Len(jobsCh'[q]) : jobsCh'[q][i] \in 1..cursor'
      BY <1>2, <2>1, SentTypeOK DEF Send, streamVars
    <2>3. batch' \in [Processors -> SUBSET MsgIds] /\ \A q \in Processors : batch'[q] \subseteq batch[q]
      BY <1>2 DEF Send, TypeOK, Shape
    <2> QED BY <1>2, <2>2, <2>3 DEF TypeOK, Shape, Sizes, Delivered, Send, streamVars, dlqVars, loopVars, workVars
  <1> QED BY <1>1, <1>2

LEMMA ClaimLoopTypeOK ==
  ASSUME TypeOK, NEW p \in Processors, ClaimLoop(p)
  PROVE  TypeOK'
  <1> USE DEF TypeOK
  <1>1. CASE Inspect(p)
    <2>1. bury' \in [Processors -> SUBSET MsgIds] /\ reclaim' \in [Processors -> SUBSET MsgIds]
      BY <1>1 DEF Inspect, Pending, Shape
    <2>2. \A q \in Processors : bury'[q] \subseteq bury[q] \union pel /\ reclaim'[q] \subseteq reclaim[q] \union pel
      BY <1>1 DEF Inspect, Pending, Shape
    <2>3. loop' \in [Processors -> {"wait", "bury", "buryAck", "send"}]
      BY <1>1 DEF Inspect, Shape
    <2>4. UNCHANGED <<streamVars, dlqVars, workVars, batch, jobsCh>>
      BY <1>1 DEF Inspect
    <2> QED BY <2>1, <2>2, <2>3, <2>4 DEF Shape, Sizes, Delivered, streamVars, dlqVars, workVars
  <1>2. ASSUME NEW m \in bury[p], BuryDrop(p, m) \/ BuryAck(p, m) PROVE TypeOK'
    <2>0. bury' = [bury EXCEPT ![p] = bury[p] \ {m}]
      BY <1>2 DEF BuryDrop, BuryAck
    <2>1. bury' \in [Processors -> SUBSET MsgIds] /\ \A q \in Processors : bury'[q] \subseteq bury[q]
      BY <2>0 DEF Shape
    <2>2. loop' \in [Processors -> {"wait", "bury", "buryAck", "send"}]
      BY <1>2 DEF BuryDrop, BuryAck, Shape
    <2>3. /\ pel' \subseteq pel /\ stale' \subseteq stale /\ stale' \subseteq pel'
          /\ UNCHANGED <<stream, cursor, deliveries, reclaim, dlqVars, workVars, batch, jobsCh>>
      BY <1>2 DEF BuryDrop, BuryAck, AckOrFail, Acked, streamVars, Delivered
    <2> QED BY <2>1, <2>2, <2>3 DEF Shape, Sizes, Delivered, dlqVars, workVars
  <1>3. ASSUME NEW m \in bury[p], BuryAdd(p, m) PROVE TypeOK'
    <2>1. loop' \in [Processors -> {"wait", "bury", "buryAck", "send"}]
      BY <1>3 DEF BuryAdd, Shape
    <2>2. UNCHANGED <<streamVars, workVars, batch, jobsCh, bury, reclaim>>
      BY <1>3 DEF BuryAdd
    <2>3. CASE AddToDLQ(m)
      <3>1. m \in 1..cursor /\ m \in 0..MaxMsgs
        BY DEF Delivered, Sizes, Shape
      <3>2. dlqLen' = dlqLen + 1 /\ dlqLen' \in 0..MaxDead /\ dlqLen \in Nat
        BY <2>3 DEF AddToDLQ, Shape
      <3>3. dlqLen + 1 \in Entries /\ 1..dlqLen' = (1..dlqLen) \union {dlqLen + 1} /\ 1..dlqLen \subseteq Entries
        <4> HIDE DEF TypeOK
        <4> QED BY <3>2
      <3>a. dlqMsg' \in [Entries -> 0..MaxMsgs]
        BY <2>3, <3>1, <3>3 DEF AddToDLQ, Shape
      <3>b. \A e \in 1..dlqLen' : dlqMsg'[e] \in 1..cursor
        BY <2>3, <3>1, <3>2, <3>3 DEF AddToDLQ, Shape, Delivered
      <3>c. dlq' \subseteq dlq \union {dlqLen + 1}
        BY <2>3 DEF AddToDLQ, Trims
      <3>4. dlq' \subseteq 1..dlqLen' /\ purged' \subseteq 1..dlqLen' /\ UNCHANGED <<op, reposted>>
        BY <2>3, <3>3, <3>c DEF AddToDLQ, Shape
      <3>d. reposted' \subseteq 1..dlqLen'
        BY <3>3, <3>4 DEF Shape
      <3>5. Shape'
        BY <2>1, <2>2, <3>2, <3>a, <3>4, <3>d DEF Shape, streamVars, workVars
      <3>6. Sizes'
        BY <2>2 DEF Sizes, streamVars
      <3>7. Delivered'
        BY <2>2, <3>3, <3>b, <3>4 DEF Delivered, streamVars, workVars
      <3> QED BY <3>5, <3>6, <3>7
    <2>4. CASE UNCHANGED dlqVars
      BY <2>1, <2>2, <2>4 DEF Shape, Sizes, Delivered, streamVars, dlqVars, workVars
    <2> QED BY <1>3, <2>3, <2>4 DEF BuryAdd
  <1>4. CASE Claim(p)
    <2> DEFINE claimed == reclaim[p] \intersect pel \intersect stale
    <2>1. deliveries' \in [MsgIds -> Nat]
      <3>1. deliveries \in [MsgIds -> Nat]
        BY DEF Shape
      <3>2. deliveries' = [m \in MsgIds |-> IF m \in claimed THEN deliveries[m] + 1 ELSE deliveries[m]]
        BY <1>4 DEF Claim
      <3> HIDE DEF claimed, TypeOK
      <3> QED BY <3>1, <3>2
    <2>2. stale' \subseteq stale /\ UNCHANGED <<stream, cursor, pel, dlqVars, workVars, batch, jobsCh, bury>>
      BY <1>4 DEF Claim
    <2>3. reclaim' \in [Processors -> SUBSET MsgIds] /\ \A q \in Processors : reclaim'[q] \subseteq reclaim[q]
      BY <1>4 DEF Claim, Shape
    <2>4. loop' \in [Processors -> {"wait", "bury", "buryAck", "send"}]
      BY <1>4 DEF Claim, Shape
    <2> QED BY <2>1, <2>2, <2>3, <2>4 DEF Shape, Sizes, Delivered, dlqVars, workVars
  <1>5. CASE ClaimFails(p) \/ EndPass(p)
    <2>1. reclaim' \in [Processors -> SUBSET MsgIds] /\ \A q \in Processors : reclaim'[q] \subseteq reclaim[q]
      BY <1>5 DEF ClaimFails, EndPass, Shape
    <2>2. loop' \in [Processors -> {"wait", "bury", "buryAck", "send"}]
      BY <1>5 DEF ClaimFails, EndPass, Shape
    <2>3. UNCHANGED <<streamVars, dlqVars, workVars, batch, jobsCh, bury>>
      BY <1>5 DEF ClaimFails, EndPass
    <2> QED BY <2>1, <2>2, <2>3 DEF Shape, Sizes, Delivered, streamVars, dlqVars, workVars
  <1>6. ASSUME NEW m \in reclaim[p], Resend(p, m) PROVE TypeOK'
    <2>1. reclaim' \in [Processors -> SUBSET MsgIds] /\ \A q \in Processors : reclaim'[q] \subseteq reclaim[q]
      BY <1>6 DEF Resend, Shape
    <2>2. UNCHANGED <<streamVars, dlqVars, workVars, batch, loop, bury>>
      BY <1>6 DEF Resend
    <2>3. /\ jobsCh' \in [Processors -> Seq(MsgIds)]
          /\ \A q \in Processors : /\ Len(jobsCh'[q]) <= ChanCap
                                   /\ \A i \in 1..Len(jobsCh'[q]) : jobsCh'[q][i] \in 1..cursor'
      <3>1. CASE Parses(m) /\ Len(jobsCh[p]) < ChanCap
        <4>1. m \in 1..cursor
          BY DEF Delivered
        <4> QED BY <1>6, <2>2, <3>1, <4>1, SentTypeOK DEF Resend, streamVars
      <3>2. CASE ~(Parses(m) /\ Len(jobsCh[p]) < ChanCap)
        BY <1>6, <2>2, <3>2 DEF Resend, streamVars, Shape, Sizes, Delivered
      <3> QED BY <3>1, <3>2
    <2> QED BY <2>1, <2>2, <2>3 DEF Shape, Sizes, Delivered, streamVars, dlqVars, workVars
  <1> QED BY <1>1, <1>2, <1>3, <1>4, <1>5, <1>6 DEF ClaimLoop

LEMMA WorkTypeOK ==
  ASSUME TypeOK, NEW p \in Processors, NEW w \in Workers, Work(p, w)
  PROVE  TypeOK'
  <1> DEFINE t == <<p, w>>
  <1> USE DEF TypeOK
  <1>1. t \in Threads /\ worker[t] \in Worker
    BY DEF Threads, Shape
  <1>2. CASE Take(p, w)
    <2> DEFINE m == Head(jobsCh[p])
    <2>1. jobsCh[p] \in Seq(MsgIds) /\ jobsCh[p] # <<>>
      BY <1>2 DEF Take, Shape
    <2>2. m \in MsgIds /\ m \in 1..cursor
      <3>1. m \in MsgIds /\ m = jobsCh[p][1] /\ 1 \in 1..Len(jobsCh[p])
        BY <2>1, ChannelReceive
      <3>2. \A i \in 1..Len(jobsCh[p]) : jobsCh[p][i] \in 1..cursor
        BY DEF Delivered
      <3> QED BY <3>1, <3>2
    <2>3. worker' = [worker EXCEPT ![t] = [pc |-> "run", msg |-> m]]
      BY <1>2 DEF Take
    <2>4. worker' \in [Threads -> Worker]
      BY <1>1, <2>2, <2>3 DEF Shape, Worker
    <2>5. \A u \in Threads : worker'[u].pc # "take" => worker'[u].msg \in 1..cursor
      <3> HIDE DEF m
      <3>1. worker'[t].msg = m /\ \A u \in Threads \ {t} : worker'[u] = worker[u]
        BY <1>1, <2>3 DEF Shape
      <3> QED BY <2>2, <3>1 DEF Delivered
    <2>a. attempts' = [attempts EXCEPT ![m] = attempts[m] + 1]
      BY <1>2 DEF Take
    <2>6. attempts' \in [MsgIds -> Nat]
      <3> HIDE DEF m
      <3> QED BY <2>2, <2>a DEF Shape
    <2>7. jobsCh' = [jobsCh EXCEPT ![p] = Tail(jobsCh[p])]
      BY <1>2 DEF Take
    <2>8. jobsCh' \in [Processors -> Seq(MsgIds)]
      BY <2>1, <2>7, ChannelReceive DEF Shape
    <2>9. \A q \in Processors : /\ Len(jobsCh'[q]) <= ChanCap
                                /\ \A i \in 1..Len(jobsCh'[q]) : jobsCh'[q][i] \in 1..cursor
      <3>1. \A q \in Processors : q # p => jobsCh'[q] = jobsCh[q]
        BY <2>7 DEF Shape
      <3>2. jobsCh'[p] = Tail(jobsCh[p])
        BY <2>7 DEF Shape
      <3>3. Len(jobsCh'[p]) <= ChanCap
        BY <2>1, <3>2, ChannelReceive DEF Sizes
      <3>4. \A i \in 1..Len(jobsCh'[p]) : jobsCh'[p][i] \in 1..cursor
        BY <2>1, <3>2, ChannelReceive DEF Delivered
      <3> QED BY <3>1, <3>3, <3>4 DEF Sizes, Delivered
    <2> QED BY <1>2, <2>4, <2>5, <2>6, <2>8, <2>9 DEF Take, Shape, Sizes, Delivered, streamVars, dlqVars, loopVars
  <1>3. CASE Finish(p, w)
    <2>1. worker[t].msg \in 1..cursor /\ worker[t].msg \in MsgIds
      BY <1>1, <1>3 DEF Finish, Delivered, Sizes, Shape
    <2>2. worker' = [worker EXCEPT ![t] = [pc |-> "ack", msg |-> worker[t].msg]]
      BY <1>1, <1>3 DEF Finish, Worker, Shape
    <2>3. worker' \in [Threads -> Worker]
      BY <1>1, <2>1, <2>2 DEF Shape, Worker
    <2>4. \A u \in Threads : worker'[u].pc # "take" => worker'[u].msg \in 1..cursor
      BY <1>1, <2>1, <2>2 DEF Shape, Delivered
    <2> QED BY <1>3, <2>1, <2>3, <2>4 DEF Finish, Shape, Sizes, Delivered, streamVars, dlqVars, loopVars
  <1>4. CASE Fail(p, w) \/ AckDone(p, w)
    <2>1. worker' = [worker EXCEPT ![t] = Idle]
      BY <1>4 DEF Fail, AckDone
    <2>2. worker' \in [Threads -> Worker]
      BY <1>1, <2>1 DEF Shape, Worker, Idle
    <2>3. \A u \in Threads : worker'[u].pc # "take" => worker'[u].msg \in 1..cursor
      BY <1>1, <2>1 DEF Shape, Delivered, Idle
    <2>4. /\ pel' \subseteq pel /\ stale' \subseteq stale /\ stale' \subseteq pel'
          /\ UNCHANGED <<stream, cursor, deliveries, dlqVars, loopVars, batch, jobsCh, succeeded, attempts>>
      BY <1>4 DEF Fail, AckDone, AckOrFail, Acked, streamVars, Delivered
    <2> QED BY <2>2, <2>3, <2>4 DEF Shape, Sizes, Delivered, dlqVars, loopVars
  <1> QED BY <1>2, <1>3, <1>4 DEF Work

LEMMA CrashTypeOK ==
  ASSUME TypeOK, NEW p \in Processors, Crash(p)
  PROVE  TypeOK'
  <1> USE DEF TypeOK
  <1>1. /\ worker' \in [Threads -> Worker]
        /\ \A t \in Threads : worker'[t].pc # "take" => worker'[t].msg \in 1..cursor
    BY DEF Crash, Shape, Delivered, Worker, Idle
  <1>2. /\ jobsCh' \in [Processors -> Seq(MsgIds)]
        /\ \A q \in Processors : jobsCh'[q] = <<>> \/ jobsCh'[q] = jobsCh[q]
    BY DEF Crash, Shape
  <1>a. Len(<<>>) = 0 /\ 1..Len(<<>>) = {} /\ ChanCap \in Nat
    OBVIOUS
  <1>3. /\ batch' \in [Processors -> SUBSET MsgIds]
        /\ bury' \in [Processors -> SUBSET MsgIds]
        /\ reclaim' \in [Processors -> SUBSET MsgIds]
        /\ \A q \in Processors : /\ batch'[q] \subseteq batch[q]
                                 /\ bury'[q] \subseteq bury[q]
                                 /\ reclaim'[q] \subseteq reclaim[q]
    BY DEF Crash, Shape
  <1>4. loop' \in [Processors -> {"wait", "bury", "buryAck", "send"}]
    BY DEF Crash, Shape
  <1>5. UNCHANGED <<streamVars, dlqVars, succeeded, attempts>>
    BY DEF Crash
  <1>6. Shape'
    BY <1>1, <1>2, <1>3, <1>4, <1>5 DEF Shape, streamVars, dlqVars
  <1>7. Sizes'
    <2>1. UNCHANGED <<stream, cursor>>
      BY <1>5 DEF streamVars
    <2>2. ASSUME NEW q \in Processors PROVE Len(jobsCh'[q]) <= ChanCap
      <3>1. CASE jobsCh'[q] = <<>>
        BY <1>a, <3>1
      <3>2. CASE jobsCh'[q] = jobsCh[q]
        BY <3>2 DEF Sizes
      <3> QED BY <1>2, <3>1, <3>2
    <2> QED BY <2>1, <2>2 DEF Sizes
  <1>b. \A q \in Processors : \A i \in 1..Len(jobsCh'[q]) : jobsCh'[q][i] \in 1..cursor
    BY <1>2, <1>a DEF Delivered
  <1>8. Delivered'
    BY <1>1, <1>3, <1>5, <1>b DEF Delivered, streamVars, dlqVars
  <1> QED BY <1>6, <1>7, <1>8

LEMMA ApiTypeOK ==
  ASSUME TypeOK,
         (\E o \in Operators : Api(o)) \/ (\E e \in dlq : DeleteEntry(e))
  PROVE  TypeOK'
  <1> USE DEF TypeOK
  <1>1. ASSUME NEW o \in Operators, NEW e \in dlq, RetryGet(o, e) PROVE TypeOK'
    <2>1. op' = [op EXCEPT ![o] = [pc |-> "publish", entry |-> e]] /\ e \in 1..dlqLen /\ e \in 0..MaxDead
      BY <1>1 DEF RetryGet, Shape
    <2>2. op' \in [Operators -> Op] /\ \A a \in Operators : op'[a].pc # "none" => op'[a].entry \in 1..dlqLen
      BY <2>1 DEF Shape, Op, Delivered
    <2> QED BY <1>1, <2>2 DEF RetryGet, Shape, Sizes, Delivered, streamVars, loopVars, workVars
  <1>2. ASSUME NEW o \in Operators, RetryPublish(o) PROVE TypeOK'
    <2>1. op[o].entry \in 1..dlqLen /\ op[o] \in Op
      BY <1>2 DEF RetryPublish, Shape, Delivered
    <2>b. dlqMsg[op[o].entry] \in 1..cursor
      BY <2>1 DEF Delivered
    <2>2. dlqMsg[op[o].entry] \in 1..Len(stream)
      BY <2>b DEF Sizes, Shape
    <2>3. stream[dlqMsg[op[o].entry]] \in Jobs
      BY <2>2 DEF Shape
    <2>4. stream' \in Seq(Jobs) /\ Len(stream') = Len(stream) + 1
      BY <1>2, <2>3 DEF RetryPublish, Shape
    <2>5. op' = [op EXCEPT ![o] = [pc |-> "delete", entry |-> op[o].entry]]
      BY <1>2, <2>1 DEF RetryPublish, Op, Shape
    <2>6. op' \in [Operators -> Op] /\ \A a \in Operators : op'[a].pc # "none" => op'[a].entry \in 1..dlqLen
      BY <2>1, <2>5 DEF Shape, Op, Delivered
    <2>7. /\ reposted' \subseteq 1..dlqLen
          /\ UNCHANGED <<cursor, pel, deliveries, stale, loopVars, workVars, batch, jobsCh, dlqLen, dlqMsg, dlq, purged>>
      BY <1>2, <2>1 DEF RetryPublish, Shape
    <2>8. Shape'
      BY <2>4, <2>6, <2>7 DEF Shape, loopVars, workVars
    <2>9. Sizes'
      BY <1>2, <2>4, <2>7 DEF RetryPublish, Sizes, Shape
    <2>a. Delivered'
      BY <2>6, <2>7 DEF Delivered, loopVars, workVars
    <2> QED BY <2>8, <2>9, <2>a
  <1>3. ASSUME NEW o \in Operators, RetryDelete(o) \/ RetryFails(o) PROVE TypeOK'
    <2>1. op' = [op EXCEPT ![o] = NoOp]
      BY <1>3 DEF RetryDelete, RetryFails
    <2>2. op' \in [Operators -> Op] /\ \A a \in Operators : op'[a].pc # "none" => op'[a].entry \in 1..dlqLen
      BY <2>1 DEF Shape, Op, Delivered, NoOp
    <2>3. dlq' \subseteq dlq /\ UNCHANGED <<streamVars, loopVars, workVars, batch, jobsCh, dlqLen, dlqMsg, reposted, purged>>
      BY <1>3 DEF RetryDelete, RetryFails
    <2> QED BY <2>2, <2>3 DEF Shape, Sizes, Delivered, streamVars, loopVars, workVars
  <1>4. ASSUME NEW e \in dlq, DeleteEntry(e) PROVE TypeOK'
    BY <1>4 DEF DeleteEntry, Shape, Sizes, Delivered, streamVars, loopVars, workVars
  <1> QED BY <1>1, <1>2, <1>3, <1>4 DEF Api

LEMMA TypeOKStep ==
  ASSUME TypeOK, [Next]_vars
  PROVE  TypeOK'
  <1>1. CASE UNCHANGED vars
    BY <1>1 DEF vars, TypeOK, Shape, Sizes, Delivered
  <1>2. CASE Quiescent
    BY <1>1, <1>2 DEF Quiescent
  <1>3. ASSUME NEW p \in Processors, ConsumeLoop(p) PROVE TypeOK'
    BY <1>3, ConsumeTypeOK, ForwardTypeOK DEF ConsumeLoop
  <1> QED BY <1>1, <1>2, <1>3, PublishTypeOK, BecomeStaleTypeOK, ClaimLoopTypeOK,
             CrashTypeOK, WorkTypeOK, ApiTypeOK DEF Next

\* The channel of a Processor never holds more than its capacity, and whatever
\* refers to a message refers to a delivered one, for every number of
\* Processors, workers, jobs and failures.
THEOREM TypeCorrect == Spec => []TypeOK
  BY InitTypeOK, TypeOKStep, PTL DEF Spec

-----------------------------------------------------------------------------
(* The inductive invariants *)

\* Whoever is about to acknowledge a job has seen it succeed or has written its
\* dead letter.
AckJustified ==
    /\ \A t \in Threads : worker[t].pc = "ack" => worker[t].msg \in succeeded
    /\ \A p \in Processors, m \in MsgIds :
         loop[p] = "buryAck" /\ IsLeast(m, bury[p]) => m \in Dead

\* A message waits for burial only with its budget used up.
BuryJustified == \A p \in Processors : \A m \in bury[p] : Exceeded(m)

\* Processors whose snapshot says that m may be claimed.
Holders(m) == {p \in Processors : loop[p] \in {"bury", "buryAck"} /\ m \in reclaim[p]}

\* Beyond MaxRetries only the Processors that took their snapshot before can
\* deliver m again, each once.
WithinBudget(m) ==
    \/ deliveries[m] <= MaxRetries
    \/ deliveries[m] + Cardinality(Holders(m)) <= MaxRetries + Cardinality(Processors)

ClaimBudget == \A m \in MsgIds : WithinBudget(m)

-----------------------------------------------------------------------------
(* What no step undoes *)

LEMMA AddDead ==
  ASSUME TypeOK, NEW m \in MsgIds, AddToDLQ(m)
  PROVE  Dead' = Dead \union {m}
  <1>1. dlqLen \in Nat /\ dlqLen + 1 \in Entries /\ 1..dlqLen \subseteq Entries
        /\ 1..dlqLen' = (1..dlqLen) \union {dlqLen + 1} /\ dlqLen + 1 \notin 1..dlqLen
    <2>1. dlqLen \in 0..MaxDead /\ dlqLen < MaxDead /\ dlqLen' = dlqLen + 1
      BY DEF AddToDLQ, TypeOK, Shape
    <2> QED BY <2>1
  <1>2. dlqMsg'[dlqLen + 1] = m /\ \A e \in 1..dlqLen : dlqMsg'[e] = dlqMsg[e]
    BY <1>1 DEF AddToDLQ, TypeOK, Shape
  <1> QED BY <1>1, <1>2 DEF Dead

\* Only a publication changes the stream, and it leaves the delivered prefix.
LEMMA StreamGrows ==
  ASSUME TypeOK, [Next]_vars
  PROVE  \A m \in 1..cursor : stream'[m] = stream[m]
  <1>1. CASE stream' = stream
    BY <1>1, Zenon
  <1>2. ASSUME NEW j, stream' = Append(stream, j) PROVE \A m \in 1..cursor : stream'[m] = stream[m]
    <2>1. \A m \in 1..Len(stream) : Append(stream, j)[m] = stream[m]
      BY DEF TypeOK, Shape
    <2>2. 1..cursor \subseteq 1..Len(stream)
      BY DEF TypeOK, Shape, Sizes
    <2> QED BY <1>2, <2>1, <2>2
  <1>3. stream' = stream \/ \E j : stream' = Append(stream, j)
    <2>1. CASE \E j \in Jobs : Publish(j)
      BY <2>1 DEF Publish
    <2>2. CASE \E o \in Operators : RetryPublish(o)
      BY <2>2 DEF RetryPublish
    <2>3. CASE ~(\E j \in Jobs : Publish(j)) /\ ~(\E o \in Operators : RetryPublish(o))
      <3>1. ASSUME NEW p \in Processors, ConsumeLoop(p) PROVE UNCHANGED stream
        BY <3>1 DEF ConsumeLoop, Consume, SkipInvalid, Send, AckOrFail, Acked, streamVars
      <3>2. ASSUME NEW p \in Processors, ClaimLoop(p) PROVE UNCHANGED stream
        BY <3>2 DEF ClaimLoop, Inspect, BuryDrop, BuryAdd, BuryAck, Claim, ClaimFails, Resend,
                    EndPass, AckOrFail, Acked, streamVars
      <3>3. ASSUME NEW p \in Processors, NEW w \in Workers, Work(p, w) PROVE UNCHANGED stream
        BY <3>3 DEF Work, Take, Finish, Fail, AckDone, AckOrFail, Acked, streamVars
      <3> QED BY <2>3, <3>1, <3>2, <3>3 DEF Next, BecomeStale, Crash, Api, RetryGet, RetryDelete,
                  RetryFails, DeleteEntry, Quiescent, streamVars, vars
    <2> QED BY <2>1, <2>2, <2>3
  <1> QED BY <1>1, <1>2, <1>3

LEMMA DeadGrows ==
  ASSUME TypeOK, [Next]_vars
  PROVE  Dead \subseteq Dead' /\ succeeded \subseteq succeeded'
  <1>1. CASE UNCHANGED <<dlqLen, dlqMsg, succeeded>>
    BY <1>1 DEF Dead
  <1>2. ASSUME NEW p \in Processors, ConsumeLoop(p) PROVE UNCHANGED <<dlqLen, dlqMsg, succeeded>>
    BY <1>2 DEF ConsumeLoop, Consume, SkipInvalid, Send, dlqVars, workVars
  <1>3. ASSUME NEW p \in Processors, ClaimLoop(p)
        PROVE  Dead \subseteq Dead' /\ succeeded \subseteq succeeded'
    <2>1. ASSUME NEW m \in bury[p], BuryAdd(p, m)
          PROVE  Dead \subseteq Dead' /\ succeeded \subseteq succeeded'
      <3>1. m \in MsgIds
        BY DEF TypeOK, Shape
      <3>2. UNCHANGED succeeded
        BY <2>1 DEF BuryAdd, workVars
      <3>3. CASE AddToDLQ(m)
        BY <3>1, <3>2, <3>3, AddDead
      <3>4. CASE UNCHANGED dlqVars
        BY <3>2, <3>4, <1>1 DEF dlqVars
      <3> QED BY <2>1, <3>3, <3>4 DEF BuryAdd
    <2>2. ASSUME ~(\E m \in bury[p] : BuryAdd(p, m)) PROVE UNCHANGED <<dlqLen, dlqMsg, succeeded>>
      BY <1>3, <2>2 DEF ClaimLoop, Inspect, BuryDrop, BuryAck, Claim, ClaimFails, Resend, EndPass, dlqVars, workVars
    <2> QED BY <1>1, <2>1, <2>2
  <1>4. ASSUME NEW p \in Processors, NEW w \in Workers, Work(p, w)
        PROVE  UNCHANGED <<dlqLen, dlqMsg>> /\ succeeded \subseteq succeeded'
    BY <1>4 DEF Work, Take, Finish, Fail, AckDone, dlqVars
  <1>5. ASSUME NEW o \in Operators, Api(o) PROVE UNCHANGED <<dlqLen, dlqMsg, succeeded>>
    BY <1>5 DEF Api, RetryGet, RetryPublish, RetryDelete, RetryFails, workVars
  <1>6. CASE \/ \E j \in Jobs : Publish(j)
             \/ \E m \in pel : BecomeStale(m)
             \/ \E p \in Processors : Crash(p)
             \/ \E e \in dlq : DeleteEntry(e)
             \/ Quiescent
             \/ UNCHANGED vars
    BY <1>1, <1>6 DEF Publish, BecomeStale, Crash, DeleteEntry, Quiescent, dlqVars, workVars, vars
  <1>7. ASSUME UNCHANGED <<dlqLen, dlqMsg>> PROVE Dead' = Dead
    BY <1>7 DEF Dead
  <1> QED BY <1>1, <1>2, <1>3, <1>4, <1>5, <1>6, <1>7 DEF Next

\* Delivery counters of delivered messages never go down; only the claim loop
\* and the first delivery touch them.
LEMMA DeliveriesGrow ==
  ASSUME TypeOK, [Next]_vars
  PROVE  /\ cursor <= cursor' /\ cursor' \in Nat
         /\ \A m \in 1..cursor : deliveries[m] <= deliveries'[m]
  <1> USE DEF TypeOK
  <1>1. CASE UNCHANGED <<cursor, deliveries>>
    <2>1. \A m \in 1..cursor : m \in MsgIds
      BY DEF Shape, Sizes
    <2>2. cursor \in Nat /\ \A m \in MsgIds : deliveries[m] \in Nat
      BY DEF Shape
    <2>3. \A m \in 1..cursor : deliveries[m] <= deliveries[m]
      BY <2>1, <2>2
    <2> QED BY <1>1, <2>2, <2>3
  <1>2. ASSUME NEW p \in Processors, Consume(p)
        PROVE  /\ cursor <= cursor' /\ cursor' \in Nat
               /\ \A m \in 1..cursor : deliveries[m] <= deliveries'[m]
    <2>1. cursor \in Nat /\ cursor' \in Nat /\ cursor <= cursor'
      BY <1>2 DEF Consume, Fresh, Shape
    <2>2. \A m \in 1..cursor : m \in MsgIds /\ m \notin Fresh
      BY DEF Fresh, Shape, Sizes
    <2>3. \A m \in MsgIds : m \notin Fresh => deliveries'[m] = deliveries[m] /\ deliveries[m] \in Nat
      BY <1>2 DEF Consume, Shape
    <2> QED BY <2>1, <2>2, <2>3
  <1>3. ASSUME NEW p \in Processors, Claim(p)
        PROVE  /\ cursor <= cursor' /\ cursor' \in Nat
               /\ \A m \in 1..cursor : deliveries[m] <= deliveries'[m]
    <2>1. UNCHANGED cursor
      BY <1>3 DEF Claim
    <2>2. \A m \in MsgIds : deliveries[m] \in Nat /\ deliveries'[m] \in {deliveries[m], deliveries[m] + 1}
      BY <1>3 DEF Claim, Shape
    <2>3. cursor \in Nat /\ 1..cursor \subseteq MsgIds
      BY DEF Shape, Sizes
    <2>4. \A m \in MsgIds : deliveries[m] <= deliveries'[m]
      BY <2>2
    <2> QED BY <2>1, <2>3, <2>4
  <1>4. ASSUME NEW p \in Processors, ConsumeLoop(p), ~Consume(p) PROVE UNCHANGED <<cursor, deliveries>>
    BY <1>4 DEF ConsumeLoop, SkipInvalid, Send, AckOrFail, Acked, streamVars
  <1>5. ASSUME NEW p \in Processors, ClaimLoop(p), ~Claim(p) PROVE UNCHANGED <<cursor, deliveries>>
    BY <1>5 DEF ClaimLoop, Inspect, BuryDrop, BuryAdd, BuryAck, ClaimFails, Resend, EndPass,
                AckOrFail, Acked, streamVars
  <1>6. ASSUME NEW p \in Processors, NEW w \in Workers, Work(p, w) PROVE UNCHANGED <<cursor, deliveries>>
    BY <1>6 DEF Work, Take, Finish, Fail, AckDone, AckOrFail, Acked, streamVars
  <1>7. ASSUME NEW o \in Operators, Api(o) PROVE UNCHANGED <<cursor, deliveries>>
    BY <1>7 DEF Api, RetryGet, RetryPublish, RetryDelete, RetryFails, streamVars
  <1>8. ASSUME \/ \E j \in Jobs : Publish(j)
               \/ \E m \in pel : BecomeStale(m)
               \/ \E p \in Processors : Crash(p)
               \/ \E e \in dlq : DeleteEntry(e)
               \/ Quiescent
               \/ UNCHANGED vars
        PROVE  UNCHANGED <<cursor, deliveries>>
    BY <1>8 DEF Publish, BecomeStale, Crash, DeleteEntry, Quiescent, streamVars, vars
  <1> QED BY <1>1, <1>2, <1>3, <1>4, <1>5, <1>6, <1>7, <1>8 DEF Next

-----------------------------------------------------------------------------
(* No job is lost *)

\* Whoever acknowledges has a reason; a failed DeadLetterQueue.Add is excluded.
LEMMA AckJustifiedStep ==
  ASSUME TypeOK, AckJustified, [Next]_vars, "dlqAdd" \notin Faults
  PROVE  AckJustified'
  <1> USE DEF TypeOK
  <1>0. Dead \subseteq Dead' /\ succeeded \subseteq succeeded'
    BY DeadGrows
  <1> DEFINE ByWorkers == \A t \in Threads : worker[t].pc = "ack" => worker[t].msg \in succeeded
             ByLoops == \A p \in Processors, m \in MsgIds :
                           loop[p] = "buryAck" /\ IsLeast(m, bury[p]) => m \in Dead
  <1>1. CASE UNCHANGED <<worker, loop, bury>>
    BY <1>0, <1>1 DEF AckJustified, IsLeast
  <1>2. ASSUME NEW p \in Processors, ClaimLoop(p) PROVE AckJustified'
    <2>1. UNCHANGED worker
      BY <1>2 DEF ClaimLoop, Inspect, BuryDrop, BuryAdd, BuryAck, Claim, ClaimFails, Resend, EndPass, workVars
    <2>2. ByWorkers'
      BY <1>0, <2>1 DEF AckJustified
    <2>3. \A q \in Processors : q # p => loop'[q] = loop[q] /\ bury'[q] = bury[q]
      BY <1>2 DEF ClaimLoop, Inspect, BuryDrop, BuryAdd, BuryAck, Claim, ClaimFails, Resend, EndPass, Shape
    <2>4. CASE \E m \in bury[p] : BuryAdd(p, m)
      <3>1. PICK m \in bury[p] : BuryAdd(p, m)
        BY <2>4
      <3>2. m \in MsgIds /\ bury' = bury /\ IsLeast(m, bury[p]) /\ AddToDLQ(m)
        BY <3>1 DEF BuryAdd, Shape
      <3>3. m \in Dead'
        BY <3>2, AddDead
      <3>4. \A n \in MsgIds : IsLeast(n, bury[p]) => n = m
        BY <3>2 DEF IsLeast
      <3>5. ByLoops'
        BY <1>0, <2>3, <3>2, <3>3, <3>4 DEF AckJustified, IsLeast
      <3> QED BY <2>2, <3>5 DEF AckJustified
    <2>5. CASE ~(\E m \in bury[p] : BuryAdd(p, m))
      <3>1. loop'[p] = "buryAck" => bury'[p] = bury[p] /\ loop[p] = "buryAck"
        BY <1>2, <2>5 DEF ClaimLoop, Inspect, BuryDrop, BuryAck, Claim, ClaimFails, Resend, EndPass, Shape
      <3>2. ByLoops'
        BY <1>0, <2>3, <3>1 DEF AckJustified, IsLeast
      <3> QED BY <2>2, <3>2 DEF AckJustified
    <2> QED BY <2>4, <2>5
  <1>3. ASSUME NEW p \in Processors, NEW w \in Workers, Work(p, w) PROVE AckJustified'
    <2>1. UNCHANGED <<loop, bury>>
      BY <1>3 DEF Work, Take, Finish, Fail, AckDone, loopVars
    <2>2. ByLoops'
      BY <1>0, <2>1 DEF AckJustified, IsLeast
    <2>3. <<p, w>> \in Threads
      BY DEF Threads
    <2>4. \A t \in Threads : t # <<p, w>> => worker'[t] = worker[t]
      BY <1>3, <2>3 DEF Work, Take, Finish, Fail, AckDone, Shape
    <2>5. worker'[<<p, w>>].pc = "ack" => worker'[<<p, w>>].msg \in succeeded'
      <3>1. CASE Finish(p, w)
        BY <2>3, <3>1 DEF Finish, Shape
      <3>2. CASE Take(p, w) \/ Fail(p, w) \/ AckDone(p, w)
        <4>1. worker'[<<p, w>>].pc # "ack"
          BY <2>3, <3>2 DEF Take, Fail, AckDone, Shape, Idle
        <4> QED BY <4>1
      <3> QED BY <1>3, <3>1, <3>2 DEF Work
    <2>6. ByWorkers'
      BY <1>0, <2>4, <2>5 DEF AckJustified
    <2> QED BY <2>2, <2>6 DEF AckJustified
  <1>4. ASSUME NEW p \in Processors, Crash(p) PROVE AckJustified'
    <2>1. \A t \in Threads : worker'[t].pc = "ack" => worker'[t] = worker[t]
      BY <1>4 DEF Crash, Idle
    <2>2. \A q \in Processors : loop'[q] = "buryAck" => loop[q] = "buryAck" /\ bury'[q] = bury[q]
      BY <1>4 DEF Crash, Shape
    <2> QED BY <1>0, <2>1, <2>2 DEF AckJustified, IsLeast
  <1>5. ASSUME NEW p \in Processors, ConsumeLoop(p) PROVE UNCHANGED <<worker, loop, bury>>
    BY <1>5 DEF ConsumeLoop, Consume, SkipInvalid, Send, loopVars, workVars
  <1>6. ASSUME NEW o \in Operators, Api(o) PROVE UNCHANGED <<worker, loop, bury>>
    BY <1>6 DEF Api, RetryGet, RetryPublish, RetryDelete, RetryFails, loopVars, workVars
  <1>7. ASSUME \/ \E j \in Jobs : Publish(j)
               \/ \E m \in pel : BecomeStale(m)
               \/ \E e \in dlq : DeleteEntry(e)
               \/ Quiescent
               \/ UNCHANGED vars
        PROVE  UNCHANGED <<worker, loop, bury>>
    BY <1>7 DEF Publish, BecomeStale, DeleteEntry, Quiescent, loopVars, workVars, vars
  <1> QED BY <1>1, <1>2, <1>3, <1>4, <1>5, <1>6, <1>7 DEF Next

\* What leaves the pending list in a step has a reason to.
LEMMA PelStep ==
  ASSUME TypeOK, AckJustified, [Next]_vars, "range" \notin Faults
  PROVE  /\ \A m \in pel : m \in pel' \/ m \in succeeded \/ m \in Dead \/ ~Parses(m)
         /\ \A m \in 1..cursor' : m \in 1..cursor \/ m \in pel'
  <1> USE DEF TypeOK
  <1>1. CASE UNCHANGED <<pel, cursor>>
    BY <1>1
  <1>2. ASSUME NEW p \in Processors, Consume(p)
        PROVE  pel \subseteq pel' /\ \A m \in 1..cursor' : m \in 1..cursor \/ m \in pel'
    <2>1. cursor' \in Fresh /\ pel' = pel \union Fresh
      BY <1>2 DEF Consume
    <2>2. cursor \in Nat /\ cursor' \in MsgIds /\ cursor' <= Len(stream) /\ cursor' <= cursor + BatchSize
          /\ Len(stream) \in Nat
      BY <2>1 DEF Fresh, Shape
    <2>3. \A m \in 1..cursor' : m \in 1..cursor \/ m \in Fresh
      BY <2>2 DEF Fresh
    <2> QED BY <2>1, <2>3
  <1>3. ASSUME NEW m \in MsgIds, AckOrFail(m)
        PROVE  UNCHANGED cursor /\ \A n \in pel : n \in pel' \/ n = m
    BY <1>3 DEF AckOrFail, Acked, streamVars
  <1>4. ASSUME NEW p \in Processors, NEW m \in batch[p], SkipInvalid(p, m)
        PROVE  ~Parses(m) /\ m \in MsgIds /\ AckOrFail(m)
    BY <1>4 DEF SkipInvalid, Shape
  <1>5. ASSUME NEW p \in Processors, NEW m \in bury[p], BuryDrop(p, m)
        PROVE  ~Parses(m) /\ m \in MsgIds /\ AckOrFail(m)
    BY <1>5 DEF BuryDrop, Shape
  <1>6. ASSUME NEW p \in Processors, NEW m \in bury[p], BuryAck(p, m)
        PROVE  m \in Dead /\ m \in MsgIds /\ AckOrFail(m)
    BY <1>6 DEF BuryAck, Shape, AckJustified
  <1>7. ASSUME NEW p \in Processors, NEW w \in Workers, AckDone(p, w)
        PROVE  \E m \in MsgIds : m \in succeeded /\ AckOrFail(m)
    <2>1. <<p, w>> \in Threads
      BY DEF Threads
    <2>2. worker[<<p, w>>].msg \in succeeded /\ AckOrFail(worker[<<p, w>>].msg)
      BY <1>7, <2>1 DEF AckDone, AckJustified
    <2>3. worker[<<p, w>>].msg \in MsgIds
      BY <2>2 DEF Shape
    <2> QED BY <2>2, <2>3
  <1>8. ASSUME NEW p \in Processors, ConsumeLoop(p)
        PROVE  Consume(p) \/ UNCHANGED <<pel, cursor>> \/ \E m \in MsgIds : ~Parses(m) /\ AckOrFail(m)
    <2>1. ASSUME NEW m \in batch[p], Send(p, m) PROVE UNCHANGED <<pel, cursor>>
      BY <2>1 DEF Send, streamVars
    <2> QED BY <1>4, <1>8, <2>1 DEF ConsumeLoop
  <1>9. ASSUME NEW p \in Processors, ClaimLoop(p)
        PROVE  UNCHANGED <<pel, cursor>> \/ \E m \in MsgIds : (m \in Dead \/ ~Parses(m)) /\ AckOrFail(m)
    <2>1. ASSUME ~(\E m \in bury[p] : BuryDrop(p, m) \/ BuryAck(p, m)) PROVE UNCHANGED <<pel, cursor>>
      BY <1>9, <2>1 DEF ClaimLoop, Inspect, BuryAdd, Claim, ClaimFails, Resend, EndPass, streamVars
    <2> QED BY <1>5, <1>6, <2>1
  <1>a. ASSUME NEW p \in Processors, NEW w \in Workers, Work(p, w)
        PROVE  UNCHANGED <<pel, cursor>> \/ \E m \in MsgIds : m \in succeeded /\ AckOrFail(m)
    <2>1. ASSUME ~AckDone(p, w) PROVE UNCHANGED <<pel, cursor>>
      BY <1>a, <2>1 DEF Work, Take, Finish, Fail, streamVars
    <2> QED BY <1>7, <2>1
  <1>b. ASSUME NEW o \in Operators, Api(o) PROVE UNCHANGED <<pel, cursor>>
    BY <1>b DEF Api, RetryGet, RetryPublish, RetryDelete, RetryFails, streamVars
  <1>c. ASSUME \/ \E j \in Jobs : Publish(j)
               \/ \E m \in pel : BecomeStale(m)
               \/ \E p \in Processors : Crash(p)
               \/ \E e \in dlq : DeleteEntry(e)
               \/ Quiescent
               \/ UNCHANGED vars
        PROVE  UNCHANGED <<pel, cursor>>
    BY <1>c DEF Publish, BecomeStale, Crash, DeleteEntry, Quiescent, streamVars, vars
  <1>d. CASE \E m \in MsgIds : (m \in succeeded \/ m \in Dead \/ ~Parses(m)) /\ AckOrFail(m)
    BY <1>3, <1>d
  <1>e. CASE \E p \in Processors : Consume(p)
    BY <1>2, <1>e
  <1>f. \/ UNCHANGED <<pel, cursor>>
        \/ \E p \in Processors : Consume(p)
        \/ \E m \in MsgIds : (m \in succeeded \/ m \in Dead \/ ~Parses(m)) /\ AckOrFail(m)
    BY <1>8, <1>9, <1>a, <1>b, <1>c DEF Next
  <1> QED BY <1>1, <1>d, <1>e, <1>f

\* As long as Redis answers the reads and writes of moveToDLQ, no job leaves
\* the pending list without having succeeded or having a dead letter, whatever
\* crashes, repeated claims and failed acknowledgements there are.
THEOREM NoJobIsLost ==
  ASSUME Faults \intersect {"range", "dlqAdd"} = {}
  PROVE  Spec => []NoSilentLoss
  <1> DEFINE Inv == TypeOK /\ AckJustified /\ NoSilentLoss
  <1>1. Init => Inv
    <2>1. Init => AckJustified
      BY DEF Init, AckJustified, Idle
    <2>2. Init => NoSilentLoss
      BY DEF Init, NoSilentLoss
    <2> QED BY <2>1, <2>2, InitTypeOK
  <1>2. Inv /\ [Next]_vars => Inv'
    <2> SUFFICES ASSUME Inv, [Next]_vars PROVE Inv'
      OBVIOUS
    <2>1. TypeOK'
      BY TypeOKStep
    <2>2. AckJustified'
      BY AckJustifiedStep
    <2>3. NoSilentLoss'
      <3>1. /\ \A m \in pel : m \in pel' \/ m \in succeeded \/ m \in Dead \/ ~Parses(m)
            /\ \A m \in 1..cursor' : m \in 1..cursor \/ m \in pel'
        BY PelStep
      <3>2. Dead \subseteq Dead' /\ succeeded \subseteq succeeded'
        BY DeadGrows
      <3>3. \A m \in 1..cursor : Parses(m)' <=> Parses(m)
        BY StreamGrows DEF Parses
      <3> QED BY <3>1, <3>2, <3>3 DEF NoSilentLoss
    <2> QED BY <2>1, <2>2, <2>3
  <1> QED BY <1>1, <1>2, PTL DEF Spec

-----------------------------------------------------------------------------
(* Dead letters only for exhausted messages *)

\* A dead letter is written only for a message that was delivered more than
\* MaxRetries times; the counter the claim loop saw can only have grown since.
THEOREM DeadLettersAreExhausted == Spec => []BuriedAfterBudget
  <1> DEFINE Inv == TypeOK /\ BuryJustified /\ BuriedAfterBudget
  <1>1. Init => Inv
    <2>1. Init => BuryJustified
      BY DEF Init, BuryJustified
    <2>2. Init => BuriedAfterBudget
      BY DEF Init, BuriedAfterBudget, Dead
    <2> QED BY <2>1, <2>2, InitTypeOK
  <1>2. Inv /\ [Next]_vars => Inv'
    <2> SUFFICES ASSUME Inv, [Next]_vars PROVE Inv'
      OBVIOUS
    <2>1. TypeOK'
      BY TypeOKStep
    <2>2. \A m \in 1..cursor : deliveries[m] \in Nat /\ deliveries'[m] \in Nat /\ deliveries[m] <= deliveries'[m]
      <3>1. 1..cursor \subseteq MsgIds
        BY DEF TypeOK, Shape, Sizes
      <3>2. \A m \in MsgIds : deliveries[m] \in Nat /\ deliveries'[m] \in Nat
        BY <2>1 DEF TypeOK, Shape
      <3> QED BY <3>1, <3>2, DeliveriesGrow
    <2>3. \A m \in 1..cursor : Exceeded(m) => Exceeded(m)'
      BY <2>2 DEF Exceeded
    <2>4. \A p \in Processors : \A m \in bury'[p] : m \in 1..cursor /\ Exceeded(m)
      <3>1. CASE \A p \in Processors : bury'[p] \subseteq bury[p]
        BY <3>1 DEF BuryJustified, TypeOK, Delivered
      <3>2. ASSUME NEW p \in Processors, Inspect(p)
            PROVE  \A q \in Processors : \A m \in bury'[q] : m \in 1..cursor /\ Exceeded(m)
        <4>1. \A q \in Processors : q # p => bury'[q] = bury[q]
          BY <3>2 DEF Inspect, TypeOK, Shape
        <4>2. bury'[p] = {m \in Pending \intersect stale : Exceeded(m)}
          BY <3>2 DEF Inspect, TypeOK, Shape
        <4>3. stale \subseteq 1..cursor
          BY DEF TypeOK, Delivered
        <4> QED BY <4>1, <4>2, <4>3 DEF BuryJustified, TypeOK, Delivered
      <3>3. ASSUME NEW p \in Processors, ClaimLoop(p), ~Inspect(p)
            PROVE  \A q \in Processors : bury'[q] \subseteq bury[q]
        <4>1. bury' = bury \/ \E m \in MsgIds : bury' = [bury EXCEPT ![p] = bury[p] \ {m}]
          BY <3>3 DEF ClaimLoop, BuryDrop, BuryAdd, BuryAck, Claim, ClaimFails, Resend, EndPass, TypeOK, Shape
        <4>2. ASSUME NEW m \in MsgIds, bury' = [bury EXCEPT ![p] = bury[p] \ {m}]
              PROVE  \A q \in Processors : bury'[q] \subseteq bury[q]
          BY <4>2 DEF TypeOK, Shape
        <4> QED BY <4>1, <4>2, Zenon
      <3>4. ASSUME NEW p \in Processors, Crash(p)
            PROVE  \A q \in Processors : bury'[q] \subseteq bury[q]
        BY <3>4 DEF Crash, TypeOK, Shape
      <3>5. ASSUME ~(\E p \in Processors : ClaimLoop(p) \/ Crash(p)) PROVE UNCHANGED bury
        <4>1. ASSUME NEW p \in Processors, ConsumeLoop(p) PROVE UNCHANGED bury
          BY <4>1 DEF ConsumeLoop, Consume, SkipInvalid, Send, loopVars
        <4>2. ASSUME NEW p \in Processors, NEW w \in Workers, Work(p, w) PROVE UNCHANGED bury
          BY <4>2 DEF Work, Take, Finish, Fail, AckDone, loopVars
        <4> QED BY <3>5, <4>1, <4>2 DEF Next, Publish, BecomeStale, Api, RetryGet, RetryPublish, RetryDelete,
                   RetryFails, DeleteEntry, Quiescent, loopVars, vars
      <3> QED BY <3>1, <3>2, <3>3, <3>4, <3>5
    <2>5. BuryJustified'
      BY <2>3, <2>4 DEF BuryJustified
    <2>6. \A m \in Dead' : m \in Dead \/ \E p \in Processors : m \in bury[p]
      <3>1. ASSUME NEW p \in Processors, NEW m \in bury[p], AddToDLQ(m)
            PROVE  \A n \in Dead' : n \in Dead \/ \E q \in Processors : n \in bury[q]
        <4>1. m \in MsgIds
          BY DEF TypeOK, Shape
        <4> QED BY <3>1, <4>1, AddDead
      <3>2. ASSUME UNCHANGED <<dlqLen, dlqMsg>> PROVE Dead' = Dead
        BY <3>2 DEF Dead
      <3>3. ASSUME NEW p \in Processors, ClaimLoop(p)
            PROVE  UNCHANGED <<dlqLen, dlqMsg>> \/ \E m \in bury[p] : AddToDLQ(m)
        BY <3>3 DEF ClaimLoop, Inspect, BuryDrop, BuryAdd, BuryAck, Claim, ClaimFails, Resend, EndPass, dlqVars
      <3>4. ASSUME ~(\E p \in Processors : ClaimLoop(p)) PROVE UNCHANGED <<dlqLen, dlqMsg>>
        <4>1. ASSUME NEW p \in Processors, ConsumeLoop(p) PROVE UNCHANGED <<dlqLen, dlqMsg>>
          BY <4>1 DEF ConsumeLoop, Consume, SkipInvalid, Send, dlqVars
        <4>2. ASSUME NEW p \in Processors, NEW w \in Workers, Work(p, w) PROVE UNCHANGED <<dlqLen, dlqMsg>>
          BY <4>2 DEF Work, Take, Finish, Fail, AckDone, dlqVars
        <4> QED BY <3>4, <4>1, <4>2 DEF Next, Publish, BecomeStale, Crash, Api, RetryGet, RetryPublish, RetryDelete,
                   RetryFails, DeleteEntry, Quiescent, dlqVars, vars
      <3> QED BY <3>1, <3>2, <3>3, <3>4
    <2>7. BuriedAfterBudget'
      <3>1. Dead \subseteq 1..cursor
        BY DEF Dead, TypeOK, Delivered
      <3>2. \A m \in Dead : Exceeded(m)
        BY DEF BuriedAfterBudget, Exceeded
      <3>3. \A p \in Processors : \A m \in bury[p] : m \in 1..cursor /\ Exceeded(m)
        BY DEF BuryJustified, TypeOK, Delivered
      <3>4. \A m \in Dead' : m \in 1..cursor /\ Exceeded(m)
        BY <2>6, <3>1, <3>2, <3>3
      <3> QED BY <2>3, <3>4 DEF BuriedAfterBudget, Exceeded
    <2> QED BY <2>1, <2>5, <2>7
  <1> QED BY <1>1, <1>2, PTL DEF Spec

-----------------------------------------------------------------------------
(* The bound on deliveries *)

LEMMA HoldersFinite ==
  ASSUME NEW m
  PROVE  /\ IsFiniteSet(Holders(m)) /\ Cardinality(Holders(m)) \in Nat
         /\ Cardinality(Holders(m)) <= Cardinality(Processors)
         /\ Cardinality(Processors) \in Nat
  <1>1. Holders(m) \in SUBSET Processors
    BY DEF Holders
  <1>2. IsFiniteSet(Processors)
    OBVIOUS
  <1> QED BY <1>1, <1>2, FS_Subset, FS_CardinalityType

LEMMA HoldersFinitePrime ==
  ASSUME NEW m
  PROVE  IsFiniteSet(Holders(m)') /\ Cardinality(Holders(m)') \in Nat
  <1>1. Holders(m)' \in SUBSET Processors
    BY DEF Holders
  <1>2. IsFiniteSet(Processors)
    OBVIOUS
  <1> QED BY <1>1, <1>2, FS_Subset, FS_CardinalityType

\* A step that counts no delivery of m and adds no holder of m.
LEMMA BudgetKept ==
  ASSUME TypeOK, NEW m \in MsgIds, WithinBudget(m),
         deliveries'[m] = deliveries[m], Holders(m)' \subseteq Holders(m)
  PROVE  WithinBudget(m)'
  <1>1. deliveries[m] \in Nat
    BY DEF TypeOK, Shape
  <1>2. Cardinality(Holders(m)') <= Cardinality(Holders(m))
    BY HoldersFinite, FS_Subset
  <1> QED BY <1>1, <1>2, HoldersFinite, HoldersFinitePrime DEF WithinBudget

LEMMA BudgetConsume ==
  ASSUME TypeOK, NEW p \in Processors, Consume(p), NEW m \in MsgIds, WithinBudget(m)
  PROVE  WithinBudget(m)'
  <1>1. Holders(m)' = Holders(m)
    BY DEF Consume, Holders, loopVars
  <1>2. CASE m \in Fresh
    <2>1. deliveries'[m] = 1
      BY <1>2 DEF Consume
    <2> QED BY <2>1 DEF WithinBudget
  <1>3. CASE m \notin Fresh
    <2>1. deliveries'[m] = deliveries[m]
      BY <1>3 DEF Consume
    <2> QED BY <1>1, <2>1, BudgetKept
  <1> QED BY <1>2, <1>3

LEMMA BudgetInspect ==
  ASSUME TypeOK, NEW p \in Processors, Inspect(p), NEW m \in MsgIds, WithinBudget(m)
  PROVE  WithinBudget(m)'
  <1>1. deliveries' = deliveries /\ deliveries[m] \in Nat
    BY DEF Inspect, streamVars, TypeOK, Shape
  <1>2. CASE ~Exceeded(m)
    BY <1>1, <1>2 DEF Exceeded, WithinBudget
  <1>3. CASE Exceeded(m)
    <2>1. m \notin reclaim'[p]
      BY <1>3 DEF Inspect, TypeOK, Shape
    <2>2. \A q \in Processors : q # p => loop'[q] = loop[q] /\ reclaim'[q] = reclaim[q]
      BY DEF Inspect, TypeOK, Shape
    <2>3. Holders(m)' \subseteq Holders(m)
      BY <2>1, <2>2 DEF Holders
    <2> QED BY <1>1, <2>3, BudgetKept
  <1> QED BY <1>2, <1>3

LEMMA BudgetClaim ==
  ASSUME TypeOK, NEW p \in Processors, Claim(p), NEW m \in MsgIds, WithinBudget(m)
  PROVE  WithinBudget(m)'
  <1> DEFINE claimed == reclaim[p] \intersect pel \intersect stale
  <1>1. \A q \in Processors : q # p => loop'[q] = loop[q] /\ reclaim'[q] = reclaim[q]
    BY DEF Claim, TypeOK, Shape
  <1>2. loop'[p] = "send" /\ loop[p] = "bury"
    BY DEF Claim, TypeOK, Shape
  <1>3. Holders(m)' = Holders(m) \ {p}
    BY <1>1, <1>2 DEF Holders
  <1>4. deliveries[m] \in Nat
    BY DEF TypeOK, Shape
  <1>5. CASE m \notin claimed
    <2>1. deliveries'[m] = deliveries[m]
      BY <1>5 DEF Claim
    <2> QED BY <1>3, <2>1, BudgetKept
  <1>6. CASE m \in claimed
    <2>1. deliveries'[m] = deliveries[m] + 1
      BY <1>6 DEF Claim
    <2>2. p \in Holders(m)
      BY <1>2, <1>6 DEF Holders
    <2>3. Cardinality(Holders(m)') = Cardinality(Holders(m)) - 1
      <3>1. IsFiniteSet(Holders(m))
        BY HoldersFinite
      <3>2. Cardinality(Holders(m) \ {p}) = Cardinality(Holders(m)) - 1
        BY <2>2, <3>1, FS_RemoveElement, Zenon
      <3> QED BY <1>3, <3>2, Zenon
    <2>4. /\ Cardinality(Holders(m)) \in Nat
          /\ Cardinality(Holders(m)) <= Cardinality(Processors)
          /\ Cardinality(Processors) \in Nat
      BY HoldersFinite
    <2> QED BY <1>4, <2>1, <2>3, <2>4 DEF WithinBudget
  <1> QED BY <1>5, <1>6

\* Any number of Processors may hold an old snapshot that says a message may be
\* claimed; still it is delivered at most MaxRetries times plus once for each.
THEOREM DeliveriesBounded == Spec => []DeliveryBound
  <1> DEFINE Inv == TypeOK /\ ClaimBudget
  <1>1. Init => Inv
    <2>1. Init => ClaimBudget
      BY DEF Init, ClaimBudget, WithinBudget
    <2> QED BY <2>1, InitTypeOK
  <1>2. Inv /\ [Next]_vars => Inv'
    <2> SUFFICES ASSUME Inv, [Next]_vars PROVE Inv'
      OBVIOUS
    <2>1. TypeOK'
      BY TypeOKStep
    <2>2. ASSUME NEW m \in MsgIds PROVE WithinBudget(m)'
      <3>1. WithinBudget(m)
        BY DEF ClaimBudget, WithinBudget
      <3>2. CASE deliveries' = deliveries /\ Holders(m)' \subseteq Holders(m)
        BY <3>1, <3>2, BudgetKept
      <3>3. CASE \E p \in Processors : Consume(p) \/ Inspect(p) \/ Claim(p)
        BY <3>1, <3>3, BudgetConsume, BudgetInspect, BudgetClaim
      <3>4. ASSUME NEW p \in Processors, ConsumeLoop(p), ~Consume(p)
            PROVE  deliveries' = deliveries /\ Holders(m)' \subseteq Holders(m)
        BY <3>4 DEF ConsumeLoop, SkipInvalid, Send, AckOrFail, Acked, streamVars, loopVars, Holders
      <3>5. ASSUME NEW p \in Processors, ClaimLoop(p), ~Inspect(p), ~Claim(p)
            PROVE  deliveries' = deliveries /\ Holders(m)' \subseteq Holders(m)
        <4>1. deliveries' = deliveries
          BY <3>5 DEF ClaimLoop, BuryDrop, BuryAdd, BuryAck, ClaimFails, Resend, EndPass, AckOrFail, Acked, streamVars
        <4>2. \A q \in Processors : q # p => loop'[q] = loop[q] /\ reclaim'[q] = reclaim[q]
          BY <3>5 DEF ClaimLoop, BuryDrop, BuryAdd, BuryAck, ClaimFails, Resend, EndPass, TypeOK, Shape
        <4>3. loop'[p] \in {"bury", "buryAck"} => loop[p] \in {"bury", "buryAck"} /\ reclaim'[p] = reclaim[p]
          BY <3>5 DEF ClaimLoop, BuryDrop, BuryAdd, BuryAck, ClaimFails, Resend, EndPass, TypeOK, Shape
        <4> QED BY <4>1, <4>2, <4>3 DEF Holders
      <3>6. ASSUME NEW p \in Processors, Crash(p)
            PROVE  deliveries' = deliveries /\ Holders(m)' \subseteq Holders(m)
        BY <3>6 DEF Crash, streamVars, Holders, TypeOK, Shape
      <3>7. ASSUME ~(\E p \in Processors : ConsumeLoop(p) \/ ClaimLoop(p) \/ Crash(p))
            PROVE  UNCHANGED <<deliveries, loop, reclaim>>
        <4>1. ASSUME NEW p \in Processors, NEW w \in Workers, Work(p, w) PROVE UNCHANGED <<deliveries, loop, reclaim>>
          BY <4>1 DEF Work, Take, Finish, Fail, AckDone, AckOrFail, Acked, streamVars, loopVars
        <4> QED BY <3>7, <4>1 DEF Next, Publish, BecomeStale, Api, RetryGet, RetryPublish, RetryDelete,
                   RetryFails, DeleteEntry, Quiescent, streamVars, loopVars, vars
      <3>8. ASSUME UNCHANGED <<deliveries, loop, reclaim>>
            PROVE  deliveries' = deliveries /\ Holders(m)' \subseteq Holders(m)
        BY <3>8 DEF Holders
      <3> QED BY <3>2, <3>3, <3>4, <3>5, <3>6, <3>7, <3>8
    <2>3. ClaimBudget'
      BY <2>2 DEF ClaimBudget, WithinBudget
    <2> QED BY <2>1, <2>3
  <1>3. Inv => DeliveryBound
    <2> SUFFICES ASSUME Inv, NEW m \in MsgIds PROVE deliveries[m] <= MaxRetries + Cardinality(Processors)
      BY DEF DeliveryBound
    <2>1. deliveries[m] \in Nat
      BY DEF TypeOK, Shape
    <2> QED BY <2>1, HoldersFinite DEF ClaimBudget, WithinBudget
  <1> QED BY <1>1, <1>2, <1>3, PTL DEF Spec

-----------------------------------------------------------------------------
(* Dead letters stay until they are published again or removed *)

\* A retry deletes the entry only after it published its job.
DeletesReposted == \A o \in Operators : op[o].pc = "delete" => op[o].entry \in reposted

\* A new dead letter survives its own MAXLEN, whatever else is trimmed.
LEMMA NewEntryKept ==
  ASSUME NEW n \in Nat, NEW S, n \in S, \A e \in S : e \in Nat /\ e <= n, NEW K \in Trims(S)
  PROVE  n \in K
  <1>1. PICK k \in 0..MaxDead : K = {e \in S : e > k}
    BY DEF Trims
  <1>2. CASE K = S
    BY <1>2
  <1>3. CASE K = {}
    <2>1. Cardinality(K) = 0
      BY <1>3, FS_EmptySet
    <2> QED BY <1>2, <2>1 DEF Trims
  <1>4. CASE K # {}
    <2>1. PICK e \in S : e > k
      BY <1>1, <1>4
    <2> QED BY <1>1, <2>1
  <1> QED BY <1>3, <1>4

LEMMA DeadLettersStep ==
  ASSUME TypeOK, DeletesReposted, DeadLettersKept, [Next]_vars
  PROVE  DeletesReposted' /\ DeadLettersKept'
  <1> USE DEF TypeOK
  <1>1. CASE UNCHANGED dlqVars
    BY <1>1 DEF dlqVars, DeletesReposted, DeadLettersKept
  <1>2. ASSUME NEW p \in Processors, ClaimLoop(p)
        PROVE  DeletesReposted' /\ DeadLettersKept'
    <2>1. CASE ~(\E m \in bury[p] : AddToDLQ(m))
      <3>1. UNCHANGED dlqVars
        BY <1>2, <2>1 DEF ClaimLoop, Inspect, BuryDrop, BuryAdd, BuryAck, Claim, ClaimFails, Resend, EndPass
      <3> QED BY <1>1, <3>1
    <2>2. ASSUME NEW m \in bury[p], AddToDLQ(m) PROVE DeletesReposted' /\ DeadLettersKept'
      <3>1. dlqLen \in Nat /\ dlqLen' = dlqLen + 1 /\ 1..dlqLen' = (1..dlqLen) \union {dlqLen + 1}
        <4>1. dlqLen \in 0..MaxDead /\ dlqLen' = dlqLen + 1
          BY <2>2 DEF AddToDLQ, Shape
        <4> QED BY <4>1
      <3>2. dlqLen + 1 \in dlq'
        <4>1. dlq' \in Trims(dlq \union {dlqLen + 1}) /\ \A e \in dlq : e \in 1..dlqLen
          BY <2>2 DEF AddToDLQ, Shape
        <4> HIDE DEF TypeOK
        <4> QED BY <3>1, <4>1, NewEntryKept
      <3>3. purged' = purged \union (dlq \ dlq') /\ UNCHANGED <<op, reposted>>
        BY <2>2 DEF AddToDLQ
      <3> QED BY <3>1, <3>2, <3>3 DEF DeletesReposted, DeadLettersKept
    <2> QED BY <2>1, <2>2
  <1>3. ASSUME NEW o \in Operators, Api(o) PROVE DeletesReposted' /\ DeadLettersKept'
    <2>1. \A r \in Operators : r # o => op'[r] = op[r]
      BY <1>3 DEF Api, RetryGet, RetryPublish, RetryDelete, RetryFails, Shape
    <2>2. op'[o].pc = "delete" => op'[o].entry \in reposted'
      <3>1. CASE RetryPublish(o)
        BY <3>1 DEF RetryPublish, Shape
      <3>2. CASE ~RetryPublish(o)
        <4>1. op'[o].pc # "delete"
          BY <1>3, <3>2 DEF Api, RetryGet, RetryDelete, RetryFails, Shape, NoOp
        <4> QED BY <4>1
      <3> QED BY <3>1, <3>2
    <2>3. reposted \subseteq reposted' /\ UNCHANGED <<dlqLen, purged>>
      BY <1>3 DEF Api, RetryGet, RetryPublish, RetryDelete, RetryFails
    <2>4. \A e \in dlq : e \in dlq' \/ e \in reposted
      <3>1. CASE RetryDelete(o)
        BY <3>1 DEF RetryDelete, DeletesReposted
      <3>2. CASE ~RetryDelete(o)
        BY <1>3, <3>2 DEF Api, RetryGet, RetryPublish, RetryFails
      <3> QED BY <3>1, <3>2
    <2> QED BY <2>1, <2>2, <2>3, <2>4 DEF DeletesReposted, DeadLettersKept
  <1>4. ASSUME NEW e \in dlq, DeleteEntry(e) PROVE DeletesReposted' /\ DeadLettersKept'
    BY <1>4 DEF DeleteEntry, DeletesReposted, DeadLettersKept
  <1>5. ASSUME NEW p \in Processors, ConsumeLoop(p) \/ Crash(p) PROVE UNCHANGED dlqVars
    BY <1>5 DEF ConsumeLoop, Consume, SkipInvalid, Send, Crash
  <1>6. ASSUME NEW p \in Processors, NEW w \in Workers, Work(p, w) PROVE UNCHANGED dlqVars
    BY <1>6 DEF Work, Take, Finish, Fail, AckDone
  <1>7. ASSUME \/ \E j \in Jobs : Publish(j)
               \/ \E m \in pel : BecomeStale(m)
               \/ Quiescent
               \/ UNCHANGED vars
        PROVE  UNCHANGED dlqVars
    BY <1>7 DEF Publish, BecomeStale, Quiescent, vars, dlqVars
  <1> QED BY <1>1, <1>2, <1>3, <1>4, <1>5, <1>6, <1>7 DEF Next

\* However retries, deletions and trims interleave, and wherever a retry ends
\* early: an entry leaves the dead letter stream only after its job is back in
\* the job stream, by an operator's DELETE or by MAXLEN.
THEOREM DeadLettersAreKept == Spec => []DeadLettersKept
  <1>1. Init => DeletesReposted /\ DeadLettersKept
    BY DEF Init, DeletesReposted, DeadLettersKept, NoOp
  <1> QED BY <1>1, InitTypeOK, TypeOKStep, DeadLettersStep, PTL DEF Spec

-----------------------------------------------------------------------------
(* The queue keeps the ledger *)

\* A step that changes nothing of what the ledger speaks about.
LEMMA LedgerStutters ==
  ASSUME UNCHANGED <<stream, cursor, pel, succeeded, dlqLen, dlqMsg>>
  PROVE  UNCHANGED Ledger!vars
  BY DEF Ledger!vars, Dead

\* A message with a reason to is acknowledged.
LEMMA LedgerSettles ==
  ASSUME TypeOK, NEW m \in 1..cursor, AckOrFail(m), m \in succeeded \/ m \in Dead \/ ~Parses(m),
         UNCHANGED <<succeeded, dlqLen, dlqMsg>>
  PROVE  [Ledger!Next]_(Ledger!vars)
  <1>1. UNCHANGED <<stream, cursor>>
    BY DEF AckOrFail, Acked, streamVars
  <1>2. UNCHANGED Dead
    BY DEF Dead
  <1>3. CASE UNCHANGED pel
    BY <1>1, <1>3, LedgerStutters
  <1>4. CASE pel' = pel \ {m}
    <2>1. (1..cursor') \ pel' = ((1..cursor) \ pel) \union {m}
      BY <1>1, <1>4
    <2>2. stream[m] \in Jobs
      BY DEF TypeOK, Shape, Sizes
    <2>3. m \in succeeded \/ m \in Dead \/ ~[j \in Jobs |-> Kind[j] \in {"plan", "unknown"}][stream[m]]
      BY <2>2 DEF Parses
    <2>4. Ledger!Settle
      BY <1>1, <1>2, <2>1, <2>3 DEF Ledger!Settle
    <2> QED BY <2>4 DEF Ledger!Next
  <1> QED BY <1>3, <1>4 DEF AckOrFail, Acked, streamVars

\* A job that can be parsed gets a dead letter.
LEMMA LedgerBuries ==
  ASSUME TypeOK, NEW m \in 1..cursor, Parses(m), AddToDLQ(m), UNCHANGED <<streamVars, succeeded>>
  PROVE  Ledger!Next
  <1>1. m \in MsgIds /\ stream[m] \in Jobs
    BY DEF TypeOK, Shape, Sizes
  <1>2. Dead' = Dead \union {m}
    BY <1>1, AddDead
  <1>3. [j \in Jobs |-> Kind[j] \in {"plan", "unknown"}][stream[m]]
    BY <1>1 DEF Parses
  <1>4. Ledger!Bury
    BY <1>2, <1>3 DEF Ledger!Bury, streamVars
  <1> QED BY <1>4 DEF Ledger!Next

\* XREADGROUP extends the delivered prefix and settles nothing.
LEMMA LedgerDelivers ==
  ASSUME TypeOK, NEW p \in Processors, Consume(p)
  PROVE  Ledger!Next
  <1>1. cursor' \in Fresh /\ pel' = pel \union Fresh /\ \A m \in Fresh : m <= cursor'
    BY DEF Consume
  <1>2. cursor \in Nat /\ Len(stream) \in Nat /\ cursor' \in MsgIds /\ cursor < cursor'
        /\ cursor' <= Len(stream) /\ cursor' <= cursor + BatchSize
    BY <1>1 DEF Fresh, TypeOK, Shape
  <1>3. \A m \in MsgIds : m \in Fresh <=> cursor < m /\ m <= cursor'
    BY <1>1, <1>2 DEF Fresh
  <1>4. \A m \in 1..cursor' : m \in MsgIds /\ (m \in 1..cursor <=> ~(cursor < m /\ m <= cursor'))
    BY <1>2
  <1>5. (1..cursor') \ pel' = (1..cursor) \ pel
    <2>1. 1..cursor \subseteq 1..cursor'
      BY <1>2
    <2> QED BY <1>1, <1>3, <1>4, <2>1
  <1>6. UNCHANGED <<stream, succeeded, Dead>>
    BY DEF Consume, workVars, dlqVars, Dead
  <1>7. Ledger!Deliver
    BY <1>2, <1>5, <1>6 DEF Ledger!Deliver
  <1> QED BY <1>7 DEF Ledger!Next

LEMMA LedgerStep ==
  ASSUME TypeOK, AckJustified, [Next]_vars, Faults \intersect {"range", "dlqAdd"} = {}
  PROVE  [Ledger!Next]_(Ledger!vars)
  <1> DEFINE Kept == UNCHANGED <<stream, cursor, pel, succeeded, dlqLen, dlqMsg>>
  <1>1. CASE Kept
    BY <1>1, LedgerStutters
  <1>2. ASSUME NEW j \in Jobs, stream' = Append(stream, j), UNCHANGED <<cursor, pel, succeeded, dlqLen, dlqMsg>>
        PROVE  Ledger!Next
    BY <1>2 DEF Ledger!Next, Ledger!Publish, Dead
  <1>3. ASSUME NEW p \in Processors, ConsumeLoop(p) PROVE [Ledger!Next]_(Ledger!vars)
    <2>1. CASE Consume(p)
      BY <2>1, LedgerDelivers
    <2>2. ASSUME NEW m \in batch[p], SkipInvalid(p, m) PROVE [Ledger!Next]_(Ledger!vars)
      <3>1. m \in 1..cursor /\ ~Parses(m) /\ AckOrFail(m) /\ UNCHANGED <<succeeded, dlqLen, dlqMsg>>
        BY <2>2 DEF SkipInvalid, TypeOK, Delivered, dlqVars, workVars
      <3> QED BY <3>1, LedgerSettles
    <2>3. ASSUME NEW m \in batch[p], Send(p, m) PROVE Kept
      BY <2>3 DEF Send, streamVars, dlqVars, workVars
    <2> QED BY <1>1, <1>3, <2>1, <2>2, <2>3 DEF ConsumeLoop
  <1>4. ASSUME NEW p \in Processors, ClaimLoop(p) PROVE [Ledger!Next]_(Ledger!vars)
    <2>1. bury[p] \subseteq 1..cursor /\ bury[p] \subseteq MsgIds
      BY DEF TypeOK, Delivered, Shape
    <2>2. ASSUME NEW m \in bury[p], BuryDrop(p, m) PROVE [Ledger!Next]_(Ledger!vars)
      <3>1. m \in 1..cursor /\ ~Parses(m) /\ AckOrFail(m) /\ UNCHANGED <<succeeded, dlqLen, dlqMsg>>
        BY <2>1, <2>2 DEF BuryDrop, dlqVars, workVars
      <3> QED BY <3>1, LedgerSettles
    <2>3. ASSUME NEW m \in bury[p], BuryAck(p, m) PROVE [Ledger!Next]_(Ledger!vars)
      <3>1. m \in 1..cursor /\ m \in Dead /\ AckOrFail(m) /\ UNCHANGED <<succeeded, dlqLen, dlqMsg>>
        BY <2>1, <2>3 DEF BuryAck, AckJustified, dlqVars, workVars
      <3> QED BY <3>1, LedgerSettles
    <2>4. ASSUME NEW m \in bury[p], BuryAdd(p, m) PROVE [Ledger!Next]_(Ledger!vars)
      <3>1. m \in 1..cursor /\ Parses(m) /\ AddToDLQ(m) /\ UNCHANGED <<streamVars, succeeded>>
        BY <2>1, <2>4 DEF BuryAdd, workVars
      <3> QED BY <3>1, LedgerBuries
    <2>5. ASSUME ~(\E m \in bury[p] : BuryDrop(p, m) \/ BuryAdd(p, m) \/ BuryAck(p, m)) PROVE Kept
      BY <1>4, <2>5 DEF ClaimLoop, Inspect, Claim, ClaimFails, Resend, EndPass, streamVars, dlqVars, workVars
    <2> QED BY <1>1, <2>2, <2>3, <2>4, <2>5
  <1>5. ASSUME NEW p \in Processors, NEW w \in Workers, Work(p, w) PROVE [Ledger!Next]_(Ledger!vars)
    <2> DEFINE m == worker[<<p, w>>].msg
    <2>1. <<p, w>> \in Threads
      BY DEF Threads
    <2>2. worker[<<p, w>>].pc # "take" => m \in 1..cursor
      BY <2>1 DEF TypeOK, Delivered
    <2>3. CASE Finish(p, w)
      <3>1. /\ m \in 1..cursor /\ Kind[stream[m]] = "plan" /\ succeeded' = succeeded \union {m}
            /\ UNCHANGED <<stream, cursor, pel, dlqLen, dlqMsg>>
        BY <2>2, <2>3 DEF Finish, streamVars, dlqVars
      <3> HIDE DEF m
      <3>2. stream[m] \in Jobs
        BY <3>1 DEF TypeOK, Shape, Sizes
      <3>3. Ledger!Succeed
        BY <3>1, <3>2 DEF Ledger!Succeed, Dead
      <3> QED BY <3>3 DEF Ledger!Next
    <2>4. CASE AckDone(p, w)
      <3>1. /\ m \in 1..cursor /\ m \in succeeded /\ AckOrFail(m)
            /\ UNCHANGED <<succeeded, dlqLen, dlqMsg>>
        BY <2>1, <2>2, <2>4 DEF AckDone, AckJustified, dlqVars
      <3> HIDE DEF m
      <3> QED BY <3>1, LedgerSettles
    <2>5. CASE Take(p, w) \/ Fail(p, w)
      <3>1. Kept
        BY <2>5 DEF Take, Fail, streamVars, dlqVars
      <3> QED BY <1>1, <3>1
    <2> QED BY <1>5, <2>3, <2>4, <2>5 DEF Work
  <1>6. ASSUME NEW o \in Operators, Api(o) PROVE [Ledger!Next]_(Ledger!vars)
    <2>1. CASE RetryPublish(o)
      <3> DEFINE j == stream[dlqMsg[op[o].entry]]
      <3>1. op[o].entry \in 1..dlqLen /\ op[o].entry \in Entries
        BY <2>1 DEF RetryPublish, TypeOK, Delivered, Shape
      <3>2. dlqMsg[op[o].entry] \in 1..cursor
        BY <3>1 DEF TypeOK, Delivered
      <3>3. j \in Jobs
        BY <3>2 DEF TypeOK, Shape, Sizes
      <3>4. stream' = Append(stream, j) /\ UNCHANGED <<cursor, pel, succeeded, dlqLen, dlqMsg>>
        BY <2>1 DEF RetryPublish, workVars
      <3> QED BY <1>2, <3>3, <3>4
    <2>2. CASE ~RetryPublish(o)
      <3>1. Kept
        BY <1>6, <2>2 DEF Api, RetryGet, RetryDelete, RetryFails, streamVars, workVars
      <3> QED BY <1>1, <3>1
    <2> QED BY <2>1, <2>2
  <1>7. ASSUME NEW j \in Jobs, Publish(j) PROVE Ledger!Next
    BY <1>2, <1>7 DEF Publish, dlqVars, workVars
  <1>8. ASSUME \/ \E m \in pel : BecomeStale(m)
               \/ \E p \in Processors : Crash(p)
               \/ \E e \in dlq : DeleteEntry(e)
               \/ Quiescent
               \/ UNCHANGED vars
        PROVE  Kept
    BY <1>8 DEF BecomeStale, Crash, DeleteEntry, Quiescent, streamVars, dlqVars, workVars, vars
  <1> QED BY <1>1, <1>3, <1>4, <1>5, <1>6, <1>7, <1>8 DEF Next

\* The queue implements the ledger it promises its publishers: every step of a
\* Processor, an operator or Redis publishes, delivers, succeeds, buries or
\* settles one message with a reason to, or is not seen.  As in NoJobIsLost the
\* reads and writes of moveToDLQ are answered.
THEOREM QueueKeepsLedger ==
  ASSUME Faults \intersect {"range", "dlqAdd"} = {}
  PROVE  Spec => LedgerSpec
  <1>1. Init => Ledger!Init /\ AckJustified
    <2>1. Init => AckJustified
      BY DEF Init, AckJustified, Idle
    <2>2. Init => Ledger!Init
      BY DEF Init, Ledger!Init, Dead
    <2> QED BY <2>1, <2>2
  <1>2. TypeOK /\ AckJustified /\ [Next]_vars => TypeOK' /\ AckJustified' /\ [Ledger!Next]_(Ledger!vars)
    BY TypeOKStep, AckJustifiedStep, LedgerStep
  <1> QED BY <1>1, <1>2, InitTypeOK, PTL DEF Spec, LedgerSpec, Ledger!Spec

-----------------------------------------------------------------------------
(* Every run is paid for *)

\* The three places InTransit counts.
InBatch(m) == {p \in Processors : m \in batch[p]}
InPass(m) == {p \in Processors : loop[p] = "send" /\ m \in reclaim[p]}
InChannel(m) == {c \in Processors \X (1..ChanCap) :
                    c[2] <= Len(jobsCh[c[1]]) /\ jobsCh[c[1]][c[2]] = m}
Paid(m) == attempts[m] + InTransit(m) <= deliveries[m]

\* Redis counts no delivery ahead of the cursor, so nothing there can have run.
NoneAhead == \A m \in MsgIds : m > cursor => deliveries[m] = 0

\* A copy moved or taken leaves the account as it was.
LEMMA Traded ==
  ASSUME NEW a \in Nat, NEW b \in Nat, NEW r \in Nat, NEW c \in Nat, NEW d \in Nat,
         NEW a1 \in Nat, NEW b1 \in Nat, NEW r1 \in Nat, NEW c1 \in Nat, NEW d1 \in Nat, d1 = d,
         \/ b1 + 1 <= b /\ r1 <= r /\ c1 <= c + 1 /\ a1 = a
         \/ b1 <= b /\ r1 + 1 <= r /\ c1 <= c + 1 /\ a1 = a
         \/ b1 <= b /\ r1 <= r /\ c1 + 1 <= c /\ a1 = a + 1
  PROVE  a1 + b1 + r1 + c1 + d <= a + b + r + c + d1
  OBVIOUS

LEMMA PlacesFinite ==
  ASSUME NEW m
  PROVE  /\ IsFiniteSet(InBatch(m)) /\ Cardinality(InBatch(m)) \in Nat
         /\ IsFiniteSet(InPass(m)) /\ Cardinality(InPass(m)) \in Nat
         /\ IsFiniteSet(InChannel(m)) /\ Cardinality(InChannel(m)) \in Nat
         /\ InTransit(m) = Cardinality(InBatch(m)) + Cardinality(InPass(m)) + Cardinality(InChannel(m))
  <1>1. IsFiniteSet(Processors)
    OBVIOUS
  <1>2. InBatch(m) \in SUBSET Processors /\ InPass(m) \in SUBSET Processors
    BY DEF InBatch, InPass
  <1>3. IsFiniteSet(Processors \X (1..ChanCap))
    <2>1. IsFiniteSet(1..ChanCap)
      BY FS_Interval
    <2> QED BY <1>1, <2>1, FS_Product
  <1>4. InChannel(m) \in SUBSET (Processors \X (1..ChanCap))
    BY DEF InChannel
  <1>5. IsFiniteSet(InBatch(m)) /\ IsFiniteSet(InPass(m)) /\ IsFiniteSet(InChannel(m))
    BY <1>1, <1>2, <1>3, <1>4, FS_Subset
  <1> QED BY <1>5, FS_CardinalityType DEF InTransit, InBatch, InPass, InChannel

LEMMA PlacesFinitePrime ==
  ASSUME NEW m
  PROVE  /\ IsFiniteSet(InBatch(m)') /\ Cardinality(InBatch(m)') \in Nat
         /\ IsFiniteSet(InPass(m)') /\ Cardinality(InPass(m)') \in Nat
         /\ IsFiniteSet(InChannel(m)') /\ Cardinality(InChannel(m)') \in Nat
         /\ InTransit(m)' = Cardinality(InBatch(m)') + Cardinality(InPass(m)') + Cardinality(InChannel(m)')
  <1>1. IsFiniteSet(Processors)
    OBVIOUS
  <1>2. InBatch(m)' \in SUBSET Processors /\ InPass(m)' \in SUBSET Processors
    BY DEF InBatch, InPass
  <1>3. IsFiniteSet(Processors \X (1..ChanCap))
    <2>1. IsFiniteSet(1..ChanCap)
      BY FS_Interval
    <2> QED BY <1>1, <2>1, FS_Product
  <1>4. InChannel(m)' \in SUBSET (Processors \X (1..ChanCap))
    BY DEF InChannel
  <1>5. IsFiniteSet(InBatch(m)') /\ IsFiniteSet(InPass(m)') /\ IsFiniteSet(InChannel(m)')
    BY <1>1, <1>2, <1>3, <1>4, FS_Subset
  <1> QED BY <1>5, FS_CardinalityType DEF InTransit, InBatch, InPass, InChannel

\* What is started and carried grows by no more than what Redis counts.
LEMMA PaidAgain ==
  ASSUME TypeOK, TypeOK', NEW m \in MsgIds, Paid(m),
         attempts'[m] + Cardinality(InBatch(m)') + Cardinality(InPass(m)') + Cardinality(InChannel(m)')
           + deliveries[m]
         <= attempts[m] + Cardinality(InBatch(m)) + Cardinality(InPass(m)) + Cardinality(InChannel(m))
           + deliveries'[m]
  PROVE  Paid(m)'
  <1>1. attempts[m] \in Nat /\ attempts'[m] \in Nat /\ deliveries[m] \in Nat /\ deliveries'[m] \in Nat
    BY DEF TypeOK, Shape
  <1> QED BY <1>1, PlacesFinite, PlacesFinitePrime DEF Paid

\* A set of copies that keeps, gains or loses an element.
LEMMA Counted ==
  ASSUME NEW S, IsFiniteSet(S), NEW T, NEW x
  PROVE  /\ T \subseteq S => Cardinality(T) <= Cardinality(S)
         /\ T \subseteq S \union {x} => Cardinality(T) <= Cardinality(S) + 1
         /\ T \subseteq S \ {x} /\ x \in S => Cardinality(T) + 1 <= Cardinality(S)
  <1>1. /\ IsFiniteSet(S \union {x}) /\ IsFiniteSet(S \ {x})
        /\ Cardinality(S) \in Nat
        /\ Cardinality(S \union {x}) = IF x \in S THEN Cardinality(S) ELSE Cardinality(S) + 1
        /\ Cardinality(S \ {x}) = IF x \in S THEN Cardinality(S) - 1 ELSE Cardinality(S)
    BY FS_AddElement, FS_RemoveElement, FS_CardinalityType
  <1>2. T \subseteq S => Cardinality(T) <= Cardinality(S) /\ Cardinality(T) \in Nat
    BY FS_Subset, FS_CardinalityType
  <1>3. T \subseteq S \union {x} => Cardinality(T) <= Cardinality(S \union {x}) /\ Cardinality(T) \in Nat
    BY <1>1, FS_Subset, FS_CardinalityType
  <1>4. T \subseteq S \ {x} => Cardinality(T) <= Cardinality(S \ {x}) /\ Cardinality(T) \in Nat
    BY <1>1, FS_Subset, FS_CardinalityType
  <1> QED BY <1>1, <1>2, <1>3, <1>4

\* A step that delivers and starts nothing, and only moves copies out of a place.
LEMMA PaidKept ==
  ASSUME TypeOK, TypeOK', NEW m \in MsgIds, Paid(m),
         InBatch(m)' \subseteq InBatch(m), InPass(m)' \subseteq InPass(m),
         InChannel(m)' \subseteq InChannel(m),
         attempts'[m] = attempts[m], deliveries'[m] >= deliveries[m]
  PROVE  Paid(m)'
  <1>1. attempts[m] \in Nat /\ deliveries[m] \in Nat /\ deliveries'[m] \in Nat
    BY DEF TypeOK, Shape
  <1>2. /\ Cardinality(InBatch(m)') <= Cardinality(InBatch(m))
        /\ Cardinality(InPass(m)') <= Cardinality(InPass(m))
        /\ Cardinality(InChannel(m)') <= Cardinality(InChannel(m))
    BY Counted, PlacesFinite
  <1> QED BY <1>1, <1>2, PlacesFinite, PlacesFinitePrime, PaidAgain

\* A send puts one copy of n into the channel.
LEMMA ChannelGains ==
  ASSUME TypeOK, NEW p \in Processors, NEW n \in MsgIds, jobsCh' = [jobsCh EXCEPT ![p] = Append(@, n)]
  PROVE  \A m \in MsgIds :
           /\ InChannel(m)' \subseteq InChannel(m) \union {<<p, Len(jobsCh[p]) + 1>>}
           /\ m # n => InChannel(m)' \subseteq InChannel(m)
  <1> SUFFICES ASSUME NEW m \in MsgIds, NEW c \in InChannel(m)'
               PROVE  c \in InChannel(m) \/ (m = n /\ c = <<p, Len(jobsCh[p]) + 1>>)
    OBVIOUS
  <1>1. jobsCh[p] \in Seq(MsgIds) /\ jobsCh'[p] = Append(jobsCh[p], n)
        /\ \A q \in Processors : q # p => jobsCh'[q] = jobsCh[q]
    BY DEF TypeOK, Shape
  <1>2. /\ Len(jobsCh'[p]) = Len(jobsCh[p]) + 1 /\ Len(jobsCh[p]) \in Nat
        /\ \A i \in 1..Len(jobsCh[p]) : jobsCh'[p][i] = jobsCh[p][i]
        /\ jobsCh'[p][Len(jobsCh[p]) + 1] = n
    BY <1>1
  <1>3. c \in Processors \X (1..ChanCap) /\ c[2] <= Len(jobsCh'[c[1]]) /\ jobsCh'[c[1]][c[2]] = m
    BY DEF InChannel
  <1>4. c[1] \in Processors /\ c[2] \in 1..ChanCap /\ c = <<c[1], c[2]>>
    BY <1>3
  <1>5. CASE c[1] # p
    BY <1>1, <1>3, <1>4, <1>5 DEF InChannel
  <1>6. CASE c[1] = p /\ c[2] <= Len(jobsCh[p])
    BY <1>2, <1>3, <1>4, <1>6 DEF InChannel
  <1>7. CASE c[1] = p /\ c[2] > Len(jobsCh[p])
    <2>1. c[2] = Len(jobsCh[p]) + 1
      BY <1>2, <1>3, <1>4, <1>7
    <2> QED BY <1>2, <1>3, <1>4, <1>7, <2>1
  <1> QED BY <1>4, <1>5, <1>6, <1>7, <1>2

\* A receive takes one copy of the head out of it.
LEMMA ChannelLoses ==
  ASSUME TypeOK, NEW p \in Processors, jobsCh[p] # <<>>, jobsCh' = [jobsCh EXCEPT ![p] = Tail(@)]
  PROVE  \A m \in MsgIds :
           /\ Cardinality(InChannel(m)') <= Cardinality(InChannel(m))
           /\ m = Head(jobsCh[p]) => Cardinality(InChannel(m)') + 1 <= Cardinality(InChannel(m))
  <1> SUFFICES ASSUME NEW m \in MsgIds
               PROVE  /\ Cardinality(InChannel(m)') <= Cardinality(InChannel(m))
                      /\ m = Head(jobsCh[p]) =>
                           Cardinality(InChannel(m)') + 1 <= Cardinality(InChannel(m))
    OBVIOUS
  <1> DEFINE T == InChannel(m) \ {<<p, 1>>}
             f == [c \in InChannel(m)' |-> IF c[1] = p THEN <<p, c[2] + 1>> ELSE c]
  <1>1. jobsCh[p] \in Seq(MsgIds) /\ jobsCh'[p] = Tail(jobsCh[p])
        /\ \A q \in Processors : q # p => jobsCh'[q] = jobsCh[q]
    BY DEF TypeOK, Shape
  <1>2. /\ Len(jobsCh'[p]) = Len(jobsCh[p]) - 1 /\ Len(jobsCh[p]) \in Nat /\ Len(jobsCh[p]) >= 1
        /\ \A i \in 1..(Len(jobsCh[p]) - 1) : jobsCh'[p][i] = jobsCh[p][i + 1]
        /\ Head(jobsCh[p]) = jobsCh[p][1]
    <2>1. Len(Tail(jobsCh[p])) = Len(jobsCh[p]) - 1 /\ Len(jobsCh[p]) \in Nat /\ 1 \in 1..Len(jobsCh[p])
          /\ Head(jobsCh[p]) = jobsCh[p][1]
      BY <1>1, ChannelReceive
    <2>2. \A i \in 1..Len(Tail(jobsCh[p])) : Tail(jobsCh[p])[i] = jobsCh[p][i + 1]
      BY <1>1, ChannelReceive
    <2>3. \A i \in 1..(Len(jobsCh[p]) - 1) : jobsCh'[p][i] = jobsCh[p][i + 1]
      <3>1. 1..(Len(jobsCh[p]) - 1) = 1..Len(Tail(jobsCh[p]))
        BY <2>1
      <3> QED BY <1>1, <2>2, <3>1
    <2>4. \A n \in Nat : 1 \in 1..n => n >= 1
      OBVIOUS
    <2>5. Len(jobsCh[p]) >= 1 /\ Len(jobsCh'[p]) = Len(jobsCh[p]) - 1
      BY <1>1, <2>1, <2>4, Zenon
    <2> QED BY <2>1, <2>3, <2>5, Zenon
  <1>3. Len(jobsCh[p]) <= ChanCap
    BY DEF TypeOK, Sizes
  <1>4. ASSUME NEW c \in InChannel(m)'
        PROVE  /\ c[1] \in Processors /\ c[2] \in 1..ChanCap /\ c = <<c[1], c[2]>>
               /\ c[1] = p => <<p, c[2] + 1>> \in T
               /\ c[1] # p => c \in T
    <2>1. c \in Processors \X (1..ChanCap) /\ c[2] <= Len(jobsCh'[c[1]]) /\ jobsCh'[c[1]][c[2]] = m
      BY DEF InChannel
    <2>2. c[1] \in Processors /\ c[2] \in 1..ChanCap /\ c = <<c[1], c[2]>>
      BY <2>1
    <2>3. CASE c[1] = p
      <3>1. c[2] \in 1..(Len(jobsCh[p]) - 1) /\ c[2] + 1 \in 1..ChanCap /\ c[2] + 1 <= Len(jobsCh[p])
            /\ c[2] + 1 # 1
        BY <1>2, <1>3, <2>1, <2>2, <2>3
      <3>2. jobsCh[p][c[2] + 1] = m
        BY <1>2, <2>1, <2>3, <3>1
      <3> QED BY <2>2, <2>3, <3>1, <3>2 DEF InChannel
    <2>4. CASE c[1] # p
      BY <1>1, <2>1, <2>2, <2>4 DEF InChannel
    <2> QED BY <2>2, <2>3, <2>4
  <1> HIDE DEF T
  <1>5. f \in [InChannel(m)' -> T]
    BY <1>4
  <1>6. ASSUME NEW c \in InChannel(m)', NEW d \in InChannel(m)', f[c] = f[d] PROVE c = d
    <2> DEFINE up(e) == IF e[1] = p THEN <<p, e[2] + 1>> ELSE e
    <2>1. f[c] = up(c) /\ f[d] = up(d)
      OBVIOUS
    <2> HIDE DEF f
    <2>2. /\ c[1] \in Processors /\ c[2] \in 1..ChanCap /\ c = <<c[1], c[2]>>
          /\ d[1] \in Processors /\ d[2] \in 1..ChanCap /\ d = <<d[1], d[2]>>
      BY <1>4
    <2>3. PICK c1, c2, d1, d2 : /\ c2 \in Int /\ d2 \in Int
                                /\ c1 = c[1] /\ d1 = d[1] /\ c2 = c[2] /\ d2 = d[2]
                                /\ c = <<c1, c2>> /\ d = <<d1, d2>>
      BY <2>2
    <2>4. up(c) = <<c1, IF c1 = p THEN c2 + 1 ELSE c2>>
      BY <2>3
    <2>5. up(d) = <<d1, IF d1 = p THEN d2 + 1 ELSE d2>>
      BY <2>3
    <2> HIDE DEF up
    <2>6. <<c1, IF c1 = p THEN c2 + 1 ELSE c2>> = <<d1, IF d1 = p THEN d2 + 1 ELSE d2>>
      BY <1>6, <2>1, <2>4, <2>5, Zenon
    <2>7. c1 = d1 /\ c2 = d2
      BY <2>3, <2>6
    <2> QED BY <2>3, <2>7
  <1>7. f \in Injection(InChannel(m)', T)
    <2> HIDE DEF f
    <2> QED BY <1>5, <1>6 DEF Injection, IsInjective
  <1> HIDE DEF f
  <1>8. /\ IsFiniteSet(T) /\ Cardinality(T) \in Nat /\ Cardinality(InChannel(m)) \in Nat
        /\ Cardinality(T) <= Cardinality(InChannel(m))
        /\ <<p, 1>> \in InChannel(m) => Cardinality(T) + 1 <= Cardinality(InChannel(m))
    <2> DEFINE x == <<p, 1>>
    <2>1. T = InChannel(m) \ {x}
      BY DEF T
    <2> HIDE DEF x
    <2>2. T \subseteq InChannel(m) /\ T \subseteq InChannel(m) \ {x} /\ IsFiniteSet(InChannel(m))
          /\ Cardinality(InChannel(m)) \in Nat
      BY <2>1, PlacesFinite
    <2>3. IsFiniteSet(T) /\ Cardinality(T) \in Nat
      BY <2>2, FS_Subset, FS_CardinalityType
    <2>4. /\ Cardinality(T) <= Cardinality(InChannel(m))
          /\ x \in InChannel(m) => Cardinality(T) + 1 <= Cardinality(InChannel(m))
      BY <2>2, Counted
    <2> QED BY <2>2, <2>3, <2>4 DEF x
  <1>9. Cardinality(InChannel(m)') <= Cardinality(T) /\ Cardinality(InChannel(m)') \in Nat
    BY <1>7, <1>8, FS_Injection, PlacesFinitePrime
  <1>10. m = Head(jobsCh[p]) => <<p, 1>> \in InChannel(m)
    BY <1>2, <1>3 DEF InChannel
  <1> QED BY <1>8, <1>9, <1>10

LEMMA PaidConsume ==
  ASSUME TypeOK, TypeOK', NoneAhead, NEW p \in Processors, Consume(p), NEW m \in MsgIds, Paid(m)
  PROVE  Paid(m)'
  <1>1. InPass(m)' = InPass(m) /\ InChannel(m)' = InChannel(m) /\ attempts' = attempts
    BY DEF Consume, loopVars, workVars, InPass, InChannel
  <1>2. \A q \in Processors : q # p => batch'[q] = batch[q]
    BY DEF Consume, TypeOK, Shape
  <1>3. CASE m \in Fresh
    <2>1. deliveries'[m] = 1 /\ deliveries[m] = 0 /\ attempts[m] \in Nat
      BY <1>3 DEF Consume, Fresh, NoneAhead, TypeOK, Shape
    <2>2. /\ attempts[m] = 0 /\ Cardinality(InBatch(m)) = 0
          /\ Cardinality(InPass(m)) = 0 /\ Cardinality(InChannel(m)) = 0
      BY <2>1, PlacesFinite DEF Paid
    <2>3. InBatch(m)' \subseteq InBatch(m) \union {p}
      BY <1>2 DEF InBatch
    <2>4. Cardinality(InBatch(m)') <= Cardinality(InBatch(m)) + 1
      BY <2>3, Counted, PlacesFinite
    <2>5. attempts'[m] = 0 /\ Cardinality(InPass(m)') = 0 /\ Cardinality(InChannel(m)') = 0
      BY <1>1, <2>2
    <2>6. Cardinality(InBatch(m)') <= 1 /\ Cardinality(InBatch(m)') \in Nat
      BY <2>2, <2>4, PlacesFinitePrime
    <2>7. InTransit(m)' <= 1 /\ InTransit(m)' \in Nat
      BY <2>5, <2>6, PlacesFinitePrime
    <2> QED BY <2>1, <2>5, <2>7 DEF Paid
  <1>4. CASE m \notin Fresh
    <2>1. InBatch(m)' \subseteq InBatch(m)
      BY <1>2, <1>4 DEF Consume, InBatch, TypeOK, Shape
    <2>2. deliveries'[m] = deliveries[m] /\ deliveries[m] \in Nat
      BY <1>4 DEF Consume, TypeOK, Shape
    <2>3. deliveries'[m] >= deliveries[m]
      BY <2>2
    <2> QED BY <1>1, <2>1, <2>3, PaidKept
  <1> QED BY <1>3, <1>4

\* A copy goes from the batch, or from a pass of the claim loop, to the channel.
LEMMA PaidSend ==
  ASSUME TypeOK, TypeOK', NEW p \in Processors, NEW n \in MsgIds, NEW m \in MsgIds, Paid(m),
         jobsCh' = [jobsCh EXCEPT ![p] = Append(@, n)], UNCHANGED <<attempts, deliveries>>,
         \/ /\ InPass(m)' \subseteq InPass(m)
            /\ IF m = n THEN p \in InBatch(m) /\ InBatch(m)' \subseteq InBatch(m) \ {p}
               ELSE InBatch(m)' \subseteq InBatch(m)
         \/ /\ InBatch(m)' \subseteq InBatch(m)
            /\ IF m = n THEN p \in InPass(m) /\ InPass(m)' \subseteq InPass(m) \ {p}
               ELSE InPass(m)' \subseteq InPass(m)
  PROVE  Paid(m)'
  <1>1. /\ InChannel(m)' \subseteq InChannel(m) \union {<<p, Len(jobsCh[p]) + 1>>}
        /\ m # n => InChannel(m)' \subseteq InChannel(m)
    BY ChannelGains
  <1>2. attempts[m] \in Nat /\ deliveries[m] \in Nat
    BY DEF TypeOK, Shape
  <1>3. CASE m # n
    <2>1. InBatch(m)' \subseteq InBatch(m) /\ InPass(m)' \subseteq InPass(m)
      BY <1>3
    <2>2. attempts'[m] = attempts[m] /\ deliveries'[m] >= deliveries[m]
      BY <1>2
    <2> QED BY <1>1, <1>3, <2>1, <2>2, PaidKept
  <1>4. CASE m = n
    <2>1. Cardinality(InChannel(m)') <= Cardinality(InChannel(m)) + 1
      <3> DEFINE x == <<p, Len(jobsCh[p]) + 1>>
      <3>1. InChannel(m)' \subseteq InChannel(m) \union {x} /\ IsFiniteSet(InChannel(m))
        BY <1>1, PlacesFinite
      <3> HIDE DEF x
      <3> QED BY <3>1, Counted
    <2>2. CASE p \in InBatch(m) /\ InBatch(m)' \subseteq InBatch(m) \ {p} /\ InPass(m)' \subseteq InPass(m)
      <3>1. /\ Cardinality(InBatch(m)') + 1 <= Cardinality(InBatch(m))
            /\ Cardinality(InPass(m)') <= Cardinality(InPass(m))
        BY <2>2, Counted, PlacesFinite
      <3>2. attempts'[m] + Cardinality(InBatch(m)') + Cardinality(InPass(m)') + Cardinality(InChannel(m)')
              + deliveries[m]
            <= attempts[m] + Cardinality(InBatch(m)) + Cardinality(InPass(m)) + Cardinality(InChannel(m))
              + deliveries'[m]
        <4>1. /\ Cardinality(InBatch(m)) \in Nat /\ Cardinality(InBatch(m)') \in Nat
              /\ Cardinality(InPass(m)) \in Nat /\ Cardinality(InPass(m)') \in Nat
              /\ Cardinality(InChannel(m)) \in Nat /\ Cardinality(InChannel(m)') \in Nat
          BY PlacesFinite, PlacesFinitePrime
        <4>2. attempts'[m] = attempts[m] /\ deliveries'[m] = deliveries[m]
          OBVIOUS
        <4>3. attempts'[m] \in Nat /\ deliveries'[m] \in Nat
          BY <1>2, <4>2, Zenon
        <4> QED BY <1>2, <2>1, <3>1, <4>1, <4>2, <4>3, Traded, Zenon
      <3> QED BY <3>2, PaidAgain
    <2>3. CASE p \in InPass(m) /\ InPass(m)' \subseteq InPass(m) \ {p} /\ InBatch(m)' \subseteq InBatch(m)
      <3>1. /\ Cardinality(InBatch(m)') <= Cardinality(InBatch(m))
            /\ Cardinality(InPass(m)') + 1 <= Cardinality(InPass(m))
        BY <2>3, Counted, PlacesFinite
      <3>2. attempts'[m] + Cardinality(InBatch(m)') + Cardinality(InPass(m)') + Cardinality(InChannel(m)')
              + deliveries[m]
            <= attempts[m] + Cardinality(InBatch(m)) + Cardinality(InPass(m)) + Cardinality(InChannel(m))
              + deliveries'[m]
        <4>1. /\ Cardinality(InBatch(m)) \in Nat /\ Cardinality(InBatch(m)') \in Nat
              /\ Cardinality(InPass(m)) \in Nat /\ Cardinality(InPass(m)') \in Nat
              /\ Cardinality(InChannel(m)) \in Nat /\ Cardinality(InChannel(m)') \in Nat
          BY PlacesFinite, PlacesFinitePrime
        <4>2. attempts'[m] = attempts[m] /\ deliveries'[m] = deliveries[m]
          OBVIOUS
        <4>3. attempts'[m] \in Nat /\ deliveries'[m] \in Nat
          BY <1>2, <4>2, Zenon
        <4> QED BY <1>2, <2>1, <3>1, <4>1, <4>2, <4>3, Traded, Zenon
      <3> QED BY <3>2, PaidAgain
    <2> QED BY <1>4, <2>2, <2>3
  <1> QED BY <1>3, <1>4

LEMMA PaidClaim ==
  ASSUME TypeOK, TypeOK', NEW p \in Processors, Claim(p), NEW m \in MsgIds, Paid(m)
  PROVE  Paid(m)'
  <1> DEFINE claimed == reclaim[p] \intersect pel \intersect stale
  <1>1. InBatch(m)' = InBatch(m) /\ InChannel(m)' = InChannel(m) /\ attempts' = attempts
    BY DEF Claim, workVars, InBatch, InChannel
  <1>2. \A q \in Processors : q # p => loop'[q] = loop[q] /\ reclaim'[q] = reclaim[q]
    BY DEF Claim, TypeOK, Shape
  <1>3. attempts[m] \in Nat /\ deliveries[m] \in Nat
    BY DEF TypeOK, Shape
  <1>4. CASE m \in claimed
    <2>1. deliveries'[m] = deliveries[m] + 1
      BY <1>4 DEF Claim
    <2>2. InPass(m)' \subseteq InPass(m) \union {p}
      BY <1>2 DEF InPass
    <2>3. /\ Cardinality(InBatch(m)') <= Cardinality(InBatch(m))
          /\ Cardinality(InPass(m)') <= Cardinality(InPass(m)) + 1
          /\ Cardinality(InChannel(m)') <= Cardinality(InChannel(m))
      BY <1>1, <2>2, Counted, PlacesFinite
    <2> QED BY <1>1, <1>3, <2>1, <2>3, PlacesFinite, PlacesFinitePrime, PaidAgain
  <1>5. CASE m \notin claimed
    <2>1. deliveries'[m] = deliveries[m] /\ m \notin reclaim'[p]
      BY <1>5 DEF Claim, TypeOK, Shape
    <2>2. InPass(m)' \subseteq InPass(m) /\ deliveries'[m] >= deliveries[m] /\ attempts'[m] = attempts[m]
      BY <1>1, <1>2, <1>3, <2>1 DEF InPass
    <2> QED BY <1>1, <2>2, PaidKept
  <1> QED BY <1>4, <1>5

LEMMA PaidTake ==
  ASSUME TypeOK, TypeOK', NEW p \in Processors, NEW w \in Workers, Take(p, w), NEW m \in MsgIds, Paid(m)
  PROVE  Paid(m)'
  <1>1. /\ InBatch(m)' = InBatch(m) /\ InPass(m)' = InPass(m) /\ deliveries' = deliveries
        /\ jobsCh[p] # <<>> /\ jobsCh' = [jobsCh EXCEPT ![p] = Tail(@)]
    BY DEF Take, streamVars, loopVars, InBatch, InPass
  <1>2. attempts[m] \in Nat /\ deliveries[m] \in Nat
    BY DEF TypeOK, Shape
  <1>3. attempts'[m] = IF m = Head(jobsCh[p]) THEN attempts[m] + 1 ELSE attempts[m]
    BY DEF Take, TypeOK, Shape
  <1>4. /\ Cardinality(InChannel(m)') <= Cardinality(InChannel(m))
        /\ m = Head(jobsCh[p]) => Cardinality(InChannel(m)') + 1 <= Cardinality(InChannel(m))
    BY <1>1, ChannelLoses
  <1>5. /\ Cardinality(InBatch(m)') <= Cardinality(InBatch(m))
        /\ Cardinality(InPass(m)') <= Cardinality(InPass(m))
    BY <1>1, Counted, PlacesFinite
  <1>6. CASE m = Head(jobsCh[p])
    <2>1. attempts'[m] + Cardinality(InBatch(m)') + Cardinality(InPass(m)') + Cardinality(InChannel(m)')
            + deliveries[m]
          <= attempts[m] + Cardinality(InBatch(m)) + Cardinality(InPass(m)) + Cardinality(InChannel(m))
            + deliveries'[m]
      <3>1. /\ Cardinality(InBatch(m)) \in Nat /\ Cardinality(InBatch(m)') \in Nat
            /\ Cardinality(InPass(m)) \in Nat /\ Cardinality(InPass(m)') \in Nat
            /\ Cardinality(InChannel(m)) \in Nat /\ Cardinality(InChannel(m)') \in Nat
        BY PlacesFinite, PlacesFinitePrime
      <3>2. attempts'[m] = attempts[m] + 1 /\ deliveries'[m] = deliveries[m]
        BY <1>1, <1>3, <1>6, Zenon
      <3>3. attempts'[m] \in Nat /\ deliveries'[m] \in Nat
        BY DEF TypeOK, Shape
      <3> QED BY <1>2, <1>4, <1>5, <1>6, <3>1, <3>2, <3>3, Traded, Zenon
    <2> QED BY <2>1, PaidAgain
  <1>7. CASE m # Head(jobsCh[p])
    <2> QED BY <1>1, <1>2, <1>3, <1>4, <1>5, <1>7, PlacesFinite, PlacesFinitePrime, PaidAgain
  <1> QED BY <1>6, <1>7

LEMMA PaidConsumeLoop ==
  ASSUME TypeOK, TypeOK', NoneAhead, NEW p \in Processors, ConsumeLoop(p), NEW m \in MsgIds, Paid(m)
  PROVE  Paid(m)'
  <1>1. CASE Consume(p)
    BY <1>1, PaidConsume
  <1>2. ASSUME NEW n \in batch[p], SkipInvalid(p, n) \/ Send(p, n)
        PROVE  /\ batch'[p] = batch[p] \ {n} /\ \A q \in Processors : q # p => batch'[q] = batch[q]
               /\ UNCHANGED <<loop, reclaim, attempts, deliveries>> /\ n \in MsgIds
    BY <1>2 DEF SkipInvalid, Send, AckOrFail, Acked, streamVars, loopVars, workVars, TypeOK, Shape
  <1>3. ASSUME NEW n \in batch[p], SkipInvalid(p, n) PROVE Paid(m)'
    <2>1. InBatch(m)' \subseteq InBatch(m) /\ InPass(m)' = InPass(m)
      BY <1>2, <1>3 DEF InBatch, InPass
    <2>2. InChannel(m)' = InChannel(m)
      BY <1>3 DEF SkipInvalid, InChannel
    <2>3. deliveries[m] \in Nat
      BY DEF TypeOK, Shape
    <2>4. attempts'[m] = attempts[m] /\ deliveries'[m] >= deliveries[m]
      BY <1>2, <1>3, <2>3
    <2> QED BY <2>1, <2>2, <2>4, PaidKept
  <1>4. ASSUME NEW n \in batch[p], Send(p, n) PROVE Paid(m)'
    <2>1. jobsCh' = [jobsCh EXCEPT ![p] = Append(@, n)]
      BY <1>4 DEF Send
    <2>2. InPass(m)' \subseteq InPass(m)
      BY <1>2, <1>4 DEF InPass
    <2>3. IF m = n THEN p \in InBatch(m) /\ InBatch(m)' \subseteq InBatch(m) \ {p}
          ELSE InBatch(m)' \subseteq InBatch(m)
      BY <1>2, <1>4 DEF InBatch
    <2>4. n \in MsgIds /\ UNCHANGED <<attempts, deliveries>>
      BY <1>2, <1>4
    <2> QED BY <2>1, <2>2, <2>3, <2>4, PaidSend
  <1> QED BY <1>1, <1>3, <1>4 DEF ConsumeLoop

LEMMA PaidClaimLoop ==
  ASSUME TypeOK, TypeOK', NEW p \in Processors, ClaimLoop(p), NEW m \in MsgIds, Paid(m)
  PROVE  Paid(m)'
  <1>0. deliveries[m] \in Nat
    BY DEF TypeOK, Shape
  <1>1. CASE Claim(p)
    BY <1>1, PaidClaim
  <1>2. ASSUME NEW n \in reclaim[p], Resend(p, n) PROVE Paid(m)'
    <2>1. /\ loop[p] = "send" /\ reclaim'[p] = reclaim[p] \ {n}
          /\ \A q \in Processors : q # p => reclaim'[q] = reclaim[q]
          /\ UNCHANGED <<loop, batch, attempts, deliveries>> /\ n \in MsgIds
      BY <1>2 DEF Resend, streamVars, workVars, TypeOK, Shape
    <2>2. InBatch(m)' = InBatch(m)
      BY <2>1 DEF InBatch
    <2>3. IF m = n THEN p \in InPass(m) /\ InPass(m)' \subseteq InPass(m) \ {p}
          ELSE InPass(m)' \subseteq InPass(m)
      BY <1>2, <2>1 DEF InPass
    <2>4. CASE jobsCh' = [jobsCh EXCEPT ![p] = Append(@, n)]
      BY <2>1, <2>2, <2>3, <2>4, PaidSend
    <2>5. CASE jobsCh' = jobsCh
      <3>1. InChannel(m)' = InChannel(m)
        BY <2>5 DEF InChannel
      <3>2. InPass(m)' \subseteq InPass(m)
        BY <2>3
      <3>3. attempts'[m] = attempts[m] /\ deliveries'[m] >= deliveries[m]
        BY <1>0, <2>1
      <3> QED BY <2>2, <3>1, <3>2, <3>3, PaidKept
    <2> QED BY <1>2, <2>4, <2>5 DEF Resend
  <1>3. CASE ~Claim(p) /\ ~(\E n \in reclaim[p] : Resend(p, n))
    <2>1. /\ UNCHANGED <<batch, jobsCh, attempts, deliveries>>
          /\ \A q \in Processors : q # p => loop'[q] = loop[q] /\ reclaim'[q] = reclaim[q]
          /\ loop'[p] # "send"
      BY <1>3 DEF ClaimLoop, Inspect, BuryDrop, BuryAdd, BuryAck, ClaimFails, EndPass, AckOrFail, Acked,
                  streamVars, workVars, TypeOK, Shape
    <2>2. InBatch(m)' = InBatch(m) /\ InChannel(m)' = InChannel(m)
      BY <2>1 DEF InBatch, InChannel
    <2>3. InPass(m)' \subseteq InPass(m)
      BY <2>1 DEF InPass
    <2>4. attempts'[m] = attempts[m] /\ deliveries'[m] >= deliveries[m]
      BY <1>0, <2>1
    <2> QED BY <2>2, <2>3, <2>4, PaidKept
  <1> QED BY <1>1, <1>2, <1>3

LEMMA PaidStep ==
  ASSUME TypeOK, TypeOK', NoneAhead, [Next]_vars, NEW m \in MsgIds, Paid(m)
  PROVE  Paid(m)'
  <1>0. deliveries[m] \in Nat
    BY DEF TypeOK, Shape
  <1>1. CASE UNCHANGED <<batch, jobsCh, loop, reclaim, attempts, deliveries>>
    <2>1. InBatch(m)' = InBatch(m) /\ InPass(m)' = InPass(m) /\ InChannel(m)' = InChannel(m)
      BY <1>1 DEF InBatch, InPass, InChannel
    <2>2. attempts'[m] = attempts[m] /\ deliveries'[m] >= deliveries[m]
      BY <1>0, <1>1
    <2> QED BY <2>1, <2>2, PaidKept
  <1>2. ASSUME NEW p \in Processors, NEW w \in Workers, Work(p, w) PROVE Paid(m)'
    <2>1. CASE Take(p, w)
      BY <2>1, PaidTake
    <2>2. CASE ~Take(p, w)
      <3>1. UNCHANGED <<batch, jobsCh, loop, reclaim, attempts, deliveries>>
        BY <1>2, <2>2 DEF Work, Finish, Fail, AckDone, AckOrFail, Acked, streamVars, loopVars
      <3> QED BY <1>1, <3>1
    <2> QED BY <2>1, <2>2
  <1>3. ASSUME NEW p \in Processors, Crash(p) PROVE Paid(m)'
    <2>1. /\ \A q \in Processors : q # p => /\ batch'[q] = batch[q] /\ jobsCh'[q] = jobsCh[q]
                                            /\ loop'[q] = loop[q] /\ reclaim'[q] = reclaim[q]
          /\ batch'[p] = {} /\ jobsCh'[p] = <<>> /\ loop'[p] = "wait"
          /\ UNCHANGED <<attempts, deliveries>>
      BY <1>3 DEF Crash, streamVars, TypeOK, Shape
    <2>2. InBatch(m)' \subseteq InBatch(m) /\ InPass(m)' \subseteq InPass(m)
      BY <2>1 DEF InBatch, InPass
    <2>3. InChannel(m)' \subseteq InChannel(m)
      <3> SUFFICES ASSUME NEW c \in InChannel(m)' PROVE c \in InChannel(m)
        OBVIOUS
      <3>1. /\ c \in Processors \X (1..ChanCap) /\ c[1] \in Processors /\ c[2] \in 1..ChanCap
            /\ c[2] <= Len(jobsCh'[c[1]]) /\ jobsCh'[c[1]][c[2]] = m
        BY DEF InChannel
      <3>2. c[1] # p
        BY <2>1, <3>1
      <3> QED BY <2>1, <3>1, <3>2 DEF InChannel
    <2>4. attempts'[m] = attempts[m] /\ deliveries'[m] >= deliveries[m]
      BY <1>0, <2>1
    <2> QED BY <2>2, <2>3, <2>4, PaidKept
  <1>4. ASSUME NEW o \in Operators, Api(o)
        PROVE  UNCHANGED <<batch, jobsCh, loop, reclaim, attempts, deliveries>>
    BY <1>4 DEF Api, RetryGet, RetryPublish, RetryDelete, RetryFails, streamVars, loopVars, workVars
  <1>5. ASSUME \/ \E j \in Jobs : Publish(j)
               \/ \E n \in pel : BecomeStale(n)
               \/ \E e \in dlq : DeleteEntry(e)
               \/ Quiescent
               \/ UNCHANGED vars
        PROVE  UNCHANGED <<batch, jobsCh, loop, reclaim, attempts, deliveries>>
    BY <1>5 DEF Publish, BecomeStale, DeleteEntry, Quiescent, streamVars, loopVars, workVars, vars
  <1>6. ASSUME NEW p \in Processors, ConsumeLoop(p) \/ ClaimLoop(p) PROVE Paid(m)'
    BY <1>6, PaidConsumeLoop, PaidClaimLoop
  <1> QED BY <1>1, <1>2, <1>3, <1>4, <1>5, <1>6 DEF Next

LEMMA NoneAheadStep ==
  ASSUME TypeOK, NoneAhead, [Next]_vars
  PROVE  NoneAhead'
  <1>1. CASE UNCHANGED <<cursor, deliveries>>
    BY <1>1 DEF NoneAhead
  <1>2. ASSUME NEW p \in Processors, Consume(p) PROVE NoneAhead'
    <2>1. cursor' \in Fresh /\ (\A m \in Fresh : m <= cursor')
          /\ deliveries' = [m \in MsgIds |-> IF m \in Fresh THEN 1 ELSE deliveries[m]]
      BY <1>2 DEF Consume
    <2>2. cursor \in Nat /\ cursor' \in Nat /\ cursor < cursor'
      BY <2>1 DEF Fresh, TypeOK, Shape
    <2> QED BY <2>1, <2>2 DEF NoneAhead
  <1>3. ASSUME NEW p \in Processors, Claim(p) PROVE NoneAhead'
    <2>1. cursor' = cursor /\ \A m \in MsgIds : m \notin pel => deliveries'[m] = deliveries[m]
      BY <1>3 DEF Claim
    <2>2. \A m \in MsgIds : m > cursor => m \notin pel
      BY DEF TypeOK, Delivered, Shape
    <2> QED BY <2>1, <2>2 DEF NoneAhead
  <1>4. ASSUME NEW p \in Processors, ConsumeLoop(p), ~Consume(p) PROVE UNCHANGED <<cursor, deliveries>>
    BY <1>4 DEF ConsumeLoop, SkipInvalid, Send, AckOrFail, Acked, streamVars
  <1>5. ASSUME NEW p \in Processors, ClaimLoop(p), ~Claim(p) PROVE UNCHANGED <<cursor, deliveries>>
    BY <1>5 DEF ClaimLoop, Inspect, BuryDrop, BuryAdd, BuryAck, ClaimFails, Resend, EndPass, AckOrFail,
                Acked, streamVars
  <1>6. ASSUME NEW p \in Processors, NEW w \in Workers, Work(p, w) PROVE UNCHANGED <<cursor, deliveries>>
    BY <1>6 DEF Work, Take, Finish, Fail, AckDone, AckOrFail, Acked, streamVars
  <1>7. ASSUME NEW o \in Operators, Api(o) PROVE UNCHANGED <<cursor, deliveries>>
    BY <1>7 DEF Api, RetryGet, RetryPublish, RetryDelete, RetryFails, streamVars
  <1>8. ASSUME \/ \E j \in Jobs : Publish(j)
               \/ \E m \in pel : BecomeStale(m)
               \/ \E p \in Processors : Crash(p)
               \/ \E e \in dlq : DeleteEntry(e)
               \/ Quiescent
               \/ UNCHANGED vars
        PROVE  UNCHANGED <<cursor, deliveries>>
    BY <1>8 DEF Publish, BecomeStale, Crash, DeleteEntry, Quiescent, streamVars, vars
  <1> QED BY <1>1, <1>2, <1>3, <1>4, <1>5, <1>6, <1>7, <1>8 DEF Next

\* For any number of Processors, workers and messages, and with any crashes and
\* failed calls: the starts of a job and the copies of it still on their way to a
\* worker are never more than the deliveries Redis counted for its message.
THEOREM NoFreeRuns == Spec => []RunsArePaidFor
  <1> DEFINE Inv == TypeOK /\ NoneAhead /\ RunsArePaidFor
  <1>1. Init => Inv
    <2> SUFFICES ASSUME Init PROVE NoneAhead /\ RunsArePaidFor
      BY InitTypeOK
    <2>1. NoneAhead /\ \A m \in MsgIds : attempts[m] = 0 /\ deliveries[m] = 0
      BY DEF Init, NoneAhead
    <2>2. ASSUME NEW m \in MsgIds PROVE InTransit(m) = 0
      <3>1. InBatch(m) = {} /\ InPass(m) = {}
        BY DEF Init, InBatch, InPass
      <3>2. InChannel(m) = {}
        <4>1. \A p \in Processors : Len(jobsCh[p]) = 0
          BY DEF Init
        <4> QED BY <4>1 DEF InChannel
      <3> QED BY <3>1, <3>2, PlacesFinite, FS_EmptySet
    <2> QED BY <2>1, <2>2 DEF RunsArePaidFor
  <1>2. Inv /\ [Next]_vars => Inv'
    <2> SUFFICES ASSUME Inv, [Next]_vars PROVE Inv'
      OBVIOUS
    <2>1. TypeOK' /\ NoneAhead'
      BY TypeOKStep, NoneAheadStep
    <2>2. \A m \in MsgIds : Paid(m)'
      BY <2>1, PaidStep DEF RunsArePaidFor, Paid
    <2> QED BY <2>1, <2>2 DEF RunsArePaidFor, Paid
  <1> QED BY <1>1, <1>2, PTL DEF Spec

=============================================================================

-------------------------- MODULE KernelIPCProofs --------------------------
(***************************************************************************)
(* The queues, states and counters of the IPC code agree for any number of *)
(* threads, processes and channels.                                        *)
(***************************************************************************)
EXTENDS KernelIPC, QueuesProofs

(* The inductive invariant.  Located needs RcvIDValid (reply_S unlinks a    *)
(* thread from the reply queue without looking at its state), MemLocked     *)
(* needs both, and TypeOK's natural memUse follows from MemLocked.          *)
IInv == TypeOK /\ Located /\ NoMissedMeeting /\ MemLocked /\ RcvIDValid

-----------------------------------------------------------------------------

(* Switching threads re-queues the running one and links nobody else.       *)
LEMMA SwitchKeeps ==
    ASSUME NEW rq \in Seq(Thread), Distinct(rq), NEW st, NEW tp,
           current \in Thread \cup {NullTH},
           current \in Thread /\ st[current] = "Ready" => current \in On(rq),
           DoSwitch(rq, st, tp)
    PROVE  /\ runq' \in Seq(Thread) /\ On(runq') = On(rq) /\ Distinct(runq')
           /\ current' \in Thread \cup {NullTH}
           /\ current' \in Thread => current' \in On(rq)
<1> DEFINE next == IF current # NullTH /\ st[current] = "Ready"
                   THEN Enlist(Without(rq, current), tp, current)
                   ELSE rq
<1>1. next \in Seq(Thread) /\ On(next) = On(rq) /\ Distinct(next)
  <2>1. CASE current # NullTH /\ st[current] = "Ready"
    <3>1. current \in Thread /\ current \in On(rq)
      BY <2>1
    <3>2. /\ Without(rq, current) \in Seq(Thread)
          /\ On(Without(rq, current)) = On(rq) \ {current}
          /\ Distinct(Without(rq, current))
      BY <3>1, WithoutUnlinks
    <3> DEFINE w == Without(rq, current)
    <3>3. w \in Seq(Thread) /\ Distinct(w) /\ current \notin On(w)
      BY <3>2
    <3> HIDE DEF w
    <3>4. /\ Enlist(w, tp, current) \in Seq(Thread)
          /\ On(Enlist(w, tp, current)) = On(w) \cup {current}
          /\ Distinct(Enlist(w, tp, current))
      BY <3>1, <3>3, EnlistLinks
    <3>5. next = Enlist(w, tp, current) /\ On(w) \cup {current} = On(rq)
      BY <2>1, <3>1, <3>2 DEF w
    <3>6. QED BY <3>4, <3>5
  <2>2. QED BY <2>1
<1>2. runq' = next /\ current' = IF next = << >> THEN NullTH ELSE Head(next)
  BY DEF DoSwitch
<1> HIDE DEF next
<1>3. next # << >> => Head(next) \in Thread /\ Head(next) \in On(next)
  BY <1>1, TailUnlinks
<1>4. NullTH \notin Thread
  BY ThreadAssumption
<1>5. QED BY <1>1, <1>2, <1>3, <1>4

(* tasksOn, whether it switches or not.                                    *)
LEMMA TasksOnKeeps ==
    ASSUME NEW rq \in Seq(Thread), Distinct(rq), NEW st, NEW tp, NEW req \in BOOLEAN,
           current \in Thread \cup {NullTH},
           current \in Thread /\ (~ req \/ st[current] = "Ready") => current \in On(rq),
           TasksOn(rq, st, tp, req)
    PROVE  /\ runq' \in Seq(Thread) /\ On(runq') = On(rq) /\ Distinct(runq')
           /\ current' \in Thread \cup {NullTH}
           /\ current' \in Thread => current' \in On(rq)
<1>1. CASE req
  BY <1>1, SwitchKeeps DEF TasksOn
<1>2. CASE ~ req
  BY <1>2 DEF TasksOn
<1>3. QED BY <1>1, <1>2

LEMMA InitIInv == Init => IInv
<1> SUFFICES ASSUME Init PROVE IInv
  OBVIOUS
<1> USE ThreadAssumption, PriorityAssumption
<1>1. runq \in SetToSeqs(Boot) /\ IsFiniteSet(Boot)
  BY FS_Subset DEF Init
<1>2. Cardinality(Boot) \in Nat /\ Cardinality(Boot) # 0
  BY <1>1, FS_CardinalityType, FS_EmptySet
<1>3. /\ runq \in [1..Cardinality(Boot) -> Boot]
      /\ \A i, j \in 1..Cardinality(Boot) : i # j => runq[i] # runq[j]
  BY <1>1 DEF SetToSeqs
<1>4. runq \in Seq(Boot) /\ runq \in Seq(Thread) /\ Len(runq) = Cardinality(Boot) /\ runq # << >>
  BY <1>2, <1>3
<1>5. Distinct(runq)
  BY <1>3 DEF Distinct
<1>6. On(runq) = Boot
  <2>1. runq \in Injection(1..Cardinality(Boot), Boot)
    BY <1>3 DEF Injection, IsInjective
  <2>2. runq \in Surjection(1..Cardinality(Boot), Boot)
    BY <2>1, <1>1, <1>2, FS_Injection, FS_Interval
  <2>3. QED BY <2>2, <1>3 DEF Surjection, On, ToSet
<1>7. current \in Boot /\ state = [t \in Thread |-> IF t \in Boot THEN "Ready" ELSE "Free"]
  BY <1>4, <1>6, TailUnlinks, <1>5 DEF Init
<1>8. TypeOK
  BY <1>4, <1>7 DEF Init, TypeOK, ThState
<1>9. Located
  <2>1. On(<< >>) = {} /\ Distinct(<< >>)
    BY DEF On, ToSet, Distinct
  <2>2. On(runq) = {t \in Thread : state[t] = "Ready"}
    BY <1>6, <1>7
  <2>3. \A c \in Channel : sendq[c] = << >> /\ recvq[c] = << >> /\ replyq[c] = << >>
    BY DEF Init
  <2>4. \A st \in {"Send", "Receive", "Reply"}, c \in Channel : BlockedOn(st, c) = {}
    BY <1>7 DEF BlockedOn
  <2>5. QED BY <1>5, <1>7, <2>1, <2>2, <2>3, <2>4 DEF Located
<1>10. NoMissedMeeting
  BY DEF NoMissedMeeting, Init
<1>11. MemLocked
  <2>1. \A p \in Process : Exposed(p) = {}
    BY <1>7 DEF Exposed
  <2>2. QED BY <2>1, FS_EmptySet DEF MemLocked, Init
<1>12. RcvIDValid
  BY DEF RcvIDValid, Init
<1>13. QED BY <1>8, <1>9, <1>10, <1>11, <1>12 DEF IInv

-----------------------------------------------------------------------------
(***************************************************************************)
(* One lemma per call.                                                     *)
(***************************************************************************)

(* The running thread is on the run queue.                                 *)
LEMMA RunningReady ==
    ASSUME IInv, NEW t \in Thread, Running(t)
    PROVE  /\ current = t /\ state[t] = "Ready" /\ t \in On(runq)
           /\ \A c \in Channel : t \notin On(sendq[c]) /\ t \notin On(recvq[c])
                                /\ t \notin On(replyq[c])
BY DEF IInv, Located, Running, BlockedOn

LEMMA SendBlocksKeeps ==
    ASSUME IInv, NEW t \in Thread, NEW c \in Channel, SendBlocks(t, c)
    PROVE  IInv'
<1> USE DEF SendBlocks
<1>1. current = t /\ state[t] = "Ready" /\ t \in On(runq) /\ t \notin On(sendq[c])
  BY RunningReady
<1>2. /\ runq \in Seq(Thread) /\ Distinct(runq) /\ current \in Thread \cup {NullTH}
      /\ sendq \in [Channel -> Seq(Thread)] /\ Distinct(sendq[c])
      /\ state \in [Thread -> ThState] /\ fchan \in [Thread -> Channel \cup {NoChan}]
  BY DEF IInv, TypeOK, Located
<1>3. /\ runq' \in Seq(Thread) /\ On(runq') = On(runq) \ {t} /\ Distinct(runq')
      /\ current' \in Thread \cup {NullTH}
      /\ current' \in Thread => current' \in On(runq')
  <2>1. /\ Without(runq, t) \in Seq(Thread) /\ On(Without(runq, t)) = On(runq) \ {t}
        /\ Distinct(Without(runq, t))
    BY <1>1, <1>2, WithoutUnlinks
  <2>2. state'[current] = "Send"
    BY <1>1, <1>2
  <2>3. QED BY <1>2, <2>1, <2>2, TasksOnKeeps
<1>4. /\ Append(sendq[c], t) \in Seq(Thread)
      /\ On(Append(sendq[c], t)) = On(sendq[c]) \cup {t}
      /\ Distinct(Append(sendq[c], t))
  BY <1>1, <1>2, AppendLinks
<1>5. TypeOK'
  <2>1. state' \in [Thread -> ThState] /\ fchan' \in [Thread -> Channel \cup {NoChan}]
    BY <1>2 DEF ThState
  <2>2. sendq' \in [Channel -> Seq(Thread)]
    BY <1>2, <1>4
  <2>3. TypeOK /\ UNCHANGED <<thPrio, prio, recvq, replyq, pulses, memUse, held>>
    BY DEF IInv
  <2> HIDE DEF SendBlocks
  <2>4. QED BY <1>3, <2>1, <2>2, <2>3 DEF TypeOK
<1>6. Located'
  <2>1. On(runq') = {u \in Thread : state'[u] = "Ready"}
    BY <1>1, <1>2, <1>3 DEF IInv, Located
  <2>2. ASSUME NEW d \in Channel
        PROVE  /\ On(sendq'[d]) = BlockedOn("Send", d)' /\ Distinct(sendq'[d])
               /\ On(recvq'[d]) = BlockedOn("Receive", d)' /\ Distinct(recvq'[d])
               /\ On(replyq'[d]) = BlockedOn("Reply", d)' /\ Distinct(replyq'[d])
    BY <1>1, <1>2, <1>4 DEF IInv, Located, BlockedOn
  <2>3. \A u \in Thread : state'[u] \in {"Send", "Receive", "Reply"} => fchan'[u] \in Channel
    BY <1>2 DEF IInv, Located
  <2>4. current' \in Thread => state'[current'] = "Ready"
    BY <1>3, <2>1
  <2>5. QED BY <1>3, <2>1, <2>2, <2>3, <2>4 DEF Located
<1>7. NoMissedMeeting'
  BY DEF IInv, NoMissedMeeting
<1>8. MemLocked'
  BY <1>1, <1>2 DEF IInv, MemLocked, Exposed
<1>9. RcvIDValid'
  BY <1>1, <1>2 DEF IInv, RcvIDValid
<1>10. QED BY <1>5, <1>6, <1>7, <1>8, <1>9 DEF IInv

LEMMA SendMeetsKeeps ==
    ASSUME IInv, NEW t \in Thread, NEW c \in Channel, SendMeets(t, c)
    PROVE  IInv'
<1> DEFINE r == Head(recvq[c])
           off == Without(runq, t)
<1>1. /\ current = t /\ state[t] = "Ready" /\ t \in On(runq)
      /\ t \notin On(recvq[c]) /\ t \notin On(replyq[c])
  BY RunningReady DEF SendMeets
<1>2. /\ runq \in Seq(Thread) /\ Distinct(runq) /\ current \in Thread \cup {NullTH}
      /\ recvq \in [Channel -> Seq(Thread)] /\ Distinct(recvq[c])
      /\ replyq \in [Channel -> Seq(Thread)] /\ Distinct(replyq[c])
      /\ state \in [Thread -> ThState] /\ fchan \in [Thread -> Channel \cup {NoChan}]
      /\ held \in [Thread -> SUBSET Thread] /\ memUse \in [Process -> Nat]
      /\ thPrio \in [Thread -> 0..31] /\ prio \in [Process -> 0..31]
      /\ ProcOf \in [Thread -> Process]
  BY ThreadAssumption DEF IInv, TypeOK, Located
<1>3. /\ r \in Thread /\ r \in On(recvq[c]) /\ state[r] = "Receive" /\ fchan[r] = c
      /\ r # t /\ Tail(recvq[c]) \in Seq(Thread) /\ Distinct(Tail(recvq[c]))
      /\ On(Tail(recvq[c])) = On(recvq[c]) \ {r}
  BY SMTT(40), <1>1, <1>2, TailUnlinks DEF SendMeets, IInv, Located, BlockedOn
<1> HIDE DEF r
<1>4. /\ state' = [state EXCEPT ![t] = "Reply", ![r] = "Ready"]
      /\ thPrio' = [thPrio EXCEPT ![r] = prio[ProcOf[r]]]
      /\ held' = [held EXCEPT ![r] = @ \cup {t}]
      /\ TasksOn(Enlist(off, thPrio', r), state', thPrio', TRUE)
      /\ fchan' = [fchan EXCEPT ![t] = c]
      /\ replyq' = [replyq EXCEPT ![c] = Append(@, t)]
      /\ recvq' = [recvq EXCEPT ![c] = Tail(@)]
      /\ memUse' = [memUse EXCEPT ![ProcOf[t]] = @ + 1]
      /\ UNCHANGED <<prio, sendq, pulses>>
  BY DEF SendMeets, Ranked, r
<1>5. off \in Seq(Thread) /\ On(off) = On(runq) \ {t} /\ Distinct(off)
  BY <1>1, <1>2, WithoutUnlinks
<1> HIDE DEF off
<1>6. r \notin On(off)
  BY <1>3, <1>5 DEF IInv, Located
<1>7. /\ runq' \in Seq(Thread) /\ On(runq') = (On(runq) \ {t}) \cup {r} /\ Distinct(runq')
      /\ current' \in Thread \cup {NullTH}
      /\ current' \in Thread => current' \in On(runq')
  <2> DEFINE new == Enlist(off, thPrio', r)
  <2>1. new \in Seq(Thread) /\ On(new) = On(off) \cup {r} /\ Distinct(new)
    BY <1>3, <1>5, <1>6, EnlistLinks
  <2>2. TasksOn(new, state', thPrio', TRUE)
    BY <1>4
  <2> HIDE DEF new
  <2>3. state'[current] = "Reply"
    BY <1>1, <1>2, <1>3, <1>4
  <2>4. QED BY <1>2, <1>5, <2>1, <2>2, <2>3, TasksOnKeeps
<1>8. /\ Append(replyq[c], t) \in Seq(Thread)
      /\ On(Append(replyq[c], t)) = On(replyq[c]) \cup {t}
      /\ Distinct(Append(replyq[c], t))
  BY <1>1, <1>2, AppendLinks
<1>9. \A u \in Thread : state'[u] = IF u = t THEN "Reply" ELSE IF u = r THEN "Ready" ELSE state[u]
  BY <1>2, <1>3, <1>4
<1>10. TypeOK'
  <2>1. state' \in [Thread -> ThState] /\ fchan' \in [Thread -> Channel \cup {NoChan}]
    BY <1>2, <1>4 DEF ThState
  <2>2. recvq' \in [Channel -> Seq(Thread)] /\ replyq' \in [Channel -> Seq(Thread)]
    BY <1>2, <1>3, <1>4, <1>8
  <2>3. thPrio' \in [Thread -> 0..31] /\ memUse' \in [Process -> Nat]
    BY <1>2, <1>3, <1>4
  <2>4. held' \in [Thread -> SUBSET Thread]
    BY <1>2, <1>3, <1>4
  <2>5. TypeOK /\ UNCHANGED <<prio, sendq, pulses>>
    BY <1>4 DEF IInv
  <2>6. QED BY <1>7, <2>1, <2>2, <2>3, <2>4, <2>5 DEF TypeOK
<1>11. Located'
  <2>1. On(runq') = {u \in Thread : state'[u] = "Ready"}
    BY <1>3, <1>7, <1>9 DEF IInv, Located
  <2>2. ASSUME NEW d \in Channel
        PROVE  /\ On(sendq'[d]) = BlockedOn("Send", d)' /\ Distinct(sendq'[d])
               /\ On(recvq'[d]) = BlockedOn("Receive", d)' /\ Distinct(recvq'[d])
               /\ On(replyq'[d]) = BlockedOn("Reply", d)' /\ Distinct(replyq'[d])
    <3>1. \A u \in Thread : fchan'[u] = IF u = t THEN c ELSE fchan[u]
      BY <1>2, <1>4
    <3>2. On(sendq'[d]) = BlockedOn("Send", d)' /\ Distinct(sendq'[d])
      <4>1. BlockedOn("Send", d)' = BlockedOn("Send", d)
        BY <1>1, <1>3, <1>9, <3>1 DEF BlockedOn
      <4>2. sendq' = sendq
        BY <1>4
      <4>3. QED BY <4>1, <4>2 DEF IInv, Located
    <3>3. On(recvq'[d]) = BlockedOn("Receive", d)' /\ Distinct(recvq'[d])
      BY SMTT(20), <1>1, <1>2, <1>3, <1>4, <1>9, <3>1 DEF IInv, Located, BlockedOn
    <3>4. On(replyq'[d]) = BlockedOn("Reply", d)' /\ Distinct(replyq'[d])
      BY SMTT(40), <1>1, <1>2, <1>3, <1>4, <1>8, <1>9, <3>1 DEF IInv, Located, BlockedOn
    <3>5. QED BY <3>2, <3>3, <3>4
  <2>3. \A u \in Thread : state'[u] \in {"Send", "Receive", "Reply"} => fchan'[u] \in Channel
    BY <1>2, <1>4, <1>9 DEF IInv, Located
  <2>4. current' \in Thread => state'[current'] = "Ready"
    BY <1>7, <2>1
  <2>5. QED BY <1>7, <2>1, <2>2, <2>3, <2>4 DEF Located
<1>12. NoMissedMeeting'
  <2>1. recvq[c] # << >>
    BY DEF SendMeets
  <2>2. QED BY <1>2, <1>4, <2>1 DEF IInv, NoMissedMeeting
<1>13. MemLocked'
  <2>1. ASSUME NEW p \in Process PROVE memUse'[p] = Cardinality(Exposed(p)')
    <3>1. IsFiniteSet(Exposed(p))
      BY ThreadAssumption, FS_Subset DEF Exposed
    <3>2. memUse[p] = Cardinality(Exposed(p)) /\ t \notin Exposed(p) /\ r \notin Exposed(p)
      BY <1>1, <1>3 DEF IInv, MemLocked, Exposed
    <3>3. CASE p = ProcOf[t]
      <4>1. Exposed(p)' = Exposed(p) \cup {t}
        BY <3>3, <3>2, <1>9 DEF Exposed
      <4>2. Cardinality(Exposed(p) \cup {t}) = Cardinality(Exposed(p)) + 1
        BY <3>1, <3>2, FS_AddElement
      <4>3. memUse'[p] = memUse[p] + 1
        BY <3>3, <1>2, <1>4
      <4>4. QED BY <3>2, <4>1, <4>2, <4>3
    <3>4. CASE p # ProcOf[t]
      <4>1. Exposed(p)' = Exposed(p)
        BY <3>4, <3>2, <1>9 DEF Exposed
      <4>2. QED BY <3>2, <3>4, <4>1, <1>2, <1>4
    <3>5. QED BY <3>3, <3>4
  <2>2. QED BY <2>1 DEF MemLocked
<1>14. RcvIDValid'
  <2>1. \A u, x \in Thread : x \in held'[u] <=> x \in held[u] \/ (u = r /\ x = t)
    BY <1>2, <1>3, <1>4
  <2>2. \A u \in Thread : t \notin held[u] /\ r \notin held[u]
    BY <1>1, <1>3 DEF IInv, RcvIDValid
  <2>3. \A u, x \in Thread : x \in held'[u] => state'[x] = "Reply"
    BY <1>9, <2>1, <2>2 DEF IInv, RcvIDValid
  <2>4. \A u, v, x \in Thread : x \in held'[u] /\ x \in held'[v] => u = v
    BY <2>1, <2>2 DEF IInv, RcvIDValid
  <2>5. \A u \in Thread : state'[u] = "Free" => held'[u] = {}
    BY <1>9, <1>2, <1>4 DEF IInv, RcvIDValid
  <2>6. QED BY <2>3, <2>4, <2>5 DEF RcvIDValid
<1>15. QED BY <1>10, <1>11, <1>12, <1>13, <1>14 DEF IInv

LEMMA ReceivePulseKeeps ==
    ASSUME IInv, NEW t \in Thread, NEW c \in Channel, ReceivePulse(t, c)
    PROVE  IInv'
<1>1. /\ pulses \in [Channel -> Seq(Pulse)] /\ pulses[c] # << >>
      /\ pulses' = [pulses EXCEPT ![c] = Tail(@)]
      /\ UNCHANGED <<state, thPrio, prio, fchan, runq, current, sendq, recvq,
                     replyq, memUse, held>>
  BY DEF IInv, TypeOK, ReceivePulse
<1>2. TypeOK'
  <2>1. pulses' \in [Channel -> Seq(Pulse)]
    BY <1>1
  <2>2. QED BY <1>1, <2>1 DEF IInv, TypeOK
<1>3. NoMissedMeeting'
  BY <1>1 DEF IInv, NoMissedMeeting
<1>4. Located' /\ MemLocked' /\ RcvIDValid'
  BY <1>1 DEF IInv, Located, BlockedOn, MemLocked, Exposed, RcvIDValid
<1>5. QED BY <1>2, <1>3, <1>4 DEF IInv

LEMMA ReceiveMsgKeeps ==
    ASSUME IInv, NEW t \in Thread, NEW c \in Channel, ReceiveMsg(t, c)
    PROVE  IInv'
<1> DEFINE s == Head(sendq[c])
<1>1. current = t /\ state[t] = "Ready"
  BY RunningReady DEF ReceiveMsg
<1>2. /\ sendq \in [Channel -> Seq(Thread)] /\ Distinct(sendq[c])
      /\ replyq \in [Channel -> Seq(Thread)] /\ Distinct(replyq[c])
      /\ state \in [Thread -> ThState] /\ held \in [Thread -> SUBSET Thread]
      /\ memUse \in [Process -> Nat] /\ ProcOf \in [Thread -> Process]
  BY ThreadAssumption DEF IInv, TypeOK, Located
<1>3. /\ s \in Thread /\ s \in On(sendq[c]) /\ state[s] = "Send" /\ fchan[s] = c
      /\ Tail(sendq[c]) \in Seq(Thread) /\ Distinct(Tail(sendq[c]))
      /\ On(Tail(sendq[c])) = On(sendq[c]) \ {s} /\ s \notin On(replyq[c])
  BY <1>2, TailUnlinks DEF ReceiveMsg, IInv, Located, BlockedOn
<1> HIDE DEF s
<1>4. /\ state' = [state EXCEPT ![s] = "Reply"]
      /\ replyq' = [replyq EXCEPT ![c] = Append(@, s)]
      /\ memUse' = [memUse EXCEPT ![ProcOf[s]] = @ + 1]
      /\ held' = [held EXCEPT ![t] = @ \cup {s}]
      /\ sendq' = [sendq EXCEPT ![c] = Tail(@)]
      /\ UNCHANGED <<thPrio, prio, fchan, runq, current, recvq, pulses>>
  BY DEF ReceiveMsg, s
<1>5. /\ Append(replyq[c], s) \in Seq(Thread)
      /\ On(Append(replyq[c], s)) = On(replyq[c]) \cup {s}
      /\ Distinct(Append(replyq[c], s))
  BY <1>2, <1>3, AppendLinks
<1>6. \A u \in Thread : state'[u] = IF u = s THEN "Reply" ELSE state[u]
  BY <1>2, <1>3, <1>4
<1>7. TypeOK'
  <2>1. state' \in [Thread -> ThState] /\ held' \in [Thread -> SUBSET Thread]
    BY <1>2, <1>3, <1>4 DEF ThState
  <2>2. sendq' \in [Channel -> Seq(Thread)] /\ replyq' \in [Channel -> Seq(Thread)]
    BY <1>2, <1>3, <1>4, <1>5
  <2>3. memUse' \in [Process -> Nat]
    BY <1>2, <1>3, <1>4
  <2>4. TypeOK /\ UNCHANGED <<thPrio, prio, fchan, runq, current, recvq, pulses>>
    BY <1>4 DEF IInv
  <2>5. QED BY <2>1, <2>2, <2>3, <2>4 DEF TypeOK
<1>8. Located'
  <2>1. On(runq') = {u \in Thread : state'[u] = "Ready"} /\ Distinct(runq')
    BY <1>3, <1>4, <1>6 DEF IInv, Located
  <2>2. ASSUME NEW d \in Channel
        PROVE  /\ On(sendq'[d]) = BlockedOn("Send", d)' /\ Distinct(sendq'[d])
               /\ On(recvq'[d]) = BlockedOn("Receive", d)' /\ Distinct(recvq'[d])
               /\ On(replyq'[d]) = BlockedOn("Reply", d)' /\ Distinct(replyq'[d])
    <3>1. On(sendq'[d]) = BlockedOn("Send", d)' /\ Distinct(sendq'[d])
      BY <1>2, <1>3, <1>4, <1>6 DEF IInv, Located, BlockedOn
    <3>2. On(recvq'[d]) = BlockedOn("Receive", d)' /\ Distinct(recvq'[d])
      BY <1>2, <1>3, <1>4, <1>6 DEF IInv, Located, BlockedOn
    <3>3. On(replyq'[d]) = BlockedOn("Reply", d)' /\ Distinct(replyq'[d])
      BY <1>2, <1>3, <1>4, <1>5, <1>6 DEF IInv, Located, BlockedOn
    <3>4. QED BY <3>1, <3>2, <3>3
  <2>3. \A u \in Thread : state'[u] \in {"Send", "Receive", "Reply"} => fchan'[u] \in Channel
    BY <1>3, <1>4, <1>6 DEF IInv, Located
  <2>4. current' \in Thread => state'[current'] = "Ready"
    BY <1>3, <1>4, <1>6 DEF IInv, Located
  <2>5. QED BY <2>1, <2>2, <2>3, <2>4 DEF Located
<1>9. NoMissedMeeting'
  <2>1. sendq[c] # << >>
    BY DEF ReceiveMsg
  <2>2. QED BY <1>2, <1>4, <2>1 DEF IInv, NoMissedMeeting
<1>10. MemLocked'
  <2>1. ASSUME NEW p \in Process PROVE memUse'[p] = Cardinality(Exposed(p)')
    <3>1. IsFiniteSet(Exposed(p))
      BY ThreadAssumption, FS_Subset DEF Exposed
    <3>2. memUse[p] = Cardinality(Exposed(p)) /\ s \notin Exposed(p)
      BY <1>3 DEF IInv, MemLocked, Exposed
    <3>3. CASE p = ProcOf[s]
      <4>1. Exposed(p)' = Exposed(p) \cup {s}
        BY <3>3, <3>2, <1>3, <1>6 DEF Exposed
      <4>2. Cardinality(Exposed(p) \cup {s}) = Cardinality(Exposed(p)) + 1
        BY <3>1, <3>2, FS_AddElement
      <4>3. memUse'[p] = memUse[p] + 1
        BY <3>3, <1>2, <1>4
      <4>4. QED BY <3>2, <4>1, <4>2, <4>3
    <3>4. CASE p # ProcOf[s]
      <4>1. Exposed(p)' = Exposed(p)
        BY <3>4, <1>6 DEF Exposed
      <4>2. QED BY <3>2, <3>4, <4>1, <1>2, <1>4
    <3>5. QED BY <3>3, <3>4
  <2>2. QED BY <2>1 DEF MemLocked
<1>11. RcvIDValid'
  <2>1. \A u, x \in Thread : x \in held'[u] <=> x \in held[u] \/ (u = t /\ x = s)
    BY <1>2, <1>3, <1>4
  <2>2. \A u \in Thread : s \notin held[u]
    BY <1>3 DEF IInv, RcvIDValid
  <2>3. \A u, x \in Thread : x \in held'[u] => state'[x] = "Reply"
    BY <1>6, <2>1 DEF IInv, RcvIDValid
  <2>4. \A u, v, x \in Thread : x \in held'[u] /\ x \in held'[v] => u = v
    BY <2>1, <2>2 DEF IInv, RcvIDValid
  <2>5. \A u \in Thread : state'[u] = "Free" => held'[u] = {}
    BY <1>1, <1>2, <1>4, <1>6 DEF IInv, RcvIDValid
  <2>6. QED BY <2>3, <2>4, <2>5 DEF RcvIDValid
<1>12. QED BY <1>7, <1>8, <1>9, <1>10, <1>11 DEF IInv

LEMMA ReceiveBlocksKeeps ==
    ASSUME IInv, NEW t \in Thread, NEW c \in Channel, ReceiveBlocks(t, c)
    PROVE  IInv'
<1> USE DEF ReceiveBlocks
<1>1. current = t /\ state[t] = "Ready" /\ t \in On(runq) /\ t \notin On(recvq[c])
  BY RunningReady
<1>2. /\ runq \in Seq(Thread) /\ Distinct(runq) /\ current \in Thread \cup {NullTH}
      /\ recvq \in [Channel -> Seq(Thread)] /\ Distinct(recvq[c])
      /\ state \in [Thread -> ThState] /\ fchan \in [Thread -> Channel \cup {NoChan}]
  BY DEF IInv, TypeOK, Located
<1>3. /\ runq' \in Seq(Thread) /\ On(runq') = On(runq) \ {t} /\ Distinct(runq')
      /\ current' \in Thread \cup {NullTH}
      /\ current' \in Thread => current' \in On(runq')
  <2>1. /\ Without(runq, t) \in Seq(Thread) /\ On(Without(runq, t)) = On(runq) \ {t}
        /\ Distinct(Without(runq, t))
    BY <1>1, <1>2, WithoutUnlinks
  <2>2. state'[current] = "Receive"
    BY <1>1, <1>2
  <2>3. QED BY <1>2, <2>1, <2>2, TasksOnKeeps
<1>4. /\ Append(recvq[c], t) \in Seq(Thread)
      /\ On(Append(recvq[c], t)) = On(recvq[c]) \cup {t}
      /\ Distinct(Append(recvq[c], t))
  BY <1>1, <1>2, AppendLinks
<1>5. TypeOK'
  <2>1. state' \in [Thread -> ThState] /\ fchan' \in [Thread -> Channel \cup {NoChan}]
    BY <1>2 DEF ThState
  <2>2. recvq' \in [Channel -> Seq(Thread)]
    BY <1>2, <1>4
  <2>3. TypeOK /\ UNCHANGED <<thPrio, prio, sendq, replyq, pulses, memUse, held>>
    BY DEF IInv
  <2> HIDE DEF ReceiveBlocks
  <2>4. QED BY <1>3, <2>1, <2>2, <2>3 DEF TypeOK
<1>6. Located'
  <2>1. On(runq') = {u \in Thread : state'[u] = "Ready"}
    BY <1>1, <1>2, <1>3 DEF IInv, Located
  <2>2. ASSUME NEW d \in Channel
        PROVE  /\ On(sendq'[d]) = BlockedOn("Send", d)' /\ Distinct(sendq'[d])
               /\ On(recvq'[d]) = BlockedOn("Receive", d)' /\ Distinct(recvq'[d])
               /\ On(replyq'[d]) = BlockedOn("Reply", d)' /\ Distinct(replyq'[d])
    BY <1>1, <1>2, <1>4 DEF IInv, Located, BlockedOn
  <2>3. \A u \in Thread : state'[u] \in {"Send", "Receive", "Reply"} => fchan'[u] \in Channel
    BY <1>2 DEF IInv, Located
  <2>4. current' \in Thread => state'[current'] = "Ready"
    BY <1>3, <2>1
  <2>5. QED BY <1>3, <2>1, <2>2, <2>3, <2>4 DEF Located
<1>7. NoMissedMeeting'
  BY <1>2 DEF IInv, NoMissedMeeting
<1>8. MemLocked'
  BY <1>1, <1>2 DEF IInv, MemLocked, Exposed
<1>9. RcvIDValid'
  BY <1>1, <1>2 DEF IInv, RcvIDValid
<1>10. QED BY <1>5, <1>6, <1>7, <1>8, <1>9 DEF IInv

(* reply_S unlinks x from the reply queue of the channel in its TH_FChan:   *)
(* RcvIDValid says it is waiting there.                                    *)
LEMMA ReplyKeeps ==
    ASSUME IInv, NEW t \in Thread, NEW x \in Thread, Reply(t, x)
    PROVE  IInv'
<1> DEFINE c == fchan[x]
           req == thPrio[t] < thPrio[x]
<1>1. current = t /\ state[t] = "Ready" /\ t \in On(runq)
  BY RunningReady DEF Reply
<1>2. /\ runq \in Seq(Thread) /\ Distinct(runq) /\ current \in Thread \cup {NullTH}
      /\ replyq \in [Channel -> Seq(Thread)]
      /\ state \in [Thread -> ThState] /\ held \in [Thread -> SUBSET Thread]
      /\ memUse \in [Process -> Nat] /\ ProcOf \in [Thread -> Process]
      /\ thPrio \in [Thread -> 0..31] /\ prio \in [Process -> 0..31]
  BY ThreadAssumption DEF IInv, TypeOK, Located
<1>3. x \in held[t] /\ state[x] = "Reply" /\ x # t /\ x \notin On(runq)
  BY <1>1, <1>2 DEF Reply, IInv, RcvIDValid, Located
<1>4. c \in Channel /\ x \in On(replyq[c]) /\ Distinct(replyq[c])
  BY <1>3 DEF IInv, Located, BlockedOn
<1>5. /\ state' = [state EXCEPT ![x] = "Ready"]
      /\ replyq' = [replyq EXCEPT ![c] = Without(@, x)]
      /\ memUse' = [memUse EXCEPT ![ProcOf[x]] = @ - 1]
      /\ thPrio' = [thPrio EXCEPT ![x] = prio[ProcOf[x]]]
      /\ held' = [held EXCEPT ![t] = @ \ {x}]
      /\ TasksOn(Enlist(runq, thPrio', x), state', thPrio', req)
      /\ UNCHANGED <<prio, fchan, sendq, recvq, pulses>>
      /\ req \in BOOLEAN
  BY DEF Reply, Ranked
<1>6. c = fchan[x]
  OBVIOUS
<1> HIDE DEF c, req
<1>7. /\ Without(replyq[c], x) \in Seq(Thread)
      /\ On(Without(replyq[c], x)) = On(replyq[c]) \ {x}
      /\ Distinct(Without(replyq[c], x))
  BY <1>2, <1>4, WithoutUnlinks
<1>8. \A u \in Thread : state'[u] = IF u = x THEN "Ready" ELSE state[u]
  BY <1>2, <1>5
<1>9. /\ runq' \in Seq(Thread) /\ On(runq') = On(runq) \cup {x} /\ Distinct(runq')
      /\ current' \in Thread \cup {NullTH}
      /\ current' \in Thread => current' \in On(runq')
  <2> DEFINE new == Enlist(runq, thPrio', x)
  <2>1. new \in Seq(Thread) /\ On(new) = On(runq) \cup {x} /\ Distinct(new)
    BY <1>2, <1>3, EnlistLinks
  <2>2. TasksOn(new, state', thPrio', req)
    BY <1>5
  <2> HIDE DEF new
  <2>3. current \in On(new)
    BY <1>1, <2>1
  <2>4. QED BY <1>2, <1>5, <2>1, <2>2, <2>3, TasksOnKeeps
<1>10. MemLocked' /\ memUse' \in [Process -> Nat]
  <2>1. ASSUME NEW p \in Process
        PROVE memUse'[p] = Cardinality(Exposed(p)') /\ memUse'[p] \in Nat
    <3>1. IsFiniteSet(Exposed(p))
      BY ThreadAssumption, FS_Subset DEF Exposed
    <3>2. memUse[p] = Cardinality(Exposed(p))
      BY DEF IInv, MemLocked
    <3>3. CASE p = ProcOf[x]
      <4>1. Exposed(p)' = Exposed(p) \ {x} /\ x \in Exposed(p)
        BY <3>3, <1>3, <1>8 DEF Exposed
      <4>2. /\ Cardinality(Exposed(p) \ {x}) = Cardinality(Exposed(p)) - 1
            /\ IsFiniteSet(Exposed(p) \ {x})
        BY <3>1, <4>1, FS_RemoveElement
      <4>3. memUse'[p] = memUse[p] - 1
        BY <3>3, <1>2, <1>5
      <4>4. Cardinality(Exposed(p) \ {x}) \in Nat
        BY <4>2, FS_CardinalityType
      <4>5. QED BY <3>2, <4>1, <4>2, <4>3, <4>4
    <3>4. CASE p # ProcOf[x]
      <4>1. Exposed(p)' = Exposed(p)
        BY <3>4, <1>8 DEF Exposed
      <4>2. QED BY <3>2, <3>4, <4>1, <1>2, <1>5
    <3>5. QED BY <3>3, <3>4
  <2>2. memUse' \in [Process -> Nat]
    <3>1. memUse' = [p \in Process |-> memUse'[p]]
      BY <1>2, <1>5
    <3>2. QED BY <2>1, <3>1
  <2>3. QED BY <2>1, <2>2 DEF MemLocked
<1>11. TypeOK'
  <2>1. state' \in [Thread -> ThState] /\ held' \in [Thread -> SUBSET Thread]
    BY <1>2, <1>5 DEF ThState
  <2>2. replyq' \in [Channel -> Seq(Thread)] /\ thPrio' \in [Thread -> 0..31]
    BY <1>2, <1>5, <1>7
  <2>3. TypeOK /\ UNCHANGED <<prio, fchan, sendq, recvq, pulses>>
    BY <1>5 DEF IInv
  <2>4. QED BY <1>9, <1>10, <2>1, <2>2, <2>3 DEF TypeOK
<1>12. Located'
  <2>1. On(runq') = {u \in Thread : state'[u] = "Ready"}
    BY <1>8, <1>9 DEF IInv, Located
  <2>2. ASSUME NEW d \in Channel
        PROVE  /\ On(sendq'[d]) = BlockedOn("Send", d)' /\ Distinct(sendq'[d])
               /\ On(recvq'[d]) = BlockedOn("Receive", d)' /\ Distinct(recvq'[d])
               /\ On(replyq'[d]) = BlockedOn("Reply", d)' /\ Distinct(replyq'[d])
    <3>1. On(sendq'[d]) = BlockedOn("Send", d)' /\ Distinct(sendq'[d])
      BY <1>3, <1>5, <1>8 DEF IInv, Located, BlockedOn
    <3>2. On(recvq'[d]) = BlockedOn("Receive", d)' /\ Distinct(recvq'[d])
      BY <1>3, <1>5, <1>8 DEF IInv, Located, BlockedOn
    <3>3. On(replyq'[d]) = BlockedOn("Reply", d)' /\ Distinct(replyq'[d])
      BY <1>2, <1>3, <1>4, <1>5, <1>6, <1>7, <1>8 DEF IInv, Located, BlockedOn
    <3>4. QED BY <3>1, <3>2, <3>3
  <2>3. \A u \in Thread : state'[u] \in {"Send", "Receive", "Reply"} => fchan'[u] \in Channel
    BY <1>5, <1>8 DEF IInv, Located
  <2>4. current' \in Thread => state'[current'] = "Ready"
    BY <1>9, <2>1
  <2>5. QED BY <1>9, <2>1, <2>2, <2>3, <2>4 DEF Located
<1>13. NoMissedMeeting'
  BY <1>5 DEF IInv, NoMissedMeeting
<1>14. RcvIDValid'
  <2>1. \A u, y \in Thread : y \in held'[u] => y \in held[u] /\ y # x
    BY <1>2, <1>3, <1>5 DEF IInv, RcvIDValid
  <2>2. \A u, y \in Thread : y \in held'[u] => state'[y] = "Reply"
    BY <1>8, <2>1 DEF IInv, RcvIDValid
  <2>3. \A u, v, y \in Thread : y \in held'[u] /\ y \in held'[v] => u = v
    BY <2>1 DEF IInv, RcvIDValid
  <2>4. \A u \in Thread : state'[u] = "Free" => held'[u] = {}
    BY <1>2, <1>5, <1>8 DEF IInv, RcvIDValid
  <2>5. QED BY <2>2, <2>3, <2>4 DEF RcvIDValid
<1>15. QED BY <1>10, <1>11, <1>12, <1>13, <1>14 DEF IInv

(* A step that only re-queues the running thread: Yield, Tick and Idle.     *)
LEMMA GiveWayKeeps ==
    ASSUME IInv, DoSwitch(runq, state, thPrio),
           UNCHANGED <<state, thPrio, prio, fchan, sendq, recvq, replyq, pulses,
                       memUse, held>>
    PROVE  IInv'
<1>1. /\ runq \in Seq(Thread) /\ Distinct(runq) /\ current \in Thread \cup {NullTH}
      /\ current \in Thread => current \in On(runq)
  BY DEF IInv, TypeOK, Located
<1>2. /\ runq' \in Seq(Thread) /\ On(runq') = On(runq) /\ Distinct(runq')
      /\ current' \in Thread \cup {NullTH}
      /\ current' \in Thread => current' \in On(runq')
  BY <1>1, SwitchKeeps
<1>3. TypeOK'
  BY <1>2 DEF IInv, TypeOK
<1>4. Located'
  BY <1>2 DEF IInv, Located, BlockedOn
<1>5. NoMissedMeeting' /\ MemLocked' /\ RcvIDValid'
  BY DEF IInv, NoMissedMeeting, MemLocked, Exposed, RcvIDValid
<1>6. QED BY <1>3, <1>4, <1>5 DEF IInv

LEMMA SetPriorKeeps ==
    ASSUME IInv, NEW t \in Thread, NEW p \in Process, NEW v \in NewPrio,
           SetPrior(t, p, v)
    PROVE  IInv'
<1> USE DEF SetPrior
<1>1. prio' \in [Process -> 0..31]
  BY PriorityAssumption DEF IInv, TypeOK
<1>2. TypeOK'
  BY <1>1 DEF IInv, TypeOK
<1>3. Located' /\ NoMissedMeeting'
  BY DEF IInv, Located, BlockedOn, NoMissedMeeting
<1>4. MemLocked' /\ RcvIDValid'
  BY DEF IInv, MemLocked, Exposed, RcvIDValid
<1>5. QED BY <1>2, <1>3, <1>4 DEF IInv

LEMMA PulseMeetsKeeps ==
    ASSUME IInv, NEW c \in Channel, PulseMeets(c)
    PROVE  IInv'
<1> DEFINE r == Head(recvq[c])
           req == CurrentPrio < thPrio[r]
<1>1. /\ runq \in Seq(Thread) /\ Distinct(runq) /\ current \in Thread \cup {NullTH}
      /\ current \in Thread => current \in On(runq)
      /\ recvq \in [Channel -> Seq(Thread)] /\ Distinct(recvq[c])
      /\ state \in [Thread -> ThState] /\ ProcOf \in [Thread -> Process]
      /\ thPrio \in [Thread -> 0..31] /\ prio \in [Process -> 0..31]
  BY ThreadAssumption DEF IInv, TypeOK, Located
<1>2. /\ r \in Thread /\ r \in On(recvq[c]) /\ state[r] = "Receive" /\ fchan[r] = c
      /\ Tail(recvq[c]) \in Seq(Thread) /\ Distinct(Tail(recvq[c]))
      /\ On(Tail(recvq[c])) = On(recvq[c]) \ {r} /\ r \notin On(runq)
  BY <1>1, TailUnlinks DEF PulseMeets, IInv, Located, BlockedOn
<1>3. /\ state' = [state EXCEPT ![r] = "Ready"]
      /\ thPrio' = [thPrio EXCEPT ![r] = prio[ProcOf[r]]]
      /\ TasksOn(Enlist(runq, thPrio', r), state', thPrio', req)
      /\ recvq' = [recvq EXCEPT ![c] = Tail(@)]
      /\ UNCHANGED <<prio, fchan, sendq, replyq, pulses, memUse, held>>
      /\ req \in BOOLEAN
  BY DEF PulseMeets, Ranked
<1> HIDE DEF r, req
<1>4. \A u \in Thread : state'[u] = IF u = r THEN "Ready" ELSE state[u]
  BY <1>1, <1>3
<1>5. /\ runq' \in Seq(Thread) /\ On(runq') = On(runq) \cup {r} /\ Distinct(runq')
      /\ current' \in Thread \cup {NullTH}
      /\ current' \in Thread => current' \in On(runq')
  <2> DEFINE new == Enlist(runq, thPrio', r)
  <2>1. new \in Seq(Thread) /\ On(new) = On(runq) \cup {r} /\ Distinct(new)
    BY <1>1, <1>2, EnlistLinks
  <2>2. TasksOn(new, state', thPrio', req)
    BY <1>3
  <2> HIDE DEF new
  <2>3. current \in Thread => current \in On(new)
    BY <1>1, <2>1
  <2>4. QED BY <1>1, <1>3, <2>1, <2>2, <2>3, TasksOnKeeps
<1>6. TypeOK'
  <2>1. state' \in [Thread -> ThState] /\ recvq' \in [Channel -> Seq(Thread)]
    BY <1>1, <1>2, <1>3 DEF ThState
  <2>2. thPrio' \in [Thread -> 0..31]
    BY <1>1, <1>2, <1>3
  <2>3. TypeOK /\ UNCHANGED <<prio, fchan, sendq, replyq, pulses, memUse, held>>
    BY <1>3 DEF IInv
  <2>4. QED BY <1>5, <2>1, <2>2, <2>3 DEF TypeOK
<1>7. Located'
  <2>1. On(runq') = {u \in Thread : state'[u] = "Ready"}
    BY <1>2, <1>4, <1>5 DEF IInv, Located
  <2>2. ASSUME NEW d \in Channel
        PROVE  /\ On(sendq'[d]) = BlockedOn("Send", d)' /\ Distinct(sendq'[d])
               /\ On(recvq'[d]) = BlockedOn("Receive", d)' /\ Distinct(recvq'[d])
               /\ On(replyq'[d]) = BlockedOn("Reply", d)' /\ Distinct(replyq'[d])
    <3>1. On(sendq'[d]) = BlockedOn("Send", d)' /\ Distinct(sendq'[d])
      BY <1>2, <1>3, <1>4 DEF IInv, Located, BlockedOn
    <3>2. On(recvq'[d]) = BlockedOn("Receive", d)' /\ Distinct(recvq'[d])
      BY <1>1, <1>2, <1>3, <1>4 DEF IInv, Located, BlockedOn
    <3>3. On(replyq'[d]) = BlockedOn("Reply", d)' /\ Distinct(replyq'[d])
      BY <1>2, <1>3, <1>4 DEF IInv, Located, BlockedOn
    <3>4. QED BY <3>1, <3>2, <3>3
  <2>3. \A u \in Thread : state'[u] \in {"Send", "Receive", "Reply"} => fchan'[u] \in Channel
    BY <1>3, <1>4 DEF IInv, Located
  <2>4. current' \in Thread => state'[current'] = "Ready"
    BY <1>5, <2>1
  <2>5. QED BY <1>5, <2>1, <2>2, <2>3, <2>4 DEF Located
<1>8. NoMissedMeeting'
  <2>1. recvq[c] # << >>
    BY DEF PulseMeets
  <2>2. QED BY <1>1, <1>3, <2>1 DEF IInv, NoMissedMeeting
<1>9. MemLocked'
  <2>1. \A p \in Process : Exposed(p)' = Exposed(p)
    BY <1>2, <1>4 DEF Exposed
  <2>2. QED BY <1>3, <2>1 DEF IInv, MemLocked
<1>10. RcvIDValid'
  <2>1. \A u \in Thread : r \notin held[u]
    BY <1>2 DEF IInv, RcvIDValid
  <2>2. QED BY <1>3, <1>4, <2>1 DEF IInv, RcvIDValid
<1>11. QED BY <1>6, <1>7, <1>8, <1>9, <1>10 DEF IInv

LEMMA DoPulseKeeps ==
    ASSUME IInv, NEW c \in Channel, NEW p \in Pulse, DoPulse(c, p)
    PROVE  IInv'
<1>1. CASE PulseMeets(c)
  BY <1>1, PulseMeetsKeeps
<1>2. CASE PulseQueues(c, p)
  <2>1. /\ pulses \in [Channel -> Seq(Pulse)] /\ recvq[c] = << >>
        /\ pulses' = [pulses EXCEPT ![c] = <<p>> \o @]
        /\ UNCHANGED <<state, thPrio, prio, fchan, runq, current, sendq, recvq,
                       replyq, memUse, held>>
    BY <1>2 DEF PulseQueues, IInv, TypeOK
  <2>2. pulses' \in [Channel -> Seq(Pulse)]
    BY <2>1
  <2>3. TypeOK'
    BY <2>1, <2>2 DEF IInv, TypeOK
  <2>4. NoMissedMeeting'
    BY <2>1 DEF IInv, NoMissedMeeting
  <2>5. Located' /\ MemLocked' /\ RcvIDValid'
    BY <2>1 DEF IInv, Located, BlockedOn, MemLocked, Exposed, RcvIDValid
  <2>6. QED BY <2>3, <2>4, <2>5 DEF IInv
<1>3. CASE PulseLost(c)
  BY <1>3 DEF PulseLost, vars, IInv, TypeOK, Located, BlockedOn, NoMissedMeeting,
              MemLocked, Exposed, RcvIDValid
<1>4. QED BY <1>1, <1>2, <1>3 DEF DoPulse

LEMMA CreateTKeeps ==
    ASSUME IInv, NEW t \in Thread, NEW u \in Thread, CreateT(t, u)
    PROVE  IInv'
<1>1. /\ runq \in Seq(Thread) /\ Distinct(runq)
      /\ state \in [Thread -> ThState] /\ ProcOf \in [Thread -> Process]
      /\ thPrio \in [Thread -> 0..31] /\ prio \in [Process -> 0..31]
  BY ThreadAssumption DEF IInv, TypeOK, Located
<1>2. /\ state[u] = "Free" /\ u \notin On(runq)
      /\ state' = [state EXCEPT ![u] = "Ready"]
      /\ thPrio' = [thPrio EXCEPT ![u] = prio[ProcOf[u]]]
      /\ runq' = Enlist(runq, thPrio', u)
      /\ UNCHANGED <<prio, fchan, current, sendq, recvq, replyq, pulses, memUse,
                     held>>
  BY DEF CreateT, Ranked, IInv, Located
<1>3. runq' \in Seq(Thread) /\ On(runq') = On(runq) \cup {u} /\ Distinct(runq')
  BY <1>1, <1>2, EnlistLinks
<1>4. \A v \in Thread : state'[v] = IF v = u THEN "Ready" ELSE state[v]
  BY <1>1, <1>2
<1>5. TypeOK'
  <2>1. state' \in [Thread -> ThState] /\ thPrio' \in [Thread -> 0..31]
    BY <1>1, <1>2 DEF ThState
  <2>2. TypeOK /\ UNCHANGED <<prio, fchan, current, sendq, recvq, replyq, pulses, memUse, held>>
    BY <1>2 DEF IInv
  <2>3. QED BY <1>3, <2>1, <2>2 DEF TypeOK
<1>6. Located'
  <2>1. On(runq') = {v \in Thread : state'[v] = "Ready"}
    BY <1>3, <1>4 DEF IInv, Located
  <2>2. \A st \in {"Send", "Receive", "Reply"}, d \in Channel :
           BlockedOn(st, d)' = BlockedOn(st, d)
    BY <1>2, <1>4 DEF BlockedOn
  <2>3. \A v \in Thread : state'[v] \in {"Send", "Receive", "Reply"} => fchan'[v] \in Channel
    BY <1>2, <1>4 DEF IInv, Located
  <2>4. current' \in Thread => state'[current'] = "Ready"
    BY <1>2, <1>4 DEF IInv, Located
  <2>5. QED BY <1>2, <1>3, <2>1, <2>2, <2>3, <2>4 DEF IInv, Located
<1>7. NoMissedMeeting'
  BY <1>2 DEF IInv, NoMissedMeeting
<1>8. MemLocked'
  <2>1. \A p \in Process : Exposed(p)' = Exposed(p)
    BY <1>2, <1>4 DEF Exposed
  <2>2. QED BY <1>2, <2>1 DEF IInv, MemLocked
<1>9. RcvIDValid'
  BY <1>2, <1>4 DEF IInv, RcvIDValid
<1>10. QED BY <1>5, <1>6, <1>7, <1>8, <1>9 DEF IInv

LEMMA KillThKeeps ==
    ASSUME IInv, NEW t \in Thread, KillTh(t)
    PROVE  IInv'
<1>1. current = t /\ state[t] = "Ready" /\ t \in On(runq)
  BY RunningReady DEF KillTh
<1>2. /\ runq \in Seq(Thread) /\ Distinct(runq) /\ current \in Thread \cup {NullTH}
      /\ state \in [Thread -> ThState] /\ held \in [Thread -> SUBSET Thread]
  BY DEF IInv, TypeOK, Located
<1>3. /\ state' = [state EXCEPT ![t] = "Free"]
      /\ held' = [held EXCEPT ![t] = {}]
      /\ DoSwitch(Without(runq, t), state', thPrio)
      /\ UNCHANGED <<thPrio, prio, fchan, sendq, recvq, replyq, pulses, memUse>>
  BY DEF KillTh
<1>4. \A u \in Thread : state'[u] = IF u = t THEN "Free" ELSE state[u]
  BY <1>2, <1>3
<1>5. /\ runq' \in Seq(Thread) /\ On(runq') = On(runq) \ {t} /\ Distinct(runq')
      /\ current' \in Thread \cup {NullTH}
      /\ current' \in Thread => current' \in On(runq')
  <2>1. /\ Without(runq, t) \in Seq(Thread) /\ On(Without(runq, t)) = On(runq) \ {t}
        /\ Distinct(Without(runq, t))
    BY <1>1, <1>2, WithoutUnlinks
  <2>2. state'[current] = "Free"
    BY <1>1, <1>4
  <2>3. QED BY <1>2, <1>3, <2>1, <2>2, SwitchKeeps
<1>6. TypeOK'
  <2>1. state' \in [Thread -> ThState] /\ held' \in [Thread -> SUBSET Thread]
    BY <1>2, <1>3 DEF ThState
  <2>2. TypeOK /\ UNCHANGED <<thPrio, prio, fchan, sendq, recvq, replyq, pulses, memUse>>
    BY <1>3 DEF IInv
  <2>3. QED BY <1>5, <2>1, <2>2 DEF TypeOK
<1>7. Located'
  <2>1. On(runq') = {v \in Thread : state'[v] = "Ready"}
    BY <1>4, <1>5 DEF IInv, Located
  <2>2. \A st \in {"Send", "Receive", "Reply"}, d \in Channel :
           BlockedOn(st, d)' = BlockedOn(st, d)
    BY <1>1, <1>3, <1>4 DEF BlockedOn
  <2>3. \A u \in Thread : state'[u] \in {"Send", "Receive", "Reply"} => fchan'[u] \in Channel
    BY <1>3, <1>4 DEF IInv, Located
  <2>4. current' \in Thread => state'[current'] = "Ready"
    BY <1>5, <2>1
  <2>5. QED BY <1>3, <1>5, <2>1, <2>2, <2>3, <2>4 DEF IInv, Located
<1>8. NoMissedMeeting'
  BY <1>3 DEF IInv, NoMissedMeeting
<1>9. MemLocked'
  <2>1. \A p \in Process : Exposed(p)' = Exposed(p)
    BY <1>1, <1>4 DEF Exposed
  <2>2. QED BY <1>3, <2>1 DEF IInv, MemLocked
<1>10. RcvIDValid'
  <2>1. \A u, y \in Thread : y \in held'[u] => y \in held[u] /\ y # t
    BY <1>1, <1>2, <1>3 DEF IInv, RcvIDValid
  <2>2. QED BY <1>2, <1>3, <1>4, <2>1 DEF IInv, RcvIDValid
<1>11. QED BY <1>6, <1>7, <1>8, <1>9, <1>10 DEF IInv

-----------------------------------------------------------------------------

LEMMA NextKeeps == IInv /\ [Next]_vars => IInv'
<1> SUFFICES ASSUME IInv, [Next]_vars PROVE IInv'
  OBVIOUS
<1>1. ASSUME NEW t \in Thread, Step(t) PROVE IInv'
  <2>1. ASSUME NEW c \in Channel, SendBlocks(t, c) PROVE IInv'
    BY <2>1, SendBlocksKeeps
  <2>2. ASSUME NEW c \in Channel, SendMeets(t, c) PROVE IInv'
    BY <2>2, SendMeetsKeeps
  <2>3. ASSUME NEW c \in Channel, ReceivePulse(t, c) PROVE IInv'
    BY <2>3, ReceivePulseKeeps
  <2>4. ASSUME NEW c \in Channel, ReceiveMsg(t, c) PROVE IInv'
    BY <2>4, ReceiveMsgKeeps
  <2>5. ASSUME NEW c \in Channel, ReceiveBlocks(t, c) PROVE IInv'
    BY <2>5, ReceiveBlocksKeeps
  <2>6. ASSUME NEW c \in Channel, NEW p \in Pulse, SendPulse(t, c, p) PROVE IInv'
    BY <2>6, DoPulseKeeps DEF SendPulse
  <2>7. ASSUME NEW x \in Thread, Reply(t, x) PROVE IInv'
    BY <2>7, ReplyKeeps
  <2>8. ASSUME NEW x \in Thread, CreateT(t, x) PROVE IInv'
    BY <2>8, CreateTKeeps
  <2>9. ASSUME NEW p \in Process, NEW v \in NewPrio, SetPrior(t, p, v) PROVE IInv'
    BY <2>9, SetPriorKeeps
  <2>10. CASE KillTh(t)
    BY <2>10, KillThKeeps
  <2>11. QED BY <1>1, <2>1, <2>2, <2>3, <2>4, <2>5, <2>6, <2>7, <2>8, <2>9, <2>10 DEF Step
<1>2. CASE Interrupt
  <2>1. CASE Tick
    BY <2>1, GiveWayKeeps DEF Tick, Yield
  <2>2. ASSUME NEW c \in Channel, NEW p \in Pulse, IRQPulse(c, p) PROVE IInv'
    BY <2>2, DoPulseKeeps DEF IRQPulse
  <2>3. QED BY <1>2, <2>1, <2>2 DEF Interrupt
<1>3. CASE Idle
  BY <1>3, GiveWayKeeps DEF Idle
<1>4. CASE UNCHANGED vars
  BY <1>4 DEF vars, IInv, TypeOK, Located, BlockedOn, NoMissedMeeting,
              MemLocked, Exposed, RcvIDValid
<1>5. QED BY <1>1, <1>2, <1>3, <1>4 DEF Next

(* IInv holds in every reachable state, for every set of threads, processes *)
(* and channels, whatever the programs call.                               *)
THEOREM IPCInvariant == Spec => []IInv
BY InitIInv, NextKeeps, PTL DEF Spec

(* Every kernel structure keeps its type; PCB_MemUse never goes below zero. *)
THEOREM IPCTypes == Spec => []TypeOK
<1>1. IInv => TypeOK
  BY DEF IInv
<1>2. QED BY <1>1, IPCInvariant, PTL

(* Every thread is linked on the queue its own fields name, and only there: *)
(* remQueueR in receive_S and reply_S never touches a foreign queue.        *)
THEOREM ThreadsLocated == Spec => []Located
<1>1. IInv => Located
  BY DEF IInv
<1>2. QED BY <1>1, IPCInvariant, PTL

(* send_S, receive_S and doPulse leave nobody asleep beside the message or  *)
(* the pulse he waits for.                                                 *)
THEOREM NothingMissed == Spec => []NoMissedMeeting
<1>1. IInv => NoMissedMeeting
  BY DEF IInv
<1>2. QED BY <1>1, IPCInvariant, PTL

(* PCB_MemUse is exactly the number of messages that a receiver may read.   *)
THEOREM MemoryLocked == Spec => []MemLocked
<1>1. IInv => MemLocked
  BY DEF IInv
<1>2. QED BY <1>1, IPCInvariant, PTL

(* A RcvID is good for one reply, to a thread that waits for it.            *)
THEOREM RcvIDsValid == Spec => []RcvIDValid
<1>1. IInv => RcvIDValid
  BY DEF IInv
<1>2. QED BY <1>1, IPCInvariant, PTL

-----------------------------------------------------------------------------
(***************************************************************************)
(* The kernel implements Rendezvous.  Phase and Listening are what that    *)
(* module's phase and listening stand for here.                            *)
(***************************************************************************)
Phase == [t \in Thread |-> CASE state[t] = "Free" -> "none"
                             [] state[t] = "Ready" -> "runs"
                             [] OTHER -> "blocked"]
Listening == [c \in Channel |-> On(recvq[c])]

LEMMA PhaseAt ==
    /\ \A t \in Thread : Phase[t] = IF state[t] = "Free" THEN "none"
                                    ELSE IF state[t] = "Ready" THEN "runs" ELSE "blocked"
    /\ \A t \in Thread : Phase'[t] = IF state'[t] = "Free" THEN "none"
                                     ELSE IF state'[t] = "Ready" THEN "runs" ELSE "blocked"
    /\ Phase = [t \in Thread |-> Phase[t]] /\ Phase' = [t \in Thread |-> Phase'[t]]
BY DEF Phase

LEMMA ListeningAt ==
    /\ \A c \in Channel : Listening[c] = On(recvq[c]) /\ Listening'[c] = On(recvq'[c])
    /\ Listening = [c \in Channel |-> Listening[c]]
    /\ Listening' = [c \in Channel |-> Listening'[c]]
    /\ recvq' = recvq => Listening' = Listening
BY DEF Listening

LEMMA SendBlocksAsks ==
    ASSUME IInv, NEW t \in Thread, NEW c \in Channel, SendBlocks(t, c)
    PROVE  Promise!Ask(t, c)
<1>1. Phase[t] = "runs"
  BY RunningReady, PhaseAt DEF SendBlocks
<1>2. Phase' = [Phase EXCEPT ![t] = "blocked"]
  <2>1. \A v \in Thread : state'[v] = IF v = t THEN "Send" ELSE state[v]
    BY DEF SendBlocks, IInv, TypeOK
  <2>2. QED BY <2>1, PhaseAt
<1>3. Listening[c] = {} /\ Listening' = Listening
  BY ListeningAt DEF SendBlocks, On, ToSet
<1>4. sendq' = [sendq EXCEPT ![c] = Append(@, t)] /\ held' = held
  BY DEF SendBlocks
<1>5. QED BY <1>1, <1>2, <1>3, <1>4 DEF Promise!Ask, Phase, Listening

LEMMA SendMeetsMeets ==
    ASSUME IInv, NEW t \in Thread, NEW c \in Channel, SendMeets(t, c)
    PROVE  \E s \in Thread : Promise!Meet(t, s, c)
<1> DEFINE r == Head(recvq[c])
<1>1. /\ state' = [state EXCEPT ![t] = "Reply", ![r] = "Ready"]
      /\ held' = [held EXCEPT ![r] = @ \cup {t}]
      /\ recvq' = [recvq EXCEPT ![c] = Tail(@)]
      /\ sendq' = sendq /\ recvq[c] # << >> /\ Running(t)
  BY DEF SendMeets
<1>2. /\ recvq \in [Channel -> Seq(Thread)] /\ Distinct(recvq[c])
      /\ state \in [Thread -> ThState] /\ t \notin On(recvq[c]) /\ state[t] = "Ready"
  BY <1>1, RunningReady DEF IInv, TypeOK, Located
<1>3. /\ r \in Thread /\ r \in On(recvq[c]) /\ r # t
      /\ On(Tail(recvq[c])) = On(recvq[c]) \ {r}
  BY <1>1, <1>2, TailUnlinks
<1> HIDE DEF r
<1>4. \A u \in Thread : state'[u] = IF u = t THEN "Reply" ELSE IF u = r THEN "Ready" ELSE state[u]
  BY <1>1, <1>2, <1>3
<1>5. Phase[t] = "runs" /\ Phase' = [Phase EXCEPT ![t] = "blocked", ![r] = "runs"]
  BY <1>2, <1>3, <1>4, PhaseAt
<1>6. r \in Listening[c] /\ Listening' = [Listening EXCEPT ![c] = @ \ {r}]
  BY <1>1, <1>2, <1>3, ListeningAt
<1>7. sendq[c] = << >>
  BY <1>1 DEF IInv, NoMissedMeeting
<1>8. Promise!Meet(t, r, c)
  BY <1>1, <1>5, <1>6, <1>7 DEF Promise!Meet, Phase, Listening
<1>9. QED BY <1>3, <1>8

LEMMA ReceiveMsgTakes ==
    ASSUME IInv, NEW t \in Thread, NEW c \in Channel, ReceiveMsg(t, c)
    PROVE  Promise!Take(t, c)
<1> DEFINE s == Head(sendq[c])
<1>1. /\ state' = [state EXCEPT ![s] = "Reply"]
      /\ held' = [held EXCEPT ![t] = @ \cup {s}]
      /\ sendq' = [sendq EXCEPT ![c] = Tail(@)]
      /\ recvq' = recvq /\ sendq[c] # << >> /\ Running(t)
  BY DEF ReceiveMsg
<1>2. /\ sendq \in [Channel -> Seq(Thread)] /\ Distinct(sendq[c])
      /\ state \in [Thread -> ThState] /\ state[t] = "Ready"
  BY <1>1, RunningReady DEF IInv, TypeOK, Located
<1>3. s \in Thread /\ state[s] = "Send"
  BY <1>1, <1>2, TailUnlinks DEF IInv, Located, BlockedOn
<1> HIDE DEF s
<1>4. \A u \in Thread : state'[u] = IF u = s THEN "Reply" ELSE state[u]
  BY <1>1, <1>2
<1>5. Phase[t] = "runs" /\ Phase' = Phase
  BY <1>2, <1>3, <1>4, PhaseAt
<1>6. Listening' = Listening
  BY <1>1, ListeningAt
<1>7. held' = [held EXCEPT ![t] = @ \cup {Head(sendq[c])}]
  BY <1>1 DEF s
<1>8. QED BY <1>1, <1>5, <1>6, <1>7 DEF Promise!Take, Phase, Listening

LEMMA ReceiveBlocksListens ==
    ASSUME IInv, NEW t \in Thread, NEW c \in Channel, ReceiveBlocks(t, c)
    PROVE  Promise!Listen(t, c)
<1>1. Phase[t] = "runs" /\ sendq[c] = << >>
  BY RunningReady, PhaseAt DEF ReceiveBlocks
<1>2. Phase' = [Phase EXCEPT ![t] = "blocked"]
  <2>1. \A v \in Thread : state'[v] = IF v = t THEN "Receive" ELSE state[v]
    BY DEF ReceiveBlocks, IInv, TypeOK
  <2>2. QED BY <2>1, PhaseAt
<1>3. recvq' = [recvq EXCEPT ![c] = Append(@, t)] /\ recvq \in [Channel -> Seq(Thread)]
  BY DEF ReceiveBlocks, IInv, TypeOK
<1>4. On(Append(recvq[c], t)) = On(recvq[c]) \cup {t}
  BY <1>3, AppendLinks
<1>5. Listening' = [Listening EXCEPT ![c] = @ \cup {t}]
  BY <1>3, <1>4, ListeningAt
<1>6. sendq' = sendq /\ held' = held
  BY DEF ReceiveBlocks
<1>7. QED BY <1>1, <1>2, <1>5, <1>6 DEF Promise!Listen, Phase, Listening

LEMMA ReplyAnswers ==
    ASSUME IInv, NEW t \in Thread, NEW x \in Thread, Reply(t, x)
    PROVE  Promise!Answer(t, x)
<1>1. Phase[t] = "runs"
  BY RunningReady, PhaseAt DEF Reply
<1>2. Phase' = [Phase EXCEPT ![x] = "runs"]
  <2>1. \A v \in Thread : state'[v] = IF v = x THEN "Ready" ELSE state[v]
    BY DEF Reply, IInv, TypeOK
  <2>2. QED BY <2>1, PhaseAt
<1>3. x \in held[t] /\ Phase[x] = "blocked"
  BY PhaseAt DEF Reply, IInv, RcvIDValid
<1>4. held' = [held EXCEPT ![t] = @ \ {x}] /\ sendq' = sendq /\ Listening' = Listening
  BY ListeningAt DEF Reply
<1>5. QED BY <1>1, <1>2, <1>3, <1>4 DEF Promise!Answer, Phase, Listening

LEMMA PulseMeetsNotifies ==
    ASSUME IInv, NEW c \in Channel, PulseMeets(c)
    PROVE  \E s \in Thread : Promise!Notify(s, c)
<1> DEFINE r == Head(recvq[c])
<1>1. /\ state' = [state EXCEPT ![r] = "Ready"]
      /\ recvq' = [recvq EXCEPT ![c] = Tail(@)]
      /\ sendq' = sendq /\ held' = held /\ recvq[c] # << >>
  BY DEF PulseMeets
<1>2. recvq \in [Channel -> Seq(Thread)] /\ Distinct(recvq[c])
  BY DEF IInv, TypeOK, Located
<1>3. r \in Thread /\ r \in On(recvq[c]) /\ On(Tail(recvq[c])) = On(recvq[c]) \ {r}
  BY <1>1, <1>2, TailUnlinks
<1> HIDE DEF r
<1>4. Phase' = [Phase EXCEPT ![r] = "runs"]
  <2>1. \A u \in Thread : state'[u] = IF u = r THEN "Ready" ELSE state[u]
    BY <1>1, <1>3 DEF IInv, TypeOK
  <2>2. QED BY <2>1, PhaseAt
<1>5. r \in Listening[c] /\ Listening' = [Listening EXCEPT ![c] = @ \ {r}]
  BY <1>1, <1>2, <1>3, ListeningAt
<1>6. Promise!Notify(r, c)
  BY <1>1, <1>4, <1>5 DEF Promise!Notify, Phase, Listening
<1>7. QED BY <1>3, <1>6

LEMMA CreateTStarts ==
    ASSUME IInv, NEW t \in Thread, NEW u \in Thread, CreateT(t, u)
    PROVE  Promise!Start(u)
<1>1. Phase[u] = "none"
  BY PhaseAt DEF CreateT
<1>2. Phase' = [Phase EXCEPT ![u] = "runs"]
  <2>1. \A v \in Thread : state'[v] = IF v = u THEN "Ready" ELSE state[v]
    BY DEF CreateT, IInv, TypeOK
  <2>2. QED BY <2>1, PhaseAt
<1>3. sendq' = sendq /\ held' = held /\ Listening' = Listening
  BY ListeningAt DEF CreateT
<1>4. QED BY <1>1, <1>2, <1>3 DEF Promise!Start, Phase, Listening

LEMMA KillThStops ==
    ASSUME IInv, NEW t \in Thread, KillTh(t)
    PROVE  Promise!Stop(t)
<1>1. Phase[t] = "runs"
  BY RunningReady, PhaseAt DEF KillTh
<1>2. Phase' = [Phase EXCEPT ![t] = "none"]
  <2>1. \A v \in Thread : state'[v] = IF v = t THEN "Free" ELSE state[v]
    BY DEF KillTh, IInv, TypeOK
  <2>2. QED BY <2>1, PhaseAt
<1>3. sendq' = sendq /\ held' = [held EXCEPT ![t] = {}] /\ Listening' = Listening
  BY ListeningAt DEF KillTh
<1>4. QED BY <1>1, <1>2, <1>3 DEF Promise!Stop, Phase, Listening

(* Priorities, time slices and pulses nobody waits for are no steps.       *)
LEMMA Unseen ==
    ASSUME UNCHANGED <<state, sendq, recvq, held>>
    PROVE  UNCHANGED Promise!vars
BY DEF Promise!vars

LEMMA DoPulseSeen ==
    ASSUME IInv, NEW c \in Channel, NEW p \in Pulse, DoPulse(c, p)
    PROVE  UNCHANGED Promise!vars \/ \E s \in Thread : Promise!Notify(s, c)
<1>1. CASE PulseMeets(c)
  BY <1>1, PulseMeetsNotifies
<1>2. CASE PulseQueues(c, p) \/ PulseLost(c)
  BY <1>2, Unseen DEF PulseQueues, PulseLost, vars
<1>3. QED BY <1>1, <1>2 DEF DoPulse

LEMMA StepSeen == IInv /\ [Next]_vars => [Promise!Next]_(Promise!vars)
<1> SUFFICES ASSUME IInv, [Next]_vars, Promise!vars' # Promise!vars
             PROVE  Promise!Next
  OBVIOUS
<1>1. ASSUME NEW t \in Thread, Step(t) PROVE Promise!Next
  <2>1. ASSUME NEW c \in Channel, SendBlocks(t, c) PROVE Promise!Next
    BY <2>1, SendBlocksAsks DEF Promise!Next
  <2>2. ASSUME NEW c \in Channel, SendMeets(t, c) PROVE Promise!Next
    BY <2>2, SendMeetsMeets DEF Promise!Next
  <2>3. ASSUME NEW c \in Channel, ReceivePulse(t, c) PROVE Promise!Next
    BY <2>3, Unseen DEF ReceivePulse
  <2>4. ASSUME NEW c \in Channel, ReceiveMsg(t, c) PROVE Promise!Next
    BY <2>4, ReceiveMsgTakes DEF Promise!Next
  <2>5. ASSUME NEW c \in Channel, ReceiveBlocks(t, c) PROVE Promise!Next
    BY <2>5, ReceiveBlocksListens DEF Promise!Next
  <2>6. ASSUME NEW c \in Channel, NEW p \in Pulse, SendPulse(t, c, p) PROVE Promise!Next
    BY <2>6, DoPulseSeen DEF SendPulse, Promise!Next
  <2>7. ASSUME NEW x \in Thread, Reply(t, x) PROVE Promise!Next
    BY <2>7, ReplyAnswers DEF Promise!Next
  <2>8. ASSUME NEW x \in Thread, CreateT(t, x) PROVE Promise!Next
    BY <2>8, CreateTStarts DEF Promise!Next
  <2>9. ASSUME NEW p \in Process, NEW v \in NewPrio, SetPrior(t, p, v) PROVE Promise!Next
    BY <2>9, Unseen DEF SetPrior
  <2>10. CASE KillTh(t)
    BY <2>10, KillThStops DEF Promise!Next
  <2>11. QED BY <1>1, <2>1, <2>2, <2>3, <2>4, <2>5, <2>6, <2>7, <2>8, <2>9, <2>10 DEF Step
<1>2. CASE Tick \/ Idle
  BY <1>2, Unseen DEF Tick, Yield, Idle
<1>3. ASSUME NEW c \in Channel, NEW p \in Pulse, IRQPulse(c, p) PROVE Promise!Next
  BY <1>3, DoPulseSeen DEF IRQPulse, Promise!Next
<1>4. CASE UNCHANGED vars
  BY <1>4, Unseen DEF vars
<1>5. QED BY <1>1, <1>2, <1>3, <1>4 DEF Next, Interrupt

LEMMA InitSeen == Init => Promise!Init
<1> SUFFICES ASSUME Init PROVE Promise!Init
  OBVIOUS
<1>1. Phase \in [Thread -> {"none", "runs"}]
  BY DEF Init, Phase
<1>2. Listening = [c \in Channel |-> {}]
  BY DEF Init, Listening, On, ToSet
<1>3. QED BY <1>1, <1>2 DEF Init, Promise!Init, Phase, Listening

(* Whatever threads run when, a program sees the calls of Rendezvous: each   *)
(* call of the kernel is one of its steps or changes nothing it shows.      *)
THEOREM KernelKeepsPromise == Spec => KeepsPromise
BY InitSeen, StepSeen, IPCInvariant, PTL DEF Spec, KeepsPromise, Promise!Spec

-----------------------------------------------------------------------------
(***************************************************************************)
(* Who runs.                                                               *)
(***************************************************************************)

(* The priorities programs set are new ones: then prio = BootPrio says that *)
(* nobody has set one yet.                                                 *)
NewOnes == \A p \in Process, v \in NewPrio : v # BootPrio[p]

(* While nobody has set a priority, every thread still has the rank it      *)
(* started with: the rank reply_S and doPulse compare is the rank the       *)
(* thread is queued with.                                                  *)
BootRanks == prio = BootPrio => \A t \in Thread : thPrio[t] = BootPrio[ProcOf[t]]

BInv == IInv /\ BestRuns /\ BootRanks

(* The first of a sorted queue is never outranked.                          *)
LEMMA HeadIsBest ==
    ASSUME NEW q \in Seq(Thread), q # << >>, NEW rank \in [Thread -> Int], SortedBy(q, rank)
    PROVE  Head(q) \in Thread /\ \A u \in On(q) : rank[u] <= rank[Head(q)]
<1>1. /\ Len(q) \in Nat \ {0} /\ DOMAIN q = 1..Len(q) /\ Head(q) = q[1]
      /\ \A i \in 1..Len(q) : q[i] \in Thread
  BY OnMember, HeadTailProperties, EmptySeq
<1>2. ASSUME NEW u \in On(q) PROVE rank[u] <= rank[Head(q)]
  <2>1. PICK i \in 1..Len(q) : q[i] = u
    BY OnMember
  <2>2. rank[u] \in Int /\ rank[q[1]] \in Int
    BY <1>1, <2>1
  <2>3. i = 1 \/ rank[q[1]] >= rank[q[i]]
    BY <1>1, SMTT(40) DEF SortedBy
  <2>4. QED BY <1>1, <2>1, <2>2, <2>3
<1>3. QED BY <1>1, <1>2

(* doSwi2 gives the processor to the best thread.                          *)
LEMMA SwitchRunsBest ==
    ASSUME NEW rq \in Seq(Thread), NEW st, NEW tp \in [Thread -> Int], SortedBy(rq, tp),
           Distinct(rq), current \in Thread \cup {NullTH},
           current \in Thread /\ st[current] = "Ready" => current \in On(rq),
           DoSwitch(rq, st, tp)
    PROVE  /\ SortedBy(runq', tp)
           /\ current' # NullTH => \A u \in On(runq') : tp[u] <= tp[current']
<1> DEFINE w == Without(rq, current)
           next == IF current # NullTH /\ st[current] = "Ready"
                   THEN Enlist(w, tp, current) ELSE rq
<1>1. next \in Seq(Thread) /\ SortedBy(next, tp)
  <2>1. CASE current # NullTH /\ st[current] = "Ready"
    <3>1. current \in Thread /\ current \in On(rq)
      BY <2>1
    <3>2. w \in Seq(Thread) /\ SortedBy(w, tp)
      BY <3>1, WithoutUnlinks, WithoutSorted
    <3> HIDE DEF w
    <3>3. Enlist(w, tp, current) \in Seq(Thread) /\ SortedBy(Enlist(w, tp, current), tp)
      BY <3>1, <3>2, EnlistLinks, EnlistSorted
    <3>4. QED BY <2>1, <3>3
  <2>2. QED BY <2>1
<1>2. runq' = next /\ current' = IF next = << >> THEN NullTH ELSE Head(next)
  BY DEF DoSwitch
<1> HIDE DEF next
<1>3. QED BY <1>1, <1>2, HeadIsBest

(* What BInv says of the queue and the ranks before a step.                *)
LEMMA BestBefore ==
    ASSUME BInv
    PROVE  /\ runq \in Seq(Thread) /\ Distinct(runq) /\ SortedBy(runq, thPrio)
           /\ current \in Thread \cup {NullTH}
           /\ current \in Thread => current \in On(runq)
           /\ thPrio \in [Thread -> 0..31] /\ thPrio \in [Thread -> Int]
           /\ prio \in [Process -> 0..31] /\ ProcOf \in [Thread -> Process]
           /\ state \in [Thread -> ThState] /\ NullTH \notin Thread
           /\ IInv /\ BootRanks /\ BestRuns
<1>1. /\ IInv /\ BootRanks /\ BestRuns /\ SortedBy(runq, thPrio)
      /\ TypeOK /\ Located
  BY DEF BInv, IInv, BestRuns
<1>2. /\ Distinct(runq)
      /\ current \in Thread => current \in On(runq)
  BY <1>1 DEF Located
<1>3. /\ runq \in Seq(Thread) /\ current \in Thread \cup {NullTH}
      /\ thPrio \in [Thread -> 0..31]
      /\ prio \in [Process -> 0..31] /\ state \in [Thread -> ThState]
  BY <1>1 DEF TypeOK
<1>4. thPrio \in [Thread -> Int]
  <2>1. 0..31 \subseteq Int
    OBVIOUS
  <2>2. QED BY <1>3, <2>1
<1>5. QED BY <1>1, <1>2, <1>3, <1>4, ThreadAssumption

(* Renewing the rank of a thread that is not on the queue.                 *)
LEMMA RankedKeeps ==
    ASSUME BInv, NEW x \in Thread, prio' = prio, thPrio' = Ranked(x)
    PROVE  /\ thPrio' \in [Thread -> Int] /\ BootRanks'
           /\ prio = BootPrio => thPrio' = thPrio
           /\ \A u \in Thread \ {x} : thPrio'[u] = thPrio[u]
<1>1. /\ thPrio' = [thPrio EXCEPT ![x] = prio[ProcOf[x]]]
      /\ thPrio \in [Thread -> 0..31] /\ prio \in [Process -> 0..31]
      /\ ProcOf \in [Thread -> Process] /\ BootRanks
  BY BestBefore DEF Ranked
<1>2. thPrio' \in [Thread -> Int]
  BY <1>1
<1>3. prio = BootPrio => thPrio' = thPrio
  BY <1>1 DEF BootRanks
<1>4. BootRanks'
  BY <1>1, <1>3 DEF BootRanks
<1>5. QED BY <1>1, <1>2, <1>3, <1>4

(* A thread is put on the queue: reSched.                                  *)
LEMMA WakeSorted ==
    ASSUME BInv, NEW x \in Thread, NEW q \in Seq(Thread), SortedBy(q, thPrio),
           x \notin On(q), prio' = prio, thPrio' = Ranked(x)
    PROVE  /\ SortedBy(Enlist(q, thPrio', x), thPrio')
           /\ Enlist(q, thPrio', x) \in Seq(Thread)
           /\ On(Enlist(q, thPrio', x)) = On(q) \cup {x}
           /\ Distinct(q) => Distinct(Enlist(q, thPrio', x))
<1>1. thPrio' \in [Thread -> Int] /\ \A u \in Thread \ {x} : thPrio'[u] = thPrio[u]
  BY RankedKeeps
<1>2. \A u \in On(q) : u \in Thread /\ thPrio[u] = thPrio'[u]
  BY <1>1, OnMember
<1>3. SortedBy(q, thPrio')
  BY <1>2, SortedSame
<1>4. SortedBy(Enlist(q, thPrio', x), thPrio')
  BY <1>1, <1>3, EnlistSorted
<1>5. QED BY <1>4, EnlistLinks

(* The running thread blocks: another one runs.                            *)
LEMMA BlockRunsBest ==
    ASSUME BInv, NEW t \in Thread, Running(t), NEW st, st[t] # "Ready",
           UNCHANGED <<prio, thPrio>>, DoSwitch(Without(runq, t), st, thPrio)
    PROVE  BestRuns' /\ BootRanks'
<1>1. /\ runq \in Seq(Thread) /\ Distinct(runq) /\ SortedBy(runq, thPrio)
      /\ t \in On(runq) /\ current = t /\ thPrio \in [Thread -> Int]
      /\ BootRanks
  BY BestBefore DEF Running
<1>2. /\ Without(runq, t) \in Seq(Thread) /\ SortedBy(Without(runq, t), thPrio)
      /\ Distinct(Without(runq, t))
  BY <1>1, WithoutUnlinks, WithoutSorted
<1>3. /\ SortedBy(runq', thPrio)
      /\ current' # NullTH => \A u \in On(runq') : thPrio[u] <= thPrio[current']
  BY <1>1, <1>2, SwitchRunsBest
<1>4. QED BY <1>1, <1>3 DEF BestRuns, BootRanks

(* A thread is woken, and the running one goes on unless it is outranked    *)
(* or wants to be switched.                                                *)
LEMMA WakeRunsBest ==
    ASSUME BInv, NEW x \in Thread, state[x] # "Ready", prio' = prio, thPrio' = Ranked(x),
           state' = [state EXCEPT ![x] = "Ready"],
           NEW req \in BOOLEAN, req <=> CurrentPrio < thPrio[x],
           TasksOn(Enlist(runq, thPrio', x), state', thPrio', req)
    PROVE  BestRuns' /\ BootRanks'
<1> DEFINE rq == Enlist(runq, thPrio', x)
<1>1. /\ runq \in Seq(Thread) /\ Distinct(runq) /\ SortedBy(runq, thPrio)
      /\ current \in Thread \cup {NullTH} /\ (current \in Thread => current \in On(runq))
      /\ thPrio \in [Thread -> Int] /\ IInv /\ BestRuns /\ NullTH \notin Thread
      /\ state \in [Thread -> ThState]
  BY BestBefore
<1>2. x \notin On(runq)
  BY <1>1 DEF IInv, Located
<1>3. rq \in Seq(Thread) /\ SortedBy(rq, thPrio') /\ Distinct(rq) /\ On(rq) = On(runq) \cup {x}
  BY <1>1, <1>2, WakeSorted
<1>4. thPrio' \in [Thread -> Int] /\ BootRanks' /\ (prio = BootPrio => thPrio' = thPrio)
  BY RankedKeeps
<1>5. TasksOn(rq, state', thPrio', req)
  OBVIOUS
<1> HIDE DEF rq
<1>6. CASE req
  <2>1. DoSwitch(rq, state', thPrio')
    BY <1>5, <1>6 DEF TasksOn
  <2>2. current \in Thread => current \in On(rq)
    BY <1>1, <1>3
  <2>3. /\ SortedBy(runq', thPrio')
        /\ current' # NullTH => \A u \in On(runq') : thPrio'[u] <= thPrio'[current']
    BY <1>1, <1>3, <1>4, <2>1, <2>2, SwitchRunsBest
  <2>4. QED BY <1>4, <2>3 DEF BestRuns
<1>7. CASE ~ req
  <2>1. runq' = rq /\ current' = current
    BY <1>5, <1>7 DEF TasksOn
  <2>2. ASSUME current # NullTH, prio = BootPrio, NEW u \in On(rq)
        PROVE  thPrio'[u] <= thPrio'[current]
    <3>1. thPrio' = thPrio /\ current \in Thread /\ CurrentPrio = thPrio[current]
      BY <1>1, <1>4, <2>2 DEF CurrentPrio
    <3>2. CASE u = x
      <4>1. ~ (thPrio[current] < thPrio[x]) /\ thPrio[current] \in Int /\ thPrio[x] \in Int
        BY <1>1, <1>7, <3>1
      <4>2. QED BY <3>1, <3>2, <4>1
    <3>3. CASE u # x
      BY <1>1, <1>3, <2>2, <3>1, <3>3 DEF BestRuns
    <3>4. QED BY <3>2, <3>3
  <2>3. QED BY <1>3, <1>4, <2>1, <2>2 DEF BestRuns
<1>8. QED BY <1>6, <1>7

LEMMA SendMeetsRunsBest ==
    ASSUME BInv, NEW t \in Thread, NEW c \in Channel, SendMeets(t, c)
    PROVE  BestRuns' /\ BootRanks'
<1> DEFINE r == Head(recvq[c])
           off == Without(runq, t)
           rq == Enlist(off, thPrio', r)
<1>1. /\ runq \in Seq(Thread) /\ Distinct(runq) /\ SortedBy(runq, thPrio)
      /\ t \in On(runq) /\ current = t /\ t \in Thread /\ thPrio \in [Thread -> Int] /\ IInv
      /\ state \in [Thread -> ThState] /\ state[t] = "Ready"
  BY BestBefore, RunningReady DEF SendMeets, Running
<1>2. /\ state' = [state EXCEPT ![t] = "Reply", ![r] = "Ready"]
      /\ thPrio' = Ranked(r) /\ prio' = prio
      /\ TasksOn(Enlist(off, thPrio', r), state', thPrio', TRUE)
      /\ recvq[c] # << >>
  BY DEF SendMeets
<1>3. recvq \in [Channel -> Seq(Thread)] /\ Distinct(recvq[c])
  BY <1>1 DEF IInv, TypeOK, Located
<1>4. r \in Thread /\ state[r] = "Receive"
  BY <1>1, <1>2, <1>3, TailUnlinks DEF IInv, Located, BlockedOn
<1> HIDE DEF r
<1>5. /\ off \in Seq(Thread) /\ On(off) = On(runq) \ {t} /\ Distinct(off) /\ SortedBy(off, thPrio)
  BY <1>1, WithoutUnlinks, WithoutSorted
<1> HIDE DEF off
<1>6. r \notin On(off)
  BY <1>1, <1>4, <1>5 DEF IInv, Located
<1>7. rq \in Seq(Thread) /\ SortedBy(rq, thPrio') /\ Distinct(rq)
  BY <1>2, <1>4, <1>5, <1>6, WakeSorted
<1>8. DoSwitch(rq, state', thPrio')
  BY <1>2 DEF TasksOn
<1> HIDE DEF rq
<1>9. state'[current] = "Reply"
  BY <1>1, <1>2, <1>4
<1>10. thPrio' \in [Thread -> Int] /\ BootRanks'
  BY <1>2, <1>4, RankedKeeps
<1>11. /\ SortedBy(runq', thPrio')
       /\ current' # NullTH => \A u \in On(runq') : thPrio'[u] <= thPrio'[current']
  BY <1>1, <1>7, <1>8, <1>9, <1>10, SwitchRunsBest
<1>12. QED BY <1>10, <1>11 DEF BestRuns

LEMMA PulseRunsBest ==
    ASSUME BInv, NEW c \in Channel, NEW p \in Pulse, DoPulse(c, p)
    PROVE  BestRuns' /\ BootRanks'
<1>1. CASE PulseMeets(c)
  <2> DEFINE r == Head(recvq[c])
             req == CurrentPrio < thPrio[r]
  <2>1. /\ state' = [state EXCEPT ![r] = "Ready"] /\ thPrio' = Ranked(r) /\ prio' = prio
        /\ TasksOn(Enlist(runq, thPrio', r), state', thPrio', req)
        /\ recvq[c] # << >>
    BY <1>1 DEF PulseMeets
  <2>2. recvq \in [Channel -> Seq(Thread)] /\ Distinct(recvq[c]) /\ IInv
    BY DEF BInv, IInv, TypeOK, Located
  <2>3. r \in Thread /\ state[r] = "Receive"
    BY <2>1, <2>2, TailUnlinks DEF IInv, Located, BlockedOn
  <2>4. req \in BOOLEAN /\ (req <=> CurrentPrio < thPrio[r])
    OBVIOUS
  <2> HIDE DEF r, req
  <2>5. QED BY <2>1, <2>3, <2>4, WakeRunsBest
<1>2. CASE PulseQueues(c, p) \/ PulseLost(c)
  BY <1>2, BestBefore DEF PulseQueues, PulseLost, vars, BestRuns, BootRanks
<1>3. QED BY <1>1, <1>2 DEF DoPulse

LEMMA ReplyRunsBest ==
    ASSUME BInv, NEW t \in Thread, NEW x \in Thread, Reply(t, x)
    PROVE  BestRuns' /\ BootRanks'
<1> DEFINE req == thPrio[t] < thPrio[x]
<1>1. /\ state' = [state EXCEPT ![x] = "Ready"] /\ thPrio' = Ranked(x) /\ prio' = prio
      /\ TasksOn(Enlist(runq, thPrio', x), state', thPrio', req)
  BY DEF Reply
<1>2. state[x] # "Ready"
  BY DEF Reply, BInv, IInv, RcvIDValid
<1>3. req \in BOOLEAN /\ (req <=> CurrentPrio < thPrio[x])
  BY DEF Reply, Running, CurrentPrio
<1> HIDE DEF req
<1>4. QED BY <1>1, <1>2, <1>3, WakeRunsBest

(* A new thread has its creator's priority and does not run before him.     *)
LEMMA CreateTRunsBest ==
    ASSUME BInv, NEW t \in Thread, NEW u \in Thread, CreateT(t, u)
    PROVE  BestRuns' /\ BootRanks'
<1>1. /\ runq \in Seq(Thread) /\ Distinct(runq) /\ SortedBy(runq, thPrio)
      /\ thPrio \in [Thread -> Int] /\ IInv /\ BootRanks /\ BestRuns
      /\ current = t /\ t \in On(runq) /\ t # NullTH
  BY BestBefore DEF CreateT, Running
<1>2. /\ state[u] = "Free" /\ ProcOf[u] = ProcOf[t] /\ thPrio' = Ranked(u)
      /\ runq' = Enlist(runq, thPrio', u) /\ prio' = prio /\ current' = current
  BY DEF CreateT
<1>3. u \notin On(runq)
  BY <1>1, <1>2 DEF IInv, Located
<1>4. SortedBy(runq', thPrio') /\ On(runq') = On(runq) \cup {u}
  BY <1>1, <1>2, <1>3, WakeSorted
<1>5. BootRanks' /\ (prio = BootPrio => thPrio' = thPrio)
  BY <1>2, RankedKeeps
<1>6. ASSUME prio = BootPrio, NEW v \in On(runq') PROVE thPrio'[v] <= thPrio'[current']
  <2>1. thPrio[u] = thPrio[t] /\ thPrio[t] \in Int
    BY <1>1, <1>2, <1>6 DEF BootRanks
  <2>2. v = u \/ thPrio[v] <= thPrio[t]
    BY <1>1, <1>4, <1>6 DEF BestRuns
  <2>3. QED BY <1>1, <1>2, <1>5, <1>6, <2>1, <2>2
<1>7. QED BY <1>2, <1>4, <1>5, <1>6 DEF BestRuns

(* Yield, Tick and Idle.                                                   *)
LEMMA GiveWayRunsBest ==
    ASSUME BInv, DoSwitch(runq, state, thPrio), UNCHANGED <<prio, thPrio>>
    PROVE  BestRuns' /\ BootRanks'
<1>1. /\ SortedBy(runq', thPrio)
      /\ current' # NullTH => \A u \in On(runq') : thPrio[u] <= thPrio[current']
  BY BestBefore, SwitchRunsBest
<1>2. QED BY <1>1, BestBefore DEF BestRuns, BootRanks

LEMMA NextRunsBest == NewOnes /\ BInv /\ [Next]_vars => BInv'
<1> SUFFICES ASSUME NewOnes, BInv, [Next]_vars PROVE BestRuns' /\ BootRanks'
  BY NextKeeps DEF BInv
<1>1. ASSUME NEW t \in Thread, Step(t) PROVE BestRuns' /\ BootRanks'
  <2>1. ASSUME NEW c \in Channel, SendBlocks(t, c) PROVE BestRuns' /\ BootRanks'
    <3>1. state' = [state EXCEPT ![t] = "Send"] /\ state \in [Thread -> ThState]
      BY <2>1, BestBefore DEF SendBlocks
    <3>2. state'[t] # "Ready" /\ DoSwitch(Without(runq, t), state', thPrio)
      BY <2>1, <3>1 DEF SendBlocks, TasksOn
    <3>3. QED BY <2>1, <3>2, BlockRunsBest DEF SendBlocks
  <2>2. ASSUME NEW c \in Channel, SendMeets(t, c) PROVE BestRuns' /\ BootRanks'
    BY <2>2, SendMeetsRunsBest
  <2>3. ASSUME NEW c \in Channel, ReceivePulse(t, c) \/ ReceiveMsg(t, c)
        PROVE  BestRuns' /\ BootRanks'
    BY <2>3, BestBefore DEF ReceivePulse, ReceiveMsg, BestRuns, BootRanks
  <2>4. ASSUME NEW c \in Channel, ReceiveBlocks(t, c) PROVE BestRuns' /\ BootRanks'
    <3>1. state' = [state EXCEPT ![t] = "Receive"] /\ state \in [Thread -> ThState]
      BY <2>4, BestBefore DEF ReceiveBlocks
    <3>2. state'[t] # "Ready" /\ DoSwitch(Without(runq, t), state', thPrio)
      BY <2>4, <3>1 DEF ReceiveBlocks, TasksOn
    <3>3. QED BY <2>4, <3>2, BlockRunsBest DEF ReceiveBlocks
  <2>5. ASSUME NEW c \in Channel, NEW p \in Pulse, SendPulse(t, c, p)
        PROVE  BestRuns' /\ BootRanks'
    BY <2>5, PulseRunsBest DEF SendPulse
  <2>6. ASSUME NEW x \in Thread, Reply(t, x) PROVE BestRuns' /\ BootRanks'
    BY <2>6, ReplyRunsBest
  <2>7. ASSUME NEW x \in Thread, CreateT(t, x) PROVE BestRuns' /\ BootRanks'
    BY <2>7, CreateTRunsBest
  <2>8. ASSUME NEW p \in Process, NEW v \in NewPrio, SetPrior(t, p, v)
        PROVE  BestRuns' /\ BootRanks'
    <3>1. prio'[p] = v /\ prio' # BootPrio
      BY <2>8, BestBefore DEF SetPrior, NewOnes
    <3>2. UNCHANGED <<thPrio, runq, current>>
      BY <2>8 DEF SetPrior
    <3>3. QED BY <3>1, <3>2, BestBefore DEF BestRuns, BootRanks
  <2>9. CASE KillTh(t)
    <3>1. state' = [state EXCEPT ![t] = "Free"] /\ state \in [Thread -> ThState]
      BY <2>9, BestBefore DEF KillTh
    <3>2. state'[t] # "Ready" /\ DoSwitch(Without(runq, t), state', thPrio)
      BY <2>9, <3>1 DEF KillTh
    <3>3. QED BY <2>9, <3>2, BlockRunsBest DEF KillTh
  <2>10. QED BY <1>1, <2>1, <2>2, <2>3, <2>4, <2>5, <2>6, <2>7, <2>8, <2>9 DEF Step
<1>2. CASE Tick \/ Idle
  BY <1>2, GiveWayRunsBest DEF Tick, Yield, Idle
<1>3. ASSUME NEW c \in Channel, NEW p \in Pulse, IRQPulse(c, p) PROVE BestRuns' /\ BootRanks'
  BY <1>3, PulseRunsBest DEF IRQPulse
<1>4. CASE UNCHANGED vars
  BY <1>4, BestBefore DEF vars, BestRuns, BootRanks
<1>5. QED BY <1>1, <1>2, <1>3, <1>4 DEF Next, Interrupt

LEMMA InitRunsBest == Init => BInv
<1> SUFFICES ASSUME Init PROVE BestRuns /\ BootRanks
  BY InitIInv DEF BInv
<1>1. IInv
  BY InitIInv
<1>2. /\ runq \in Seq(Thread) /\ thPrio \in [Thread -> Int] /\ SortedBy(runq, thPrio)
      /\ current = Head(runq)
  <2>1. TypeOK
    BY <1>1 DEF IInv
  <2>2. runq \in Seq(Thread) /\ thPrio \in [Thread -> 0..31]
    BY <2>1 DEF TypeOK
  <2>3. thPrio \in [Thread -> Int]
    <3>1. 0..31 \subseteq Int
      OBVIOUS
    <3>2. QED BY <2>2, <3>1
  <2>4. SortedBy(runq, thPrio) /\ current = Head(runq)
    BY DEF Init
  <2>5. QED BY <2>2, <2>3, <2>4
<1>3. runq # << >>
  <2>1. PICK t \in Thread : t \in Boot
    BY ThreadAssumption
  <2>2. t \in On(runq)
    BY <1>1, <2>1 DEF IInv, Located, Init
  <2>3. QED BY <2>2 DEF On, ToSet
<1>4. BestRuns
  BY <1>2, <1>3, HeadIsBest DEF BestRuns
<1>5. BootRanks
  BY DEF BootRanks, Init
<1>6. QED BY <1>4, <1>5

(* The run queue is always sorted; and until somebody sets a priority, the  *)
(* running thread is never outranked by a ready one, whatever send_S,      *)
(* reply_S and the interrupts wake.                                        *)
THEOREM BestThreadRuns == NewOnes => (Spec => []BestRuns)
<1>1. BInv => BestRuns
  BY DEF BInv
<1>2. SUFFICES ASSUME NewOnes PROVE Spec => []BestRuns
  OBVIOUS
<1>3. BInv /\ [Next]_vars => BInv'
  BY <1>2, NextRunsBest
<1>4. QED BY <1>1, <1>3, InitRunsBest, PTL DEF Spec

=============================================================================

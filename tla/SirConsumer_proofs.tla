-------------------------- MODULE SirConsumer_proofs --------------------------
(***************************************************************************)
(* Proofs about the sir-core consumer, for any set of processes, any       *)
(* finite set of jobs, whatever becomes of them, and any number of faults. *)
(***************************************************************************)
EXTENDS SirConsumer, FiniteSetTheorems, Functions, TLAPS

-----------------------------------------------------------------------------
(* Sequences without repetition. *)

Values(s) == {s[k] : k \in DOMAIN s}
Distinct(s) == \A k, l \in DOMAIN s : s[k] = s[l] => k = l

LEMMA EmptyValues == Values(<<>>) = {} /\ Distinct(<<>>)
BY DEF Values, Distinct

LEMMA AppendValues ==
  ASSUME NEW S, NEW s \in Seq(S), NEW e \in S
  PROVE  /\ Append(s, e) \in Seq(S)
         /\ Values(Append(s, e)) = Values(s) \cup {e}
         /\ Distinct(s) /\ e \notin Values(s) => Distinct(Append(s, e))
<1> DEFINE t == Append(s, e)
<1>1. /\ t \in Seq(S) /\ Len(s) \in Nat /\ DOMAIN s = 1..Len(s)
      /\ DOMAIN t = 1..(Len(s) + 1)
      /\ t[Len(s) + 1] = e /\ \A k \in 1..Len(s) : t[k] = s[k]
  OBVIOUS
<1>2. DOMAIN t = (1..Len(s)) \cup {Len(s) + 1}
  BY <1>1
<1> HIDE DEF t
<1>3. Values(t) = Values(s) \cup {e}
  BY <1>1, <1>2 DEF Values
<1>4. ASSUME Distinct(s), e \notin Values(s)
      PROVE  Distinct(t)
  BY <1>1, <1>2, <1>4 DEF Distinct, Values
<1> QED
  BY <1>1, <1>3, <1>4 DEF t

LEMMA TailValues ==
  ASSUME NEW S, NEW s \in Seq(S), s # <<>>
  PROVE  /\ Head(s) \in S /\ Tail(s) \in Seq(S)
         /\ Values(s) = Values(Tail(s)) \cup {Head(s)}
         /\ Distinct(s) => Distinct(Tail(s)) /\ Head(s) \notin Values(Tail(s))
<1> DEFINE t == Tail(s)
<1>1. /\ Head(s) \in S /\ t \in Seq(S) /\ Len(s) \in Nat \ {0}
      /\ DOMAIN s = 1..Len(s) /\ DOMAIN t = 1..(Len(s) - 1)
      /\ Head(s) = s[1] /\ \A k \in 1..(Len(s) - 1) : t[k] = s[k + 1]
  OBVIOUS
<1> HIDE DEF t
<1>2. Values(s) \subseteq Values(t) \cup {Head(s)}
  <2> SUFFICES ASSUME NEW k \in 1..Len(s)
               PROVE  s[k] \in Values(t) \cup {Head(s)}
    BY <1>1 DEF Values
  <2>1. CASE k = 1
    BY <2>1, <1>1
  <2>2. CASE k # 1
    <3>1. k - 1 \in 1..(Len(s) - 1) /\ (k - 1) + 1 = k
      BY <2>2, <1>1
    <3>2. s[k] = t[k - 1] /\ k - 1 \in DOMAIN t
      BY <1>1, <3>1
    <3> QED BY <3>2 DEF Values
  <2> QED BY <2>1, <2>2
<1>3. Values(t) \cup {Head(s)} \subseteq Values(s)
  BY <1>1 DEF Values
<1>4. ASSUME Distinct(s)
      PROVE  Distinct(t) /\ Head(s) \notin Values(t)
  <2>1. Distinct(t)
    <3> SUFFICES ASSUME NEW k \in 1..(Len(s) - 1), NEW l \in 1..(Len(s) - 1), t[k] = t[l]
                 PROVE  k = l
      BY <1>1 DEF Distinct
    <3>1. k + 1 \in DOMAIN s /\ l + 1 \in DOMAIN s /\ s[k + 1] = s[l + 1]
      BY <1>1
    <3> QED BY <3>1, <1>4 DEF Distinct
  <2>2. Head(s) \notin Values(t)
    <3> SUFFICES ASSUME NEW k \in 1..(Len(s) - 1), t[k] = Head(s)
                 PROVE  FALSE
      BY <1>1 DEF Values
    <3>1. k + 1 \in DOMAIN s /\ 1 \in DOMAIN s /\ s[k + 1] = s[1] /\ k + 1 # 1
      BY <1>1
    <3> QED BY <3>1, <1>4 DEF Distinct
  <2> QED BY <2>1, <2>2
<1> QED
  BY <1>1, <1>2, <1>3, <1>4 DEF t

\* A sequence without repetition has as many values as places.
LEMMA DistinctCardinality ==
  ASSUME NEW S, NEW s \in Seq(S), Distinct(s)
  PROVE  IsFiniteSet(Values(s)) /\ Cardinality(Values(s)) = Len(s)
<1>1. Len(s) \in Nat /\ DOMAIN s = 1..Len(s)
  OBVIOUS
<1>2. s \in Surjection(1..Len(s), Values(s)) /\ s \in Injection(1..Len(s), Values(s))
  <2>1. s \in [1..Len(s) -> Values(s)]
    BY <1>1 DEF Values
  <2>2. \A v \in Values(s) : \E k \in 1..Len(s) : s[k] = v
    BY <1>1 DEF Values
  <2>3. \A k, l \in 1..Len(s) : s[k] = s[l] => k = l
    BY <1>1 DEF Distinct
  <2> QED BY <2>1, <2>2, <2>3, <1>1 DEF Surjection, Injection, IsInjective
<1>3. IsFiniteSet(1..Len(s)) /\ Cardinality(1..Len(s)) = Len(s)
  BY <1>1, FS_Interval
<1> QED
  BY <1>2, <1>3, FS_Surjection

-----------------------------------------------------------------------------
(* Type correctness. *)

LEMMA TypeInit == Init => TypeOK
BY FaultsAssumption DEF Init, TypeOK, Alive

\* A process that ends leaves a well-typed state.
LEMMA ExitType ==
  ASSUME TypeOK, NEW w \in Workers, Exit(w), UNCHANGED brokerUp,
         transformed' \in SUBSET Jobs, faults' \in 0..MaxFaults
  PROVE  TypeOK'
BY DEF TypeOK, Exit, CloseChannel, Requeued, Alive

LEMMA BrokerType ==
  ASSUME TypeOK, StartBroker \/ \E j \in Jobs : Publish(j)
  PROVE  TypeOK'
BY DEF TypeOK, StartBroker, Publish

LEMMA DeliverType ==
  ASSUME TypeOK, NEW w \in Workers, NEW j \in Jobs, Deliver(w, j)
  PROVE  TypeOK'
<1>1. buffer' \in [Workers -> Seq(Jobs)]
  <2>1. Append(buffer[w], j) \in Seq(Jobs)
    BY AppendValues DEF TypeOK
  <2> QED BY <2>1 DEF Deliver, TypeOK
<1> QED
  BY <1>1 DEF TypeOK, Deliver

LEMMA TakeType ==
  ASSUME TypeOK, NEW w \in Workers, Take(w)
  PROVE  TypeOK'
<1>1. Head(buffer[w]) \in Jobs /\ Tail(buffer[w]) \in Seq(Jobs)
  BY TailValues DEF TypeOK, Take
<1> QED
  BY <1>1 DEF TypeOK, Take

LEMMA HandleType ==
  ASSUME TypeOK, NEW w \in Workers, NEW j \in Jobs, Handle(w, j)
  PROVE  TypeOK'
<1>0. ASSUME NEW to \in {"acked", "ready"}, Settle(w, j, to)
      PROVE  /\ place' \in [Jobs -> {"unpublished", "ready", "unacked", "acked"}]
             /\ unacked' \in [Workers -> SUBSET Jobs]
  <2>1. CASE channel[w]
    <3>1. /\ place' = [place EXCEPT ![j] = to]
          /\ unacked' = [unacked EXCEPT ![w] = @ \ {j}]
      BY <1>0, <2>1 DEF Settle
    <3>2. place' \in [Jobs -> {"unpublished", "ready", "unacked", "acked"}]
      BY <3>1, <1>0 DEF TypeOK
    <3>3. unacked' \in [Workers -> SUBSET Jobs]
      BY <3>1 DEF TypeOK
    <3> QED BY <3>2, <3>3
  <2>2. CASE ~channel[w]
    BY <1>0, <2>2 DEF Settle, TypeOK
  <2> QED BY <2>1, <2>2
<1>1. CASE Complete(w, j)
  <2>1. current' \in [Workers -> SUBSET Jobs] /\ transformed' \in SUBSET Jobs
    BY <1>1 DEF Complete, TypeOK
  <2>2. Settle(w, j, "acked") /\ UNCHANGED <<brokerUp, channel, mode, buffer, faults>>
    BY <1>1 DEF Complete
  <2> QED BY <1>0, <2>1, <2>2 DEF TypeOK
<1>2. CASE Reject(w, j)
  <2>1. current' \in [Workers -> SUBSET Jobs]
    BY <1>2 DEF Reject, TypeOK
  <2>2. Settle(w, j, "ready") /\ UNCHANGED <<brokerUp, channel, mode, buffer, transformed, faults>>
    BY <1>2 DEF Reject
  <2> QED BY <1>0, <2>1, <2>2 DEF TypeOK
<1>3. CASE Panic(w, j)
  BY <1>3, ExitType DEF Panic, TypeOK
<1> QED
  BY <1>1, <1>2, <1>3 DEF Handle

\* A process connects or starts again.
LEMMA StartType ==
  ASSUME TypeOK, NEW w \in Workers, Connect(w) \/ Restart(w)
  PROVE  TypeOK'
BY DEF TypeOK, Connect, Restart, Alive

\* A connection is lost, or a process ends.
LEMMA EndType ==
  ASSUME TypeOK, NEW w \in Workers, EndStream(w) \/ Disconnect(w) \/ Crash(w)
  PROVE  TypeOK'
<1>1. CASE EndStream(w)
  BY <1>1, ExitType DEF EndStream, TypeOK
<1>2. CASE Disconnect(w)
  BY <1>2, FaultsAssumption DEF Disconnect, Fault, CloseChannel, Requeued, TypeOK
<1>3. CASE Crash(w)
  BY <1>3, ExitType, FaultsAssumption DEF Crash, Fault, TypeOK
<1> QED
  BY <1>1, <1>2, <1>3

LEMMA TypeStep == TypeOK /\ [Next]_vars => TypeOK'
<1> SUFFICES ASSUME TypeOK, [Next]_vars
             PROVE  TypeOK'
  OBVIOUS
<1>1. CASE StartBroker \/ \E j \in Jobs : Publish(j)
  BY <1>1, BrokerType
<1>2. ASSUME NEW w \in Workers, Step(w)
      PROVE  TypeOK'
  BY <1>2, DeliverType, TakeType, HandleType, StartType, EndType DEF Step
<1>3. CASE UNCHANGED vars
  BY <1>3 DEF vars, TypeOK
<1> QED
  BY <1>1, <1>2, <1>3 DEF Next

\* The state of broker and processes always has its type.
THEOREM ConsumerTypeCorrect == Spec => []TypeOK
<1> QED BY TypeInit, TypeStep, PTL DEF Spec

-----------------------------------------------------------------------------
(* Only transformed jobs are acknowledged. *)

LEMMA AckedStep == TypeOK /\ OnlyTransformedIsAcked /\ [Next]_vars => OnlyTransformedIsAcked'
<1> SUFFICES ASSUME TypeOK, OnlyTransformedIsAcked, [Next]_vars
             PROVE  OnlyTransformedIsAcked'
  OBVIOUS
<1>0. ASSUME UNCHANGED <<place, transformed>>
      PROVE  OnlyTransformedIsAcked'
  BY <1>0 DEF OnlyTransformedIsAcked
<1>1. ASSUME NEW w \in Workers, CloseChannel(w), UNCHANGED transformed
      PROVE  OnlyTransformedIsAcked'
  BY <1>1 DEF CloseChannel, Requeued, OnlyTransformedIsAcked
<1>2. CASE StartBroker \/ \E j \in Jobs : Publish(j)
  BY <1>2 DEF StartBroker, Publish, OnlyTransformedIsAcked, TypeOK
<1>3. ASSUME NEW w \in Workers, Step(w)
      PROVE  OnlyTransformedIsAcked'
  <2>1. CASE Connect(w) \/ Take(w) \/ Restart(w)
    BY <1>0, <2>1 DEF Connect, Take, Restart
  <2>2. CASE EndStream(w) \/ Disconnect(w) \/ Crash(w)
    BY <1>1, <2>2 DEF EndStream, Disconnect, Crash, Exit
  <2>3. ASSUME NEW j \in Jobs, Deliver(w, j)
        PROVE  OnlyTransformedIsAcked'
    BY <2>3 DEF Deliver, OnlyTransformedIsAcked, TypeOK
  <2>4. ASSUME NEW j \in Jobs, Complete(w, j)
        PROVE  OnlyTransformedIsAcked'
    BY <2>4 DEF Complete, Settle, OnlyTransformedIsAcked, TypeOK
  <2>5. ASSUME NEW j \in Jobs, Reject(w, j)
        PROVE  OnlyTransformedIsAcked'
    BY <2>5 DEF Reject, Settle, OnlyTransformedIsAcked, TypeOK
  <2>6. ASSUME NEW j \in Jobs, Panic(w, j)
        PROVE  OnlyTransformedIsAcked'
    BY <1>1, <2>6 DEF Panic, Exit
  <2> QED BY <1>3, <2>1, <2>2, <2>3, <2>4, <2>5, <2>6 DEF Step, Handle
<1>4. CASE UNCHANGED vars
  BY <1>0, <1>4 DEF vars
<1> QED
  BY <1>2, <1>3, <1>4 DEF Next

\* A job leaves the queue for good only after process_job returned Ok for it.
THEOREM AckedIsTransformed == Spec => []OnlyTransformedIsAcked
<1>1. Init => OnlyTransformedIsAcked
  BY DEF Init, OnlyTransformedIsAcked
<1> QED BY <1>1, AckedStep, ConsumerTypeCorrect, PTL DEF Spec
-----------------------------------------------------------------------------
(* Ownership.  NoJobLost and UnackedIsHeld need each other: a job settled  *)
(* must be the process's to settle, and a job delivered must be nobody's.  *)
(* WorkerOK says of one process that it holds what its channel has not     *)
(* settled, each job once, and nothing when it is not consuming.           *)

WorkerOK(w) ==
  /\ mode[w] # "consuming" => ~channel[w] /\ buffer[w] = <<>> /\ current[w] = {}
  /\ ~channel[w] => unacked[w] = {}
  /\ \A i, j \in current[w] : i = j
  /\ channel[w] => /\ unacked[w] = Values(buffer[w]) \cup current[w]
                   /\ Distinct(buffer[w])
                   /\ Values(buffer[w]) \cap current[w] = {}

OwnerOK ==
  \A j \in Jobs :
    /\ (place[j] = "unacked") <=> (\E w \in Workers : j \in unacked[w])
    /\ \A v, w \in Workers : j \in unacked[v] /\ j \in unacked[w] => v = w

ConsumerInv == TypeOK /\ OwnerOK /\ \A w \in Workers : WorkerOK(w)

LEMMA OwnerInit == Init => ConsumerInv
<1> SUFFICES ASSUME Init
             PROVE  ConsumerInv
  OBVIOUS
<1>1. TypeOK
  BY TypeInit
<1>2. OwnerOK
  BY DEF Init, OwnerOK
<1>3. \A w \in Workers : WorkerOK(w)
  BY DEF Init, WorkerOK
<1> QED
  BY <1>1, <1>2, <1>3 DEF ConsumerInv

\* A step does not concern the processes whose state it leaves alone.
LEMMA Frame ==
  ASSUME NEW v \in Workers, WorkerOK(v), mode'[v] = mode[v], channel'[v] = channel[v],
         unacked'[v] = unacked[v], buffer'[v] = buffer[v], current'[v] = current[v]
  PROVE  WorkerOK(v)'
BY DEF WorkerOK

\* Closing a channel puts back what it had not settled.
LEMMA CloseOwner ==
  ASSUME ConsumerInv, NEW w \in Workers, CloseChannel(w)
  PROVE  OwnerOK'
<1>1. /\ unacked'[w] = {}
      /\ \A v \in Workers \ {w} : unacked'[v] = unacked[v]
      /\ \A j \in Jobs : place'[j] = IF j \in unacked[w] THEN "ready" ELSE place[j]
  BY DEF CloseChannel, Requeued, ConsumerInv, TypeOK
<1> SUFFICES ASSUME NEW j \in Jobs
             PROVE  /\ (place'[j] = "unacked") <=> (\E v \in Workers : j \in unacked'[v])
                    /\ \A u, v \in Workers : j \in unacked'[u] /\ j \in unacked'[v] => u = v
  BY DEF OwnerOK
<1>2. \A u, v \in Workers : j \in unacked'[u] /\ j \in unacked'[v] => u = v
  BY <1>1 DEF ConsumerInv, OwnerOK
<1>3. CASE j \in unacked[w]
  <2>1. \A v \in Workers \ {w} : j \notin unacked[v]
    BY <1>3 DEF ConsumerInv, OwnerOK
  <2> QED BY <1>1, <1>2, <1>3, <2>1
<1>4. CASE j \notin unacked[w]
  <2>1. (place[j] = "unacked") <=> (\E v \in Workers : j \in unacked[v])
    BY DEF ConsumerInv, OwnerOK
  <2> QED BY <1>1, <1>2, <1>4, <2>1
<1> QED
  BY <1>3, <1>4

LEMMA ExitOwner ==
  ASSUME ConsumerInv, NEW w \in Workers, Exit(w)
  PROVE  OwnerOK' /\ \A v \in Workers : WorkerOK(v)'
<1>1. OwnerOK'
  BY CloseOwner DEF Exit
<1>2. /\ mode'[w] = "exited" /\ ~channel'[w] /\ unacked'[w] = {}
      /\ buffer'[w] = <<>> /\ current'[w] = {}
  BY DEF Exit, CloseChannel, ConsumerInv, TypeOK
<1>3. WorkerOK(w)'
  BY <1>2 DEF WorkerOK
<1>4. ASSUME NEW v \in Workers, v # w
      PROVE  WorkerOK(v)'
  BY <1>4, Frame DEF Exit, CloseChannel, ConsumerInv, TypeOK
<1> QED
  BY <1>1, <1>3, <1>4

LEMMA DisconnectOwner ==
  ASSUME ConsumerInv, NEW w \in Workers, Disconnect(w)
  PROVE  OwnerOK' /\ \A v \in Workers : WorkerOK(v)'
<1>1. OwnerOK'
  BY CloseOwner DEF Disconnect
<1>2. ~channel'[w] /\ unacked'[w] = {} /\ UNCHANGED <<mode, buffer, current>>
  BY DEF Disconnect, CloseChannel, ConsumerInv, TypeOK
<1>3. WorkerOK(w)'
  BY <1>2 DEF WorkerOK, ConsumerInv
<1>4. ASSUME NEW v \in Workers, v # w
      PROVE  WorkerOK(v)'
  BY <1>4, Frame DEF Disconnect, CloseChannel, ConsumerInv, TypeOK
<1> QED
  BY <1>1, <1>3, <1>4

LEMMA DeliverOwner ==
  ASSUME ConsumerInv, NEW w \in Workers, NEW j \in Jobs, Deliver(w, j)
  PROVE  OwnerOK' /\ \A v \in Workers : WorkerOK(v)'
<1>1. place[j] = "ready" /\ \A v \in Workers : j \notin unacked[v]
  BY DEF Deliver, IsNextReady, ConsumerInv, OwnerOK
<1>2. /\ place' = [place EXCEPT ![j] = "unacked"]
      /\ unacked' = [unacked EXCEPT ![w] = unacked[w] \cup {j}]
      /\ buffer' = [buffer EXCEPT ![w] = Append(buffer[w], j)]
      /\ channel[w] /\ UNCHANGED <<channel, mode, current>>
  BY DEF Deliver
<1>3. /\ place'[j] = "unacked" /\ \A i \in Jobs \ {j} : place'[i] = place[i]
      /\ unacked'[w] = unacked[w] \cup {j} /\ \A v \in Workers \ {w} : unacked'[v] = unacked[v]
      /\ buffer'[w] = Append(buffer[w], j) /\ \A v \in Workers \ {w} : buffer'[v] = buffer[v]
  BY <1>2 DEF ConsumerInv, TypeOK
<1>4. OwnerOK'
  <2>1. ASSUME NEW i \in Jobs, i # j
        PROVE  \A v \in Workers : i \in unacked'[v] <=> i \in unacked[v]
    BY <1>3, <2>1
  <2>2. \A v \in Workers : j \in unacked'[v] <=> v = w
    BY <1>1, <1>3
  <2> QED BY <1>3, <2>1, <2>2 DEF ConsumerInv, OwnerOK
<1>5. WorkerOK(w)'
  <2>1. /\ buffer[w] \in Seq(Jobs) /\ mode[w] = "consuming"
        /\ unacked[w] = Values(buffer[w]) \cup current[w]
        /\ Distinct(buffer[w]) /\ Values(buffer[w]) \cap current[w] = {}
        /\ \A i, k \in current[w] : i = k
    BY <1>2 DEF ConsumerInv, TypeOK, WorkerOK
  <2>2. j \notin Values(buffer[w]) /\ j \notin current[w]
    BY <1>1, <2>1
  <2>3. /\ Values(buffer'[w]) = Values(buffer[w]) \cup {j}
        /\ Distinct(buffer'[w])
    BY <1>3, <2>1, <2>2, AppendValues
  <2> QED BY <1>2, <1>3, <2>1, <2>2, <2>3 DEF WorkerOK
<1>6. ASSUME NEW v \in Workers, v # w
      PROVE  WorkerOK(v)'
  BY <1>2, <1>3, <1>6, Frame DEF ConsumerInv
<1> QED
  BY <1>4, <1>5, <1>6

LEMMA TakeOwner ==
  ASSUME ConsumerInv, NEW w \in Workers, Take(w)
  PROVE  OwnerOK' /\ \A v \in Workers : WorkerOK(v)'
<1>1. /\ mode[w] = "consuming" /\ current[w] = {} /\ buffer[w] # <<>>
      /\ UNCHANGED <<place, unacked, channel, mode>>
  BY DEF Take
<1>2. /\ current'[w] = {Head(buffer[w])} /\ \A v \in Workers \ {w} : current'[v] = current[v]
      /\ buffer'[w] = Tail(buffer[w]) /\ \A v \in Workers \ {w} : buffer'[v] = buffer[v]
  BY DEF Take, ConsumerInv, TypeOK
<1>3. OwnerOK'
  BY <1>1 DEF ConsumerInv, OwnerOK
<1>4. WorkerOK(w)'
  <2>1. buffer[w] \in Seq(Jobs)
    BY DEF ConsumerInv, TypeOK
  <2>2. /\ Values(buffer[w]) = Values(buffer'[w]) \cup current'[w]
        /\ Distinct(buffer[w]) => Distinct(buffer'[w]) /\ Values(buffer'[w]) \cap current'[w] = {}
    BY <1>1, <1>2, <2>1, TailValues
  <2> QED BY <1>1, <1>2, <2>2 DEF ConsumerInv, WorkerOK
<1>5. ASSUME NEW v \in Workers, v # w
      PROVE  WorkerOK(v)'
  BY <1>1, <1>2, <1>5, Frame DEF ConsumerInv
<1> QED
  BY <1>3, <1>4, <1>5

\* An acknowledgement or a rejection settles the job the process was at,
\* which on an open channel was the process's and nobody else's.
LEMMA SettleOwner ==
  ASSUME ConsumerInv, NEW w \in Workers, NEW j \in Jobs, NEW to \in {"acked", "ready"},
         current[w] = {j}, Settle(w, j, to), current' = [current EXCEPT ![w] = {}],
         UNCHANGED <<channel, mode, buffer>>
  PROVE  OwnerOK' /\ \A v \in Workers : WorkerOK(v)'
<1>1. current'[w] = {} /\ \A v \in Workers \ {w} : current'[v] = current[v]
  BY DEF ConsumerInv, TypeOK
<1>2. CASE channel[w]
  <2>1. /\ place' = [place EXCEPT ![j] = to]
        /\ unacked' = [unacked EXCEPT ![w] = unacked[w] \ {j}]
    BY <1>2 DEF Settle
  <2>2. /\ place'[j] = to /\ \A i \in Jobs \ {j} : place'[i] = place[i]
        /\ unacked'[w] = unacked[w] \ {j} /\ \A v \in Workers \ {w} : unacked'[v] = unacked[v]
    BY <2>1 DEF ConsumerInv, TypeOK
  <2>3. /\ unacked[w] = Values(buffer[w]) \cup {j} /\ j \notin Values(buffer[w])
        /\ Distinct(buffer[w])
    BY <1>2 DEF ConsumerInv, WorkerOK
  <2>4. OwnerOK'
    <3>1. \A v \in Workers : j \notin unacked'[v]
      BY <2>2, <2>3 DEF ConsumerInv, OwnerOK
    <3>2. ASSUME NEW i \in Jobs, i # j
          PROVE  \A v \in Workers : i \in unacked'[v] <=> i \in unacked[v]
      BY <2>2, <3>2
    <3> QED BY <2>2, <3>1, <3>2 DEF ConsumerInv, OwnerOK
  <2>5. WorkerOK(w)'
    BY <1>1, <1>2, <2>2, <2>3 DEF ConsumerInv, WorkerOK
  <2>6. ASSUME NEW v \in Workers, v # w
        PROVE  WorkerOK(v)'
    BY <1>1, <2>2, <2>6, Frame DEF ConsumerInv
  <2> QED BY <2>4, <2>5, <2>6
<1>3. CASE ~channel[w]
  <2>1. UNCHANGED <<place, unacked>>
    BY <1>3 DEF Settle
  <2>2. OwnerOK'
    BY <2>1 DEF ConsumerInv, OwnerOK
  <2>3. WorkerOK(w)'
    BY <1>1, <1>3, <2>1 DEF ConsumerInv, WorkerOK
  <2>4. ASSUME NEW v \in Workers, v # w
        PROVE  WorkerOK(v)'
    BY <1>1, <2>1, <2>4, Frame DEF ConsumerInv
  <2> QED BY <2>2, <2>3, <2>4
<1> QED
  BY <1>2, <1>3

\* A process connects or starts again, with nothing in its hands.
LEMMA StartOwner ==
  ASSUME ConsumerInv, NEW w \in Workers, Connect(w) \/ Restart(w)
  PROVE  OwnerOK' /\ \A v \in Workers : WorkerOK(v)'
<1>1. UNCHANGED <<place, unacked, buffer, current>> /\ mode[w] \in {"starting", "exited"}
  BY DEF Connect, Restart
<1>2. /\ mode'[w] \in {"consuming", "standalone", "starting"}
      /\ channel'[w] => mode'[w] = "consuming"
      /\ \A v \in Workers \ {w} : mode'[v] = mode[v] /\ channel'[v] = channel[v]
  <2>1. CASE Connect(w)
    BY <2>1 DEF Connect, ConsumerInv, TypeOK
  <2>2. CASE Restart(w)
    BY <2>2 DEF Restart, ConsumerInv, TypeOK, WorkerOK
  <2> QED BY <2>1, <2>2
<1>3. OwnerOK'
  BY <1>1 DEF ConsumerInv, OwnerOK
<1>4. WorkerOK(w)'
  <2>1. ~channel[w] /\ unacked[w] = {} /\ buffer[w] = <<>> /\ current[w] = {}
    BY <1>1 DEF ConsumerInv, WorkerOK
  <2> QED BY <1>1, <1>2, <2>1, EmptyValues DEF WorkerOK
<1>5. ASSUME NEW v \in Workers, v # w
      PROVE  WorkerOK(v)'
  BY <1>1, <1>2, <1>5, Frame DEF ConsumerInv
<1> QED
  BY <1>3, <1>4, <1>5

\* The broker starts or takes a message: no process is concerned.
LEMMA BrokerOwner ==
  ASSUME ConsumerInv, StartBroker \/ \E j \in Jobs : Publish(j)
  PROVE  OwnerOK' /\ \A v \in Workers : WorkerOK(v)'
<1>1. UNCHANGED <<unacked, channel, mode, buffer, current>>
  BY DEF StartBroker, Publish
<1>2. \A v \in Workers : WorkerOK(v)'
  BY <1>1, Frame DEF ConsumerInv
<1>3. CASE StartBroker
  BY <1>1, <1>2, <1>3 DEF StartBroker, ConsumerInv, OwnerOK
<1>4. ASSUME NEW j \in Jobs, Publish(j)
      PROVE  OwnerOK'
  <2>1. place[j] = "unpublished" /\ place' = [place EXCEPT ![j] = "ready"]
    BY <1>4 DEF Publish
  <2>2. \A i \in Jobs : place'[i] = "unacked" <=> place[i] = "unacked"
    BY <2>1 DEF ConsumerInv, TypeOK
  <2> QED BY <1>1, <2>2 DEF ConsumerInv, OwnerOK
<1> QED
  BY <1>2, <1>3, <1>4

LEMMA OwnerStep == ConsumerInv /\ [Next]_vars => ConsumerInv'
<1> SUFFICES ASSUME ConsumerInv, [Next]_vars
             PROVE  OwnerOK' /\ \A v \in Workers : WorkerOK(v)'
  BY TypeStep DEF ConsumerInv
<1>1. CASE StartBroker \/ \E j \in Jobs : Publish(j)
  BY <1>1, BrokerOwner
<1>2. ASSUME NEW w \in Workers, Step(w)
      PROVE  OwnerOK' /\ \A v \in Workers : WorkerOK(v)'
  <2>1. ASSUME NEW j \in Jobs, Handle(w, j)
        PROVE  OwnerOK' /\ \A v \in Workers : WorkerOK(v)'
    <3>1. CASE Complete(w, j)
      BY <3>1, SettleOwner DEF Complete
    <3>2. CASE Reject(w, j)
      BY <3>2, SettleOwner DEF Reject
    <3>3. CASE Panic(w, j)
      BY <3>3, ExitOwner DEF Panic
    <3> QED BY <2>1, <3>1, <3>2, <3>3 DEF Handle
  <2>2. CASE Take(w)
    BY <2>2, TakeOwner
  <2>3. CASE Connect(w) \/ Restart(w)
    BY <2>3, StartOwner
  <2>4. CASE EndStream(w) \/ Crash(w)
    BY <2>4, ExitOwner DEF EndStream, Crash
  <2>5. CASE Disconnect(w)
    BY <2>5, DisconnectOwner
  <2> QED BY <1>2, <2>1, <2>2, <2>3, <2>4, <2>5, DeliverOwner DEF Step
<1>3. CASE UNCHANGED vars
  <2>1. UNCHANGED <<place, unacked, channel, mode, buffer, current>>
    BY <1>3 DEF vars
  <2>2. OwnerOK'
    BY <2>1 DEF ConsumerInv, OwnerOK
  <2> QED BY <2>1, <2>2, Frame DEF ConsumerInv
<1> QED
  BY <1>1, <1>2, <1>3 DEF Next

LEMMA OwnerInvariant == Spec => []ConsumerInv
<1> QED BY OwnerInit, OwnerStep, PTL DEF Spec

\* No published job is lost or held twice by the broker, whatever processes
\* and connections do.
THEOREM JobsAreKept == Spec => []NoJobLost
<1>1. ConsumerInv => NoJobLost
  <2> SUFFICES ASSUME ConsumerInv
               PROVE  NoJobLost
    OBVIOUS
  <2>1. \A w \in Workers : unacked[w] # {} => channel[w]
    BY DEF ConsumerInv, WorkerOK
  <2> QED BY <2>1 DEF ConsumerInv, OwnerOK, NoJobLost
<1> QED BY <1>1, OwnerInvariant, PTL

\* What an open channel has not settled is what the process behind it holds,
\* each job once, though no prefetch bounds how much that is.
THEOREM UnackedAreHeld == Spec => []UnackedIsHeld
<1>1. ConsumerInv => UnackedIsHeld
  <2> SUFFICES ASSUME ConsumerInv, NEW w \in Workers, channel[w]
               PROVE  /\ unacked[w] = Held(w)
                      /\ Len(buffer[w]) + Cardinality(current[w]) = Cardinality(unacked[w])
    BY DEF UnackedIsHeld
  <2>1. /\ unacked[w] = Values(buffer[w]) \cup current[w]
        /\ Distinct(buffer[w]) /\ Values(buffer[w]) \cap current[w] = {}
        /\ \A i, j \in current[w] : i = j
        /\ buffer[w] \in Seq(Jobs)
    BY DEF ConsumerInv, WorkerOK, TypeOK
  <2>2. unacked[w] = Held(w)
    BY <2>1 DEF Held, Values
  <2>3. IsFiniteSet(Values(buffer[w])) /\ Cardinality(Values(buffer[w])) = Len(buffer[w])
    BY <2>1, DistinctCardinality
  <2>4. Len(buffer[w]) \in Nat
    BY <2>1
  <2>5. CASE current[w] = {}
    <3>1. Values(buffer[w]) \cup current[w] = Values(buffer[w])
      BY <2>5
    <3>2. Cardinality(unacked[w]) = Len(buffer[w])
      BY <2>1, <2>3, <3>1
    <3>3. Cardinality(current[w]) = 0
      BY <2>5, FS_EmptySet
    <3> QED BY <2>2, <2>4, <3>2, <3>3 DEF Held
  <2>6. CASE current[w] # {}
    <3>1. PICK j : current[w] = {j}
      <4>1. PICK j : j \in current[w]
        BY <2>6
      <4>2. current[w] = {j}
        BY <2>1, <4>1
      <4> QED BY <4>2
    <3>2. j \notin Values(buffer[w])
      BY <2>1, <3>1
    <3>3. Cardinality(Values(buffer[w]) \cup {j}) = Len(buffer[w]) + 1
      BY <2>3, <3>2, FS_AddElement
    <3>4. Cardinality(current[w]) = 1
      BY <3>1, FS_Singleton
    <3> QED BY <2>1, <2>2, <3>1, <3>3, <3>4
  <2> QED BY <2>5, <2>6
<1> QED BY <1>1, OwnerInvariant, PTL

\* Two processes transform one job at once only if one of them has lost its
\* channel.
THEOREM TransformersDiffer == Spec => []OneLiveTransformer
<1>1. ConsumerInv => OneLiveTransformer
  <2> SUFFICES ASSUME ConsumerInv, NEW v \in Workers, NEW w \in Workers,
                      v # w, channel[v], channel[w],
                      NEW j \in current[v], j \in current[w]
               PROVE  FALSE
    BY DEF OneLiveTransformer
  <2>1. j \in unacked[v] /\ j \in unacked[w] /\ j \in Jobs
    BY DEF ConsumerInv, WorkerOK, TypeOK
  <2> QED BY <2>1 DEF ConsumerInv, OwnerOK
<1> QED BY <1>1, OwnerInvariant, PTL
=============================================================================

--------------------------- MODULE EventLoopProofs ---------------------------
(* Proofs about EventLoop and its timer provider, for any number of timers,  *)
(* microtasks and units of fuel, any delays and any length of time.          *)
EXTENDS EventLoop, FiniteSetTheorems, SequenceTheorems, TLAPS

(* An arming on its way through the provider.  Only the current one of an id *)
(* carries the deadline of the machine's record.                             *)
Arming(x) ==
    /\ 0 < x.generation /\ x.generation < nextGeneration
    /\ x.generation = pending[x.id] => x.deadline = deadline[x.id]

(* No arming reaches the expiry channel before its deadline.                 *)
InFlight ==
    /\ \A k \in 1..Len(commands) :
          commands[k].op = "schedule" =>
              Arming(commands[k]) /\ commands[k].deadline <= now + commands[k].delay
    /\ \A e \in delayQueue : Arming(e) /\ e.deadline <= e.due
    /\ \A k \in 1..Len(expiries) : Arming(expiries[k]) /\ expiries[k].deadline <= now

(* The case of one id in ArmedIsTracked.                                     *)
Tracked(i) ==
    \/ \E k \in 1..Len(commands) :
        LastFor(k, i) /\ commands[k].op = "schedule" /\ commands[k].generation = pending[i]
    \/ /\ Unmentioned(i)
       /\ \/ \E e \in delayQueue : e.id = i /\ e.generation = pending[i]
          \/ \E k \in 1..Len(expiries) :
                expiries[k].id = i /\ expiries[k].generation = pending[i]

ProviderTypes ==
    /\ now \in Nat
    /\ pending \in [TimerIds -> Nat] /\ nextGeneration \in Nat \ {0}
    /\ commands \in Seq(CommandType)
    /\ delayQueue \subseteq [id : TimerIds, deadline : Nat, generation : Nat, due : Nat]
    /\ expiries \in Seq([id : TimerIds, deadline : Nat, generation : Nat])
    /\ worker \in {"none", "commands", "expiries", "exited"}
    /\ senderOpen \in BOOLEAN
    /\ deadline \in [TimerIds -> Nat] /\ nextId \in Nat \ {0}

ProviderInv ==
    /\ ProviderTypes
    /\ \A i \in TimerIds : pending[i] # 0 => i < nextId
    /\ InFlight
    /\ ArmedIsTracked

TableTypes ==
    /\ live \subseteq TimerIds /\ Cardinality(live) <= MaxTimers
    /\ deadline \in [TimerIds -> Nat] /\ sequence \in [TimerIds -> Nat]
    /\ interval \in [TimerIds -> Nat] /\ handle \in [TimerIds -> Nat]
    /\ ready \subseteq Nat \X Nat /\ watermark \in Nat
    /\ nextId \in Nat \ {0} /\ nextSequence \in Nat
    /\ running \in TimerIds \union {0}

(* Identifiers and sequences are handed out once.                            *)
Fresh ==
    /\ \A i \in live : i < nextId /\ sequence[i] < nextSequence
    /\ \A i, j \in live : sequence[i] = sequence[j] => i = j
    /\ running < nextId

(* `ready` is exactly what lies at or below the watermark, and the watermark *)
(* never runs ahead of the clock.                                            *)
Promoted ==
    /\ watermark <= now
    /\ ready = {Key(i) : i \in {j \in live \ {running} : deadline[j] <= watermark}}

(* A timer that waits is ready or will be reported.                          *)
Watched == \A i \in live \ {running} : pending[i] # 0 \/ deadline[i] <= watermark

TableInv ==
    /\ TableTypes
    /\ Fresh
    /\ HandleIsCurrent
    /\ Promoted
    /\ Watched

ControlTypes ==
    /\ cancelled \in BOOLEAN
    /\ loop \in {"entry", "microtasks", "microjob", "wait", "run", "callback", "done",
                 "joining", "dropped"}
    /\ mode \in {"entry", "quiesce"} /\ settled \in {"no", "fulfilled", "rejected"}
    /\ microtasks \in 0..MaxMicrotasks /\ fuel \in 0..Fuel
    /\ outcome \in {"none", "ok", "stalled", "lost", "invalid", "cancelled", "fuel",
                    "uncaught", "failed"}

(* Where the loop may be.                                                    *)
ControlInv ==
    /\ ControlTypes
    /\ running # 0 => loop = "callback"
    /\ loop = "wait" => ready = {} /\ live # {}
    /\ loop = "run" => ready # {}
    /\ loop \in {"wait", "run"} => (mode = "entry" => settled = "no")
    /\ NoInternalFailure

IInv == ProviderInv /\ TableInv /\ ControlInv

-----------------------------------------------------------------------------
(* Sequences.                                                                *)

(* A sequence that grows at its end.                                        *)
LEMMA AppendedSeq ==
    ASSUME NEW T, NEW s \in Seq(T), NEW x \in T
    PROVE  /\ Append(s, x) \in Seq(T)
           /\ Len(Append(s, x)) = Len(s) + 1
           /\ Append(s, x)[Len(s) + 1] = x
           /\ \A k \in 1..Len(s) : Append(s, x)[k] = s[k]
BY AppendProperties

(* A sequence that loses its head.                                          *)
LEMMA TailSeq ==
    ASSUME NEW T, NEW s \in Seq(T), s # <<>>
    PROVE  /\ Head(s) \in T /\ Head(s) = s[1]
           /\ Tail(s) \in Seq(T) /\ Len(Tail(s)) = Len(s) - 1
           /\ \A k \in 1..Len(Tail(s)) : Tail(s)[k] = s[k + 1] /\ k + 1 \in 1..Len(s)
           /\ Len(s) \in Nat /\ Len(s) >= 1
<1>1. Len(s) \in Nat /\ Len(s) # 0
  BY EmptySeq, LenProperties
<1>2. Head(s) \in T /\ Head(s) = s[1] /\ Tail(s) \in Seq(T) /\ Len(Tail(s)) = Len(s) - 1
  BY HeadTailProperties, <1>1
<1>3. \A k \in 1..Len(Tail(s)) : Tail(s)[k] = s[k + 1]
  BY HeadTailProperties, <1>1, <1>2
<1> QED
  BY <1>1, <1>2, <1>3

-----------------------------------------------------------------------------
(* The provider.                                                             *)

(* What the provider keeps when none of its variables changes.               *)
LEMMA ProviderKept ==
    ASSUME ProviderInv, UNCHANGED <<providerVars, deadline>>, nextId' \in Nat, nextId' >= nextId
    PROVE  ProviderInv'
<1> USE DEF providerVars, ProviderInv
<1>1. ProviderTypes'
  BY DEF ProviderTypes
<1>2. (\A i \in TimerIds : pending[i] # 0 => i < nextId)'
  BY ProviderAssumption DEF ProviderTypes
<1>3. InFlight'
  BY DEF InFlight, Arming
<1>4. ArmedIsTracked'
  BY DEF ArmedIsTracked, LastFor, Unmentioned
<1> QED
  BY <1>1, <1>2, <1>3, <1>4

(* An arming stays one when its id or another one is armed again.            *)
LEMMA ArmingKept ==
    ASSUME NEW x, NEW j, Arming(x), nextGeneration \in Nat,
           x.id \in TimerIds, x.generation \in Nat,
           nextGeneration' \in Nat, nextGeneration' >= nextGeneration,
           pending \in [TimerIds -> Nat], deadline \in [TimerIds -> Nat],
           pending' = [pending EXCEPT ![j] = nextGeneration],
           \E d : deadline' = [deadline EXCEPT ![j] = d]
    PROVE  Arming(x)'
<1>1. 0 < x.generation /\ x.generation < nextGeneration'
  BY DEF Arming
<1>2. x.generation = pending'[x.id] => pending'[x.id] = pending[x.id] /\ deadline'[x.id] = deadline[x.id]
  BY DEF Arming
<1> QED
  BY <1>1, <1>2 DEF Arming

(* Commands about other ids take nothing away from an id.                    *)
LEMMA TrackedKept ==
    ASSUME NEW j, Len(commands) \in Nat, Len(commands') \in Nat, Len(commands') >= Len(commands),
           \A k \in 1..Len(commands) : commands'[k] = commands[k],
           \A k \in (Len(commands) + 1)..Len(commands') : commands'[k].id # j,
           pending'[j] = pending[j], delayQueue' = delayQueue, expiries' = expiries,
           Tracked(j)
    PROVE  Tracked(j)'
<1>1. ASSUME NEW k \in 1..Len(commands), LastFor(k, j)
      PROVE  LastFor(k, j)' /\ k \in 1..Len(commands')
  <2>1. k \in 1..Len(commands') /\ commands'[k].id = j
    BY <1>1 DEF LastFor
  <2>2. ASSUME NEW l \in (k + 1)..Len(commands') PROVE commands'[l].id # j
    <3>1. k \in Nat /\ l \in Nat /\ k >= 1 /\ k + 1 <= l /\ l <= Len(commands')
      OBVIOUS
    <3>2. CASE l > Len(commands)
      BY <3>1, <3>2
    <3>3. CASE l <= Len(commands)
      <4>1. l \in (k + 1)..Len(commands) /\ l \in 1..Len(commands)
        BY <3>1, <3>3
      <4> QED
        BY <4>1, <1>1 DEF LastFor
    <3> QED
      BY <3>1, <3>2, <3>3
  <2> QED
    BY <2>1, <2>2 DEF LastFor
<1>2. Unmentioned(j) => Unmentioned(j)'
  <2> SUFFICES ASSUME Unmentioned(j), NEW k \in 1..Len(commands') PROVE commands'[k].id # j
    BY DEF Unmentioned
  <2>1. k \in 1..Len(commands) \/ k \in (Len(commands) + 1)..Len(commands')
    OBVIOUS
  <2> QED
    BY <2>1 DEF Unmentioned
<1> QED
  BY <1>1, <1>2 DEF Tracked

(* `schedule`: the new generation is tracked by the command just sent.      *)
LEMMA ScheduleProvider ==
    ASSUME ProviderInv, NEW i \in TimerIds, NEW d \in Nat, Schedule(i, d),
           deadline' = [deadline EXCEPT ![i] = now + d],
           nextId' \in Nat, nextId' >= nextId, i < nextId'
    PROVE  ProviderInv'
<1> USE DEF ProviderInv
<1>0. PICK c : c = ScheduleCommand(i, d)
  OBVIOUS
<1>1. /\ c \in CommandType /\ c.op = "schedule" /\ c.id = i /\ c.deadline = now + d
      /\ c.generation = nextGeneration /\ c.delay = d
  BY <1>0 DEF ScheduleCommand, CommandType, ProviderTypes
<1>2. commands \in Seq(CommandType) /\ Len(commands) \in Nat
  BY DEF ProviderTypes
<1>3. commands' = Append(commands, c)
  BY <1>0 DEF Schedule
<1>4. /\ commands' \in Seq(CommandType) /\ Len(commands') = Len(commands) + 1
      /\ commands'[Len(commands) + 1] = c /\ \A k \in 1..Len(commands) : commands'[k] = commands[k]
  BY <1>1, <1>2, <1>3, AppendedSeq
<1>5. ProviderTypes'
  <2>1. nextId' \in Nat \ {0} /\ deadline' \in [TimerIds -> Nat]
    BY DEF ProviderTypes
  <2>2. pending' \in [TimerIds -> Nat] /\ nextGeneration' \in Nat \ {0}
    BY DEF ProviderTypes, Schedule
  <2>3. worker' \in {"none", "commands", "expiries", "exited"}
    BY DEF ProviderTypes, Schedule, Spawned
  <2> QED
    BY <1>4, <2>1, <2>2, <2>3 DEF ProviderTypes, Schedule
<1>6. (\A j \in TimerIds : pending[j] # 0 => j < nextId)'
  BY ProviderAssumption DEF ProviderTypes, Schedule
<1>7. ASSUME NEW x, Arming(x), x.id \in TimerIds, x.generation \in Nat
      PROVE  Arming(x)'
  <2>1. /\ nextGeneration \in Nat /\ nextGeneration' \in Nat /\ nextGeneration' >= nextGeneration
        /\ pending \in [TimerIds -> Nat] /\ deadline \in [TimerIds -> Nat]
    BY DEF ProviderTypes, Schedule
  <2>2. pending' = [pending EXCEPT ![i] = nextGeneration]
    BY DEF Schedule
  <2> QED
    BY <1>7, <2>1, <2>2, ArmingKept
<1>8. InFlight'
  <2>1. ASSUME NEW k \in 1..Len(commands'), commands'[k].op = "schedule"
        PROVE  Arming(commands[k])' /\ commands'[k].deadline <= now + commands'[k].delay
    <3>1. CASE k = Len(commands) + 1
      <4>1. commands'[k] = c
        BY <3>1, <1>4
      <4>2. Arming(c)'
        BY <1>1 DEF Arming, Schedule, ProviderTypes
      <4> QED
        BY <4>1, <4>2, <1>1 DEF ProviderTypes, Arming
    <3>2. CASE k # Len(commands) + 1
      <4>1. k \in 1..Len(commands) /\ commands'[k] = commands[k]
        BY <3>2, <1>2, <1>4
      <4>2. commands[k] \in CommandType
        BY <4>1, <1>2, ElementOfSeq
      <4>3. Arming(commands[k]) /\ commands[k].deadline <= now + commands[k].delay
        BY <4>1, <2>1 DEF InFlight
      <4>4. PICK x : x = commands[k]
        OBVIOUS
      <4>5. Arming(x)'
        BY <1>7, <4>2, <4>3, <4>4 DEF CommandType
      <4> QED
        BY <4>1, <4>3, <4>4, <4>5 DEF Arming
    <3> QED
      BY <3>1, <3>2
  <2>2. ASSUME NEW e \in delayQueue PROVE Arming(e)' /\ e.deadline <= e.due
    BY <1>7 DEF InFlight, ProviderTypes
  <2>3. ASSUME NEW k \in 1..Len(expiries)
        PROVE  Arming(expiries[k])' /\ expiries[k].deadline <= now
    <3>1. expiries[k] \in [id : TimerIds, deadline : Nat, generation : Nat]
      BY ElementOfSeq DEF ProviderTypes
    <3>2. PICK x : x = expiries[k]
      OBVIOUS
    <3>3. Arming(x)'
      BY <1>7, <3>1, <3>2 DEF InFlight
    <3> QED
      BY <3>2, <3>3 DEF InFlight, Arming, Schedule
  <2>4. now' = now /\ delayQueue' = delayQueue /\ expiries' = expiries
    BY DEF Schedule
  <2> QED
    BY <2>1, <2>2, <2>3, <2>4 DEF InFlight
<1>9. ArmedIsTracked'
  <2> SUFFICES ASSUME NEW j \in TimerIds, pending'[j] # 0 PROVE Tracked(j)'
    BY DEF ArmedIsTracked, Tracked
  <2>1. CASE j = i
    <3>1. pending'[j] = nextGeneration
      BY <2>1 DEF Schedule, ProviderTypes
    <3>2. PICK n : n = Len(commands) + 1
      OBVIOUS
    <3>3. n \in Nat /\ n = Len(commands') /\ n \in 1..Len(commands') /\ commands'[n] = c
      BY <1>4, <1>2, <3>2
    <3>4. LastFor(n, j)'
      BY <3>3, <1>1, <2>1 DEF LastFor
    <3> QED
      BY <3>1, <3>3, <3>4, <1>1 DEF Tracked
  <2>2. CASE j # i
    <3>1. pending'[j] = pending[j] /\ delayQueue' = delayQueue /\ expiries' = expiries
      BY <2>2 DEF Schedule, ProviderTypes
    <3>2. Tracked(j)
      BY <3>1 DEF ArmedIsTracked, Tracked
    <3>3. \A k \in (Len(commands) + 1)..Len(commands') : commands'[k].id # j
      BY <1>1, <1>2, <1>4, <2>2
    <3> QED
      BY <3>1, <3>2, <3>3, <1>2, <1>4, TrackedKept
  <2> QED
    BY <2>1, <2>2
<1> QED
  BY <1>5, <1>6, <1>8, <1>9

(* Armings in the channels and in the queue stay what they are.              *)
LEMMA FlightKept ==
    ASSUME ProviderInv, now' \in Nat, now' >= now,
           \A x : Arming(x) /\ x.id \in TimerIds /\ x.generation \in Nat => Arming(x)',
           delayQueue' \subseteq delayQueue, Len(expiries') \in Nat,
           \A k \in 1..Len(expiries') : \E l \in 1..Len(expiries) : expiries'[k] = expiries[l],
           Len(commands') \in Nat,
           \A k \in 1..Len(commands') :
              \/ \E l \in 1..Len(commands) : commands'[k] = commands[l]
              \/ commands'[k].op = "schedule" =>
                    Arming(commands[k])' /\ commands'[k].deadline <= now' + commands'[k].delay
    PROVE  InFlight'
<1> USE DEF ProviderInv
<1>1. ASSUME NEW k \in 1..Len(commands'), commands'[k].op = "schedule"
      PROVE  Arming(commands[k])' /\ commands'[k].deadline <= now' + commands'[k].delay
  <2>1. CASE \E l \in 1..Len(commands) : commands'[k] = commands[l]
    <3>1. PICK l \in 1..Len(commands) : commands'[k] = commands[l]
      BY <2>1
    <3>2. PICK x : x = commands[l]
      OBVIOUS
    <3>3. x \in CommandType
      BY <3>2, ElementOfSeq DEF ProviderTypes
    <3>4. x.deadline \in Nat /\ x.delay \in Nat /\ now \in Nat /\ x.id \in TimerIds /\ x.generation \in Nat
      BY <3>3 DEF CommandType, ProviderTypes
    <3>5. Arming(x) /\ x.deadline <= now + x.delay
      BY <3>1, <3>2, <1>1 DEF InFlight
    <3>6. x.deadline <= now' + x.delay
      BY <3>4, <3>5
    <3>7. Arming(x)'
      BY <3>4, <3>5
    <3>8. Arming(commands[k])'
      BY <3>7, <3>1, <3>2 DEF Arming
    <3> QED
      BY <3>1, <3>2, <3>6, <3>8
  <2> QED
    BY <2>1, <1>1
<1>2. ASSUME NEW e \in delayQueue' PROVE Arming(e)' /\ e.deadline <= e.due
  BY DEF InFlight, ProviderTypes
<1>3. ASSUME NEW k \in 1..Len(expiries')
      PROVE  Arming(expiries[k])' /\ expiries'[k].deadline <= now'
  <2>1. PICK l \in 1..Len(expiries) : expiries'[k] = expiries[l]
    OBVIOUS
  <2>2. PICK x : x = expiries[l]
    OBVIOUS
  <2>3. x \in [id : TimerIds, deadline : Nat, generation : Nat]
    BY <2>2, ElementOfSeq DEF ProviderTypes
  <2>4. x.deadline \in Nat /\ now \in Nat /\ x.id \in TimerIds /\ x.generation \in Nat
    BY <2>3 DEF ProviderTypes
  <2>5. Arming(x) /\ x.deadline <= now
    BY <2>2 DEF InFlight
  <2>6. Arming(x)' /\ x.deadline <= now'
    BY <2>4, <2>5
  <2>7. Arming(expiries[k])'
    BY <2>6, <2>1, <2>2 DEF Arming
  <2> QED
    BY <2>1, <2>2, <2>6, <2>7
<1> QED
  BY <1>1, <1>2, <1>3 DEF InFlight

(* A `schedule` that is undone leaves two commands about an id nobody uses. *)
LEMMA ScheduleUndoneProvider ==
    ASSUME ProviderInv, NEW d \in Nat, nextId \in TimerIds, ScheduleUndone(nextId, d),
           deadline' = deadline, nextId' = nextId + 1
    PROVE  ProviderInv'
<1> USE DEF ProviderInv
<1>0. PICK i : i = nextId
  OBVIOUS
<1>a. PICK a : a = ScheduleCommand(i, d)
  OBVIOUS
<1>b. PICK b : b = CancelCommand(i)
  OBVIOUS
<1>1. /\ a \in CommandType /\ a.id = i /\ a.deadline = now + d
      /\ a.generation = nextGeneration /\ a.delay = d
  BY <1>0, <1>a DEF ScheduleCommand, CommandType, ProviderTypes
<1>2. b \in CommandType /\ b.id = i /\ b.op = "cancel"
  BY <1>0, <1>b DEF CancelCommand, CommandType
<1>3. commands \in Seq(CommandType) /\ Len(commands) \in Nat
  BY DEF ProviderTypes
<1>4. commands' = commands \o <<a, b>>
  BY <1>0, <1>a, <1>b DEF ScheduleUndone
<1>5. <<a, b>> \in Seq(CommandType) /\ Len(<<a, b>>) = 2 /\ <<a, b>>[1] = a /\ <<a, b>>[2] = b
  BY <1>1, <1>2
<1>c. PICK q : q = <<a, b>>
  OBVIOUS
<1>d. /\ commands \o q \in Seq(CommandType) /\ Len(commands \o q) = Len(commands) + Len(q)
      /\ \A k \in 1..(Len(commands) + Len(q)) :
            (commands \o q)[k] = IF k <= Len(commands) THEN commands[k] ELSE q[k - Len(commands)]
  <2>1. commands \in Seq(CommandType) /\ q \in Seq(CommandType)
    BY <1>3, <1>5, <1>c
  <2> QED
    BY <2>1, ConcatProperties, Zenon
<1>e. commands' = commands \o q /\ Len(q) = 2 /\ q[1] = a /\ q[2] = b
  BY <1>4, <1>5, <1>c
<1>6. /\ commands' \in Seq(CommandType) /\ Len(commands') = Len(commands) + 2
      /\ \A k \in 1..Len(commands) : commands'[k] = commands[k]
  BY <1>3, <1>d, <1>e
<1>7. commands'[Len(commands) + 1] = a /\ commands'[Len(commands) + 2] = b
  <2>1. \A k \in 1..(Len(commands) + 2) :
           commands'[k] = IF k <= Len(commands) THEN commands[k] ELSE q[k - Len(commands)]
    BY <1>3, <1>d, <1>e
  <2>2. (Len(commands) + 1) - Len(commands) = 1 /\ (Len(commands) + 2) - Len(commands) = 2
    BY <1>3
  <2> QED
    <3>1. /\ Len(commands) + 1 \in 1..(Len(commands) + 2) /\ ~(Len(commands) + 1 <= Len(commands))
          /\ Len(commands) + 2 \in 1..(Len(commands) + 2) /\ ~(Len(commands) + 2 <= Len(commands))
      BY <1>3
    <3>2. /\ commands'[Len(commands) + 1] = q[(Len(commands) + 1) - Len(commands)]
          /\ commands'[Len(commands) + 2] = q[(Len(commands) + 2) - Len(commands)]
      BY <2>1, <3>1, Zenon
    <3> QED
      BY <2>2, <3>2, <1>e, Zenon
<1>8. ASSUME NEW k \in 1..Len(commands')
      PROVE  (k \in 1..Len(commands) /\ commands'[k] = commands[k]) \/ commands'[k] = a \/ commands'[k] = b
  BY <1>3, <1>6, <1>7
<1>9. pending[i] = 0
  BY <1>0 DEF ProviderTypes
<1>10. /\ nextGeneration \in Nat \ {0} /\ nextGeneration' = nextGeneration + 1 /\ now' = now
       /\ pending' = pending /\ delayQueue' = delayQueue /\ expiries' = expiries
  BY DEF ProviderTypes, ScheduleUndone
<1>11. ProviderTypes'
  <2>1. worker' \in {"none", "commands", "expiries", "exited"}
    BY DEF ProviderTypes, ScheduleUndone, Spawned
  <2> QED
    BY <1>6, <1>10, <2>1 DEF ProviderTypes, ScheduleUndone
<1>12. (\A j \in TimerIds : pending[j] # 0 => j < nextId)'
  BY <1>10, ProviderAssumption DEF ProviderTypes
<1>13. \A x : Arming(x) /\ x.id \in TimerIds /\ x.generation \in Nat => Arming(x)'
  BY <1>10 DEF Arming
<1>14. Arming(a)'
  BY <1>1, <1>9, <1>10 DEF Arming
<1>15. ASSUME NEW k \in 1..Len(commands')
       PROVE  \/ \E l \in 1..Len(commands) : commands'[k] = commands[l]
              \/ commands'[k].op = "schedule" =>
                    Arming(commands[k])' /\ commands'[k].deadline <= now' + commands'[k].delay
  <2>1. CASE commands'[k] = a
    <3>1. Arming(commands[k])'
      BY <2>1, <1>14 DEF Arming
    <3> QED
      BY <3>1, <2>1, <1>1, <1>10 DEF ProviderTypes
  <2>2. CASE commands'[k] = b
    BY <2>2, <1>2
  <2> QED
    BY <2>1, <2>2, <1>8
<1>16. InFlight'
  BY <1>6, <1>3, <1>10, <1>13, <1>15, FlightKept DEF ProviderTypes
<1>17. ArmedIsTracked'
  <2> SUFFICES ASSUME NEW j \in TimerIds, pending'[j] # 0 PROVE Tracked(j)'
    BY DEF ArmedIsTracked, Tracked
  <2>1. j # i /\ Tracked(j)
    BY <1>9, <1>10 DEF ArmedIsTracked, Tracked
  <2>2. \A k \in (Len(commands) + 1)..Len(commands') : commands'[k].id # j
    BY <1>1, <1>2, <1>3, <1>6, <1>7, <2>1
  <2> QED
    BY <2>1, <2>2, <1>3, <1>6, <1>10, TrackedKept
<1> QED
  BY <1>11, <1>12, <1>16, <1>17

(* `cancel`: the id is no longer armed, and nothing else changes.           *)
LEMMA CancelProvider ==
    ASSUME ProviderInv, NEW i \in TimerIds, Cancel(i), deadline' = deadline, nextId' = nextId
    PROVE  ProviderInv'
<1> USE DEF ProviderInv
<1>1. CASE pending[i] = 0
  BY <1>1, ProviderKept DEF Cancel, ProviderTypes
<1>2. CASE pending[i] # 0
  <2>1. PICK b : b = CancelCommand(i)
    OBVIOUS
  <2>2. b \in CommandType /\ b.id = i /\ b.op = "cancel"
    BY <2>1 DEF CancelCommand, CommandType
  <2>3. /\ pending' = [pending EXCEPT ![i] = 0] /\ commands' = Append(commands, b)
        /\ UNCHANGED <<now, nextGeneration, delayQueue, expiries, worker, senderOpen>>
    BY <1>2, <2>1 DEF Cancel
  <2>4. commands \in Seq(CommandType) /\ Len(commands) \in Nat
    BY DEF ProviderTypes
  <2>5. /\ commands' \in Seq(CommandType) /\ Len(commands') = Len(commands) + 1
        /\ commands'[Len(commands) + 1] = b /\ \A k \in 1..Len(commands) : commands'[k] = commands[k]
    BY <2>2, <2>3, <2>4, AppendedSeq
  <2>6. ProviderTypes'
    BY <2>3, <2>5 DEF ProviderTypes
  <2>7. (\A j \in TimerIds : pending[j] # 0 => j < nextId)'
    BY <2>3 DEF ProviderTypes
  <2>8. ASSUME NEW x, Arming(x), x.id \in TimerIds, x.generation \in Nat
        PROVE  Arming(x)'
    <3>1. /\ nextGeneration \in Nat /\ nextGeneration' = nextGeneration
          /\ pending \in [TimerIds -> Nat] /\ deadline \in [TimerIds -> Nat]
      BY <2>3 DEF ProviderTypes
    <3> QED
      BY <2>8, <2>3, <3>1 DEF Arming
  <2>9. ASSUME NEW k \in 1..Len(commands')
        PROVE  \/ \E l \in 1..Len(commands) : commands'[k] = commands[l]
               \/ commands'[k].op = "schedule" =>
                     Arming(commands[k])' /\ commands'[k].deadline <= now' + commands'[k].delay
    <3>1. k = Len(commands) + 1 \/ k \in 1..Len(commands)
      BY <2>4, <2>5
    <3> QED
      BY <3>1, <2>2, <2>5
  <2>10. InFlight'
    BY <2>3, <2>4, <2>5, <2>8, <2>9, FlightKept DEF ProviderTypes
  <2>11. ArmedIsTracked'
    <3> SUFFICES ASSUME NEW j \in TimerIds, pending'[j] # 0 PROVE Tracked(j)'
      BY DEF ArmedIsTracked, Tracked
    <3>1. j # i /\ pending'[j] = pending[j] /\ Tracked(j)
      BY <2>3 DEF ArmedIsTracked, Tracked, ProviderTypes
    <3>2. \A k \in (Len(commands) + 1)..Len(commands') : commands'[k].id # j
      BY <2>2, <2>4, <2>5, <3>1
    <3> QED
      BY <3>1, <3>2, <2>3, <2>4, <2>5, TrackedKept
  <2> QED
    BY <2>6, <2>7, <2>10, <2>11
<1> QED
  BY <1>1, <1>2

(* What the JavaScript thread takes from the expiry channel: armings that    *)
(* are current, past their deadline, and no longer pending after it.         *)
Accepts(S) ==
    /\ \A e \in S : /\ e \in [id : TimerIds, deadline : Nat, generation : Nat]
                    /\ pending[e.id] # 0 /\ e.deadline = deadline[e.id] /\ e.deadline <= now
    /\ \A i \in TimerIds : \/ pending'[i] = pending[i]
                           \/ pending'[i] = 0 /\ \E e \in S : e.id = i

(* `poll_expired` and `wait_expired` retire exactly what they report.       *)
LEMMA AcceptProvider ==
    ASSUME ProviderInv, NEW S, PollExpired(S) \/ ReceiveExpiry(S),
           deadline' = deadline, nextId' = nextId
    PROVE  ProviderInv' /\ Accepts(S) /\ now' = now
<1> USE DEF ProviderInv
<1> DEFINE E == [id : TimerIds, deadline : Nat, generation : Nat]
<1>1. /\ pending' = Retired(S)
      /\ UNCHANGED <<now, nextGeneration, commands, delayQueue, worker, senderOpen>>
  BY DEF PollExpired, ReceiveExpiry
<1>2. expiries \in Seq(E) /\ Len(expiries) \in Nat
  BY DEF ProviderTypes
<1>3. \A e \in S : \E k \in 1..Len(expiries) : e = expiries[k] /\ Accepted(e)
  <2>1. CASE PollExpired(S)
    BY <2>1 DEF PollExpired
  <2>2. CASE ReceiveExpiry(S)
    <3>1. expiries # <<>> /\ S = {e \in {Head(expiries)} : Accepted(e)}
      BY <2>2 DEF ReceiveExpiry
    <3>2. Head(expiries) = expiries[1] /\ 1 \in 1..Len(expiries)
      BY <3>1, <1>2, TailSeq
    <3> QED
      BY <3>1, <3>2
  <2> QED
    BY <2>1, <2>2
<1>4. expiries' \in Seq(E) /\ Len(expiries') \in Nat
  <2>1. CASE PollExpired(S)
    BY <2>1 DEF PollExpired
  <2>2. CASE ReceiveExpiry(S)
    BY <2>2, <1>2, TailSeq DEF ReceiveExpiry
  <2> QED
    BY <2>1, <2>2
<1>5. \A k \in 1..Len(expiries') : \E l \in 1..Len(expiries) : expiries'[k] = expiries[l]
  <2>1. CASE PollExpired(S)
    <3>1. Len(expiries') = 0
      BY <2>1 DEF PollExpired
    <3> QED
      BY <3>1
  <2>2. CASE ReceiveExpiry(S)
    BY <2>2, <1>2, TailSeq DEF ReceiveExpiry
  <2> QED
    BY <2>1, <2>2
<1>6. ASSUME NEW k \in 1..Len(expiries), NEW i \in TimerIds,
             expiries[k].id = i, expiries[k].generation = pending[i]
      PROVE  (\E e \in S : e.id = i) \/ (\E l \in 1..Len(expiries') : expiries'[l] = expiries[k])
  <2>0. Accepted(expiries[k])
    BY <1>6 DEF Accepted
  <2>1. CASE PollExpired(S)
    BY <2>0, <2>1, <1>6 DEF PollExpired
  <2>2. CASE ReceiveExpiry(S)
    <3>1. /\ expiries # <<>> /\ S = {e \in {Head(expiries)} : Accepted(e)}
          /\ expiries' = Tail(expiries)
      BY <2>2 DEF ReceiveExpiry
    <3>2. /\ Head(expiries) = expiries[1] /\ Len(expiries') = Len(expiries) - 1
          /\ \A l \in 1..Len(expiries') : expiries'[l] = expiries[l + 1]
      BY <3>1, <1>2, TailSeq
    <3>3. CASE k = 1
      BY <3>1, <3>2, <3>3, <2>0, <1>6
    <3>4. CASE k # 1
      <4>1. k - 1 \in 1..Len(expiries') /\ (k - 1) + 1 = k
        BY <3>2, <3>4, <1>2
      <4>2. expiries'[k - 1] = expiries[k]
        BY <3>2, <4>1
      <4> QED
        BY <4>1, <4>2
    <3> QED
      BY <3>3, <3>4
  <2> QED
    BY <2>1, <2>2
<1>7. \A i \in TimerIds : pending'[i] = IF \E e \in S : e.id = i THEN 0 ELSE pending[i]
  BY <1>1 DEF Retired
<1>8. pending' \in [TimerIds -> Nat]
  BY <1>1 DEF Retired, ProviderTypes
<1>9. ASSUME NEW e \in S
      PROVE  e \in E /\ pending[e.id] # 0 /\ e.deadline = deadline[e.id] /\ e.deadline <= now
  <2>1. PICK k \in 1..Len(expiries) : e = expiries[k] /\ Accepted(e)
    BY <1>3
  <2>2. e \in E
    BY <2>1, <1>2, ElementOfSeq
  <2>3. Arming(e) /\ e.deadline <= now
    BY <2>1 DEF InFlight, Arming
  <2> QED
    BY <2>1, <2>2, <2>3 DEF Arming, Accepted
<1>10. Accepts(S)
  BY <1>7, <1>9 DEF Accepts
<1>11. ProviderTypes'
  BY <1>1, <1>4, <1>8 DEF ProviderTypes
<1>12. (\A i \in TimerIds : pending[i] # 0 => i < nextId)'
  BY <1>7
<1>13. \A x : Arming(x) /\ x.id \in TimerIds /\ x.generation \in Nat => Arming(x)'
  BY <1>1, <1>7 DEF Arming
<1>14. InFlight'
  BY <1>1, <1>4, <1>5, <1>13, FlightKept DEF ProviderTypes
<1>15. ArmedIsTracked'
  <2> SUFFICES ASSUME NEW j \in TimerIds, pending'[j] # 0 PROVE Tracked(j)'
    BY DEF ArmedIsTracked, Tracked
  <2>1. pending'[j] = pending[j] /\ ~(\E e \in S : e.id = j) /\ Tracked(j)
    BY <1>7 DEF ArmedIsTracked, Tracked
  <2>2. \A k : LastFor(k, j) => LastFor(k, j)'
    BY <1>1 DEF LastFor
  <2>3. Unmentioned(j) => Unmentioned(j)'
    BY <1>1 DEF Unmentioned
  <2>4. CASE \E k \in 1..Len(expiries) : expiries[k].id = j /\ expiries[k].generation = pending[j]
    <3>1. PICK k \in 1..Len(expiries) : expiries[k].id = j /\ expiries[k].generation = pending[j]
      BY <2>4
    <3>2. PICK l \in 1..Len(expiries') : expiries'[l] = expiries[k]
      BY <3>1, <2>1, <1>6
    <3>3. expiries'[l].id = j /\ expiries'[l].generation = pending'[j]
      BY <3>1, <3>2, <2>1
    <3> QED
      BY <3>3, <2>1, <2>2, <2>3, <1>1 DEF Tracked
  <2>5. CASE ~(\E k \in 1..Len(expiries) : expiries[k].id = j /\ expiries[k].generation = pending[j])
    BY <2>5, <2>1, <2>2, <2>3, <1>1 DEF Tracked
  <2> QED
    BY <2>4, <2>5
<1> QED
  BY <1>1, <1>10, <1>11, <1>12, <1>14, <1>15

(* Time only makes more armings due.                                        *)
LEMMA TickProvider ==
    ASSUME ProviderInv, Tick, deadline' = deadline, nextId' = nextId
    PROVE  ProviderInv'
<1> USE DEF ProviderInv
<1>1. /\ now' = now + 1 /\ now \in Nat
      /\ UNCHANGED <<pending, nextGeneration, commands, delayQueue, expiries, worker, senderOpen>>
  BY DEF Tick, ProviderTypes
<1>2. ProviderTypes' /\ (\A i \in TimerIds : pending[i] # 0 => i < nextId)'
  BY <1>1 DEF ProviderTypes
<1>3. \A x : Arming(x) => Arming(x)'
  BY <1>1 DEF Arming
<1>4. Len(commands) \in Nat /\ Len(expiries) \in Nat
  BY DEF ProviderTypes
<1>5. InFlight'
  BY <1>1, <1>3, <1>4, FlightKept
<1>6. ArmedIsTracked'
  BY <1>1 DEF ArmedIsTracked, LastFor, Unmentioned
<1> QED
  BY <1>2, <1>5, <1>6

(* The sender is given up; what is in the channel stays.                    *)
LEMMA CloseProvider ==
    ASSUME ProviderInv, CloseCommands, deadline' = deadline, nextId' = nextId
    PROVE  ProviderInv'
<1> USE DEF ProviderInv
<1>1. /\ senderOpen' = FALSE
      /\ UNCHANGED <<now, pending, nextGeneration, commands, delayQueue, expiries, worker>>
  BY DEF CloseCommands
<1>2. ProviderTypes' /\ (\A i \in TimerIds : pending[i] # 0 => i < nextId)'
  BY <1>1 DEF ProviderTypes
<1>3. InFlight'
  BY <1>1 DEF InFlight, Arming
<1>4. ArmedIsTracked'
  BY <1>1 DEF ArmedIsTracked, LastFor, Unmentioned
<1> QED
  BY <1>2, <1>3, <1>4

(* The worker carries out a command: the last one about an id decides.      *)
LEMMA CommandProvider ==
    ASSUME ProviderInv, WorkerCommand, deadline' = deadline, nextId' = nextId
    PROVE  ProviderInv'
<1> USE DEF ProviderInv
<1>0. PICK c : c = Head(commands)
  OBVIOUS
<1>1. /\ commands # <<>> /\ commands' = Tail(commands)
      /\ UNCHANGED <<now, pending, nextGeneration, expiries, worker, senderOpen>>
      /\ IF c.op = "schedule" THEN WorkerSchedule(c) ELSE WorkerCancel(c)
  BY <1>0 DEF WorkerCommand
<1>2. commands \in Seq(CommandType)
  BY DEF ProviderTypes
<1>3. /\ c \in CommandType /\ c = commands[1]
      /\ commands' \in Seq(CommandType) /\ Len(commands') = Len(commands) - 1
      /\ \A k \in 1..Len(commands') : commands'[k] = commands[k + 1] /\ k + 1 \in 1..Len(commands)
      /\ Len(commands) \in Nat /\ Len(commands) >= 1
  BY <1>0, <1>1, <1>2, TailSeq
<1>4. /\ c.id \in TimerIds /\ c.deadline \in Nat /\ c.generation \in Nat /\ c.delay \in Nat
      /\ now \in Nat
  BY <1>3 DEF CommandType, ProviderTypes
<1>5. PICK f : f = [id |-> c.id, deadline |-> c.deadline, generation |-> c.generation,
                    due |-> now + c.delay]
  OBVIOUS
<1>6. /\ f \in [id : TimerIds, deadline : Nat, generation : Nat, due : Nat]
      /\ f.id = c.id /\ f.deadline = c.deadline /\ f.generation = c.generation
      /\ f.due = now + c.delay
  BY <1>4, <1>5
<1>7. /\ c.op = "schedule" => delayQueue' = {e \in delayQueue : e.id # c.id} \union {f}
      /\ c.op # "schedule" => delayQueue' = {e \in delayQueue : e.id # c.id}
  BY <1>1, <1>5 DEF WorkerSchedule, WorkerCancel
<1>8. /\ \A e \in delayQueue' : e \in delayQueue \/ (c.op = "schedule" /\ e = f)
      /\ \A e \in delayQueue : e.id # c.id => e \in delayQueue'
      /\ c.op = "schedule" => f \in delayQueue'
  BY <1>7
<1>9. ProviderTypes'
  <2>1. delayQueue' \subseteq [id : TimerIds, deadline : Nat, generation : Nat, due : Nat]
    BY <1>6, <1>8 DEF ProviderTypes
  <2> QED
    BY <1>1, <1>3, <2>1 DEF ProviderTypes
<1>10. (\A i \in TimerIds : pending[i] # 0 => i < nextId)'
  BY <1>1
<1>11. \A x : Arming(x) => Arming(x)'
  BY <1>1 DEF Arming
<1>12. InFlight'
  <2>1. ASSUME NEW k \in 1..Len(commands'), commands'[k].op = "schedule"
        PROVE  Arming(commands[k])' /\ commands'[k].deadline <= now' + commands'[k].delay
    <3>1. commands'[k] = commands[k + 1] /\ k + 1 \in 1..Len(commands)
      BY <1>3
    <3>2. PICK x : x = commands[k + 1]
      OBVIOUS
    <3>3. Arming(x) /\ x.deadline <= now + x.delay
      BY <2>1, <3>1, <3>2 DEF InFlight
    <3>4. Arming(x)'
      BY <3>3, <1>11
    <3>5. Arming(commands[k])'
      BY <3>1, <3>2, <3>4 DEF Arming
    <3> QED
      BY <3>1, <3>2, <3>3, <3>5, <1>1
  <2>2. c.op = "schedule" => Arming(f)' /\ f.deadline <= f.due
    <3> SUFFICES ASSUME c.op = "schedule" PROVE Arming(f)' /\ f.deadline <= f.due
      OBVIOUS
    <3>1. Arming(c) /\ c.deadline <= now + c.delay
      BY <1>3 DEF InFlight, Arming
    <3>2. Arming(f)
      BY <3>1, <1>6 DEF Arming
    <3> QED
      BY <3>1, <3>2, <1>6, <1>11
  <2>3. ASSUME NEW e \in delayQueue' PROVE Arming(e)' /\ e.deadline <= e.due
    BY <2>2, <1>8, <1>11 DEF InFlight
  <2>4. \A k \in 1..Len(expiries') : Arming(expiries[k])' /\ expiries'[k].deadline <= now'
    BY <1>1 DEF InFlight, Arming
  <2> QED
    BY <2>1, <2>3, <2>4 DEF InFlight
<1>13. ArmedIsTracked'
  <2> SUFFICES ASSUME NEW j \in TimerIds, pending'[j] # 0 PROVE Tracked(j)'
    BY DEF ArmedIsTracked, Tracked
  <2>1. pending'[j] = pending[j] /\ expiries' = expiries /\ Tracked(j)
    BY <1>1 DEF ArmedIsTracked, Tracked
  <2>2. ASSUME NEW k \in 1..Len(commands), LastFor(k, j), k # 1
        PROVE  k - 1 \in 1..Len(commands') /\ commands'[k - 1] = commands[k] /\ LastFor(k - 1, j)'
    <3>1. k - 1 \in 1..Len(commands') /\ (k - 1) + 1 = k
      BY <2>2, <1>3
    <3>2. commands'[k - 1] = commands[k]
      BY <3>1, <1>3
    <3>3. ASSUME NEW l \in ((k - 1) + 1)..Len(commands') PROVE commands'[l].id # j
      <4>1. l \in 1..Len(commands') /\ l + 1 \in (k + 1)..Len(commands)
        BY <3>1, <1>3
      <4> QED
        BY <4>1, <1>3, <2>2 DEF LastFor
    <3> QED
      BY <3>1, <3>2, <3>3, <2>2 DEF LastFor
  <2>3. ASSUME LastFor(1, j) PROVE Unmentioned(j)' /\ c.id = j
    <3>1. c.id = j
      BY <2>3, <1>3 DEF LastFor
    <3>2. ASSUME NEW k \in 1..Len(commands') PROVE commands'[k].id # j
      <4>1. k + 1 \in (1 + 1)..Len(commands)
        BY <1>3
      <4> QED
        BY <4>1, <1>3, <2>3 DEF LastFor
    <3> QED
      BY <3>1, <3>2 DEF Unmentioned
  <2>4. ASSUME Unmentioned(j) PROVE Unmentioned(j)' /\ c.id # j
    <3>1. 1 \in 1..Len(commands)
      BY <1>3
    <3> QED
      BY <3>1, <2>4, <1>3 DEF Unmentioned
  <2>5. CASE \E k \in 1..Len(commands) :
               LastFor(k, j) /\ commands[k].op = "schedule" /\ commands[k].generation = pending[j]
    <3>1. PICK k \in 1..Len(commands) :
               LastFor(k, j) /\ commands[k].op = "schedule" /\ commands[k].generation = pending[j]
      BY <2>5
    <3>2. CASE k = 1
      <4>1. Unmentioned(j)' /\ c.id = j
        BY <3>1, <3>2, <2>3
      <4>2. f \in delayQueue' /\ f.id = j /\ f.generation = pending'[j]
        BY <4>1, <3>1, <3>2, <1>3, <1>6, <1>8, <2>1
      <4> QED
        BY <4>1, <4>2 DEF Tracked
    <3>3. CASE k # 1
      <4>1. k - 1 \in 1..Len(commands') /\ commands'[k - 1] = commands[k] /\ LastFor(k - 1, j)'
        BY <3>1, <3>3, <2>2
      <4> QED
        BY <4>1, <3>1, <2>1 DEF Tracked
    <3> QED
      BY <3>2, <3>3
  <2>6. CASE Unmentioned(j) /\ \E e \in delayQueue : e.id = j /\ e.generation = pending[j]
    <3>1. PICK e \in delayQueue : e.id = j /\ e.generation = pending[j]
      BY <2>6
    <3>2. e \in delayQueue' /\ Unmentioned(j)'
      BY <3>1, <2>6, <2>4, <1>8
    <3> QED
      BY <3>1, <3>2, <2>1 DEF Tracked
  <2>7. CASE Unmentioned(j) /\ \E k \in 1..Len(expiries) :
                                   expiries[k].id = j /\ expiries[k].generation = pending[j]
    BY <2>7, <2>4, <2>1 DEF Tracked
  <2> QED
    BY <2>1, <2>5, <2>6, <2>7 DEF Tracked
<1> QED
  BY <1>9, <1>10, <1>12, <1>13

(* The worker reports an entry that is due.                                 *)
LEMMA ExpireProvider ==
    ASSUME ProviderInv, WorkerExpire, deadline' = deadline, nextId' = nextId
    PROVE  ProviderInv'
<1> USE DEF ProviderInv
<1>1. PICK e \in Due :
          /\ delayQueue' = delayQueue \ {e}
          /\ expiries' = Append(expiries, [id |-> e.id, deadline |-> e.deadline,
                                           generation |-> e.generation])
  BY DEF WorkerExpire
<1>2. worker' = "commands" /\ UNCHANGED <<now, pending, nextGeneration, commands, senderOpen>>
  BY DEF WorkerExpire
<1>3. /\ e \in delayQueue /\ e.due <= now /\ now \in Nat /\ e.deadline <= e.due /\ Arming(e)
      /\ e \in [id : TimerIds, deadline : Nat, generation : Nat, due : Nat]
  BY <1>1 DEF Due, ProviderTypes, InFlight
<1>4. PICK x : x = [id |-> e.id, deadline |-> e.deadline, generation |-> e.generation]
  OBVIOUS
<1>5. /\ x \in [id : TimerIds, deadline : Nat, generation : Nat]
      /\ x.id = e.id /\ x.deadline = e.deadline /\ x.generation = e.generation
      /\ x.deadline <= now
  BY <1>3, <1>4
<1>6. expiries \in Seq([id : TimerIds, deadline : Nat, generation : Nat]) /\ Len(expiries) \in Nat
  BY DEF ProviderTypes
<1>7. /\ expiries' \in Seq([id : TimerIds, deadline : Nat, generation : Nat])
      /\ Len(expiries') = Len(expiries) + 1
      /\ expiries'[Len(expiries) + 1] = x /\ \A k \in 1..Len(expiries) : expiries'[k] = expiries[k]
  BY <1>1, <1>4, <1>5, <1>6, AppendedSeq
<1>8. ProviderTypes' /\ (\A i \in TimerIds : pending[i] # 0 => i < nextId)'
  BY <1>1, <1>2, <1>7 DEF ProviderTypes
<1>9. \A y : Arming(y) => Arming(y)'
  BY <1>2 DEF Arming
<1>10. Arming(x)'
  BY <1>3, <1>5, <1>9 DEF Arming
<1>11. InFlight'
  <2>1. ASSUME NEW k \in 1..Len(expiries')
        PROVE  Arming(expiries[k])' /\ expiries'[k].deadline <= now'
    <3>1. CASE k = Len(expiries) + 1
      <4>1. expiries'[k] = x
        BY <3>1, <1>7
      <4> QED
        BY <4>1, <1>2, <1>5, <1>10 DEF Arming
    <3>2. CASE k # Len(expiries) + 1
      <4>0. Len(expiries) \in Nat /\ Len(expiries') = Len(expiries) + 1
        BY <1>6, <1>7
      <4>1. k \in 1..Len(expiries)
        BY <3>2, <4>0
      <4>a. expiries'[k] = expiries[k]
        BY <4>1, <1>7
      <4>2. PICK y : y = expiries[k]
        OBVIOUS
      <4>3. Arming(y)' /\ y.deadline <= now
        BY <4>1, <4>2, <1>9 DEF InFlight
      <4> QED
        BY <4>a, <4>2, <4>3, <1>2 DEF Arming
    <3> QED
      BY <3>1, <3>2
  <2>2. \A y \in delayQueue' : Arming(y)' /\ y.deadline <= y.due
    BY <1>1, <1>9 DEF InFlight
  <2>3. \A k \in 1..Len(commands') :
           commands'[k].op = "schedule" =>
              Arming(commands[k])' /\ commands'[k].deadline <= now' + commands'[k].delay
    BY <1>2 DEF InFlight, Arming
  <2> QED
    BY <2>1, <2>2, <2>3 DEF InFlight
<1>12. ArmedIsTracked'
  <2> SUFFICES ASSUME NEW j \in TimerIds, pending'[j] # 0 PROVE Tracked(j)'
    BY DEF ArmedIsTracked, Tracked
  <2>1. pending'[j] = pending[j] /\ Tracked(j)
    BY <1>2 DEF ArmedIsTracked, Tracked
  <2>2. \A k : LastFor(k, j) => LastFor(k, j)'
    BY <1>2 DEF LastFor
  <2>3. Unmentioned(j) => Unmentioned(j)'
    BY <1>2 DEF Unmentioned
  <2>4. CASE \E k \in 1..Len(commands) :
               LastFor(k, j) /\ commands[k].op = "schedule" /\ commands[k].generation = pending[j]
    BY <2>4, <2>1, <2>2, <1>2 DEF Tracked
  <2>5. CASE Unmentioned(j) /\ \E y \in delayQueue : y.id = j /\ y.generation = pending[j]
    <3>1. PICK y \in delayQueue : y.id = j /\ y.generation = pending[j]
      BY <2>5
    <3>2. CASE y = e
      <4>1. PICK n : n = Len(expiries) + 1
        OBVIOUS
      <4>a. Len(expiries) \in Nat /\ Len(expiries') = Len(expiries) + 1
        BY <1>6, <1>7
      <4>2. n \in 1..Len(expiries') /\ expiries'[n] = x
        BY <4>1, <4>a, <1>7
      <4> QED
        BY <4>2, <3>1, <3>2, <1>5, <2>1, <2>3, <2>5 DEF Tracked
    <3>3. CASE y # e
      BY <3>1, <3>3, <1>1, <2>1, <2>3, <2>5 DEF Tracked
    <3> QED
      BY <3>2, <3>3
  <2>6. CASE Unmentioned(j) /\ \E k \in 1..Len(expiries) :
                                   expiries[k].id = j /\ expiries[k].generation = pending[j]
    <3>1. PICK k \in 1..Len(expiries) : expiries[k].id = j /\ expiries[k].generation = pending[j]
      BY <2>6
    <3>a. Len(expiries) \in Nat /\ Len(expiries') = Len(expiries) + 1
      BY <1>6, <1>7
    <3>b. k \in 1..Len(expiries')
      BY <3>a
    <3>2. k \in 1..Len(expiries') /\ expiries'[k] = expiries[k]
      BY <3>b, <1>7
    <3> QED
      BY <3>1, <3>2, <2>1, <2>3, <2>6 DEF Tracked
  <2> QED
    BY <2>1, <2>4, <2>5, <2>6 DEF Tracked
<1> QED
  BY <1>8, <1>11, <1>12

(* Any step of the worker.                                                  *)
LEMMA WorkerProvider ==
    ASSUME ProviderInv, WorkerStep, deadline' = deadline, nextId' = nextId
    PROVE  ProviderInv' /\ now' = now /\ pending' = pending
<1>1. CASE WorkerCommand
  BY <1>1, CommandProvider DEF WorkerCommand
<1>2. CASE WorkerExpire
  BY <1>2, ExpireProvider DEF WorkerExpire
<1>3. CASE WorkerNoCommand \/ WorkerExit \/ WorkerIdle
  <2> USE DEF ProviderInv
  <2>1. /\ worker' \in {"expiries", "exited", "commands"}
        /\ UNCHANGED <<now, pending, nextGeneration, commands, delayQueue, expiries, senderOpen>>
    BY <1>3 DEF WorkerNoCommand, WorkerExit, WorkerIdle
  <2>2. ProviderTypes' /\ (\A i \in TimerIds : pending[i] # 0 => i < nextId)'
    BY <2>1 DEF ProviderTypes
  <2>3. InFlight'
    BY <2>1 DEF InFlight, Arming
  <2>4. ArmedIsTracked'
    BY <2>1 DEF ArmedIsTracked, LastFor, Unmentioned
  <2> QED
    BY <2>1, <2>2, <2>3, <2>4
<1> QED
  BY <1>1, <1>2, <1>3 DEF WorkerStep

-----------------------------------------------------------------------------
(* The operators of the timer table.                                         *)

(* The naturals are well-founded.                                           *)
LEMMA LeastExists ==
    ASSUME NEW T \in SUBSET Nat, T # {}
    PROVE  \E x \in T : \A y \in T : x <= y
<1>1. PICK x \in T : \A y \in T : ~(<<y, x>> \in OpToRel(<, Nat))
  BY NatLessThanWellFounded, WFMin
<1>2. \A y \in T : ~(y < x)
  BY <1>1 DEF OpToRel
<1>3. \A y \in T : x <= y
  BY <1>2
<1> QED
  BY <1>3

(* A set of naturals with a bound has a greatest element.                   *)
LEMMA BoundedMax ==
    ASSUME NEW n \in Nat, NEW T \in SUBSET (0..n), T # {}
    PROVE  /\ Max(T) \in T
           /\ \A y \in T : y <= Max(T)
<1> DEFINE D == {n - x : x \in T}
<1>1. D \in SUBSET Nat /\ D # {}
  <2>1. \A x \in T : n - x \in Nat
    OBVIOUS
  <2>2. D \subseteq Nat
    BY <2>1
  <2>3. PICK x \in T : TRUE
    OBVIOUS
  <2>4. n - x \in D
    OBVIOUS
  <2> QED
    BY <2>2, <2>4
<1>2. PICK m \in D : \A y \in D : m <= y
  BY <1>1, LeastExists
<1>3. PICK t \in T : m = n - t
  BY <1>2
<1>4. ASSUME NEW y \in T PROVE t >= y
  <2>1. n - y \in D
    OBVIOUS
  <2>2. n - t <= n - y
    BY <2>1, <1>2, <1>3
  <2> QED
    BY <2>2
<1>5. \E x \in T : \A y \in T : x >= y
  BY <1>4
<1> HIDE DEF D
<1>6. Max(T) \in T /\ \A y \in T : Max(T) >= y
  BY <1>5 DEF Max
<1> QED
  BY <1>6

(* The keys of distinct timers are ordered, so there is a first one.         *)
LEMMA FirstExists ==
    ASSUME NEW K \in SUBSET (Nat \X Nat), K # {}
    PROVE  First(K) \in K /\ \A l \in K \ {First(K)} : Before(First(K), l)
<1> DEFINE D == {k[1] : k \in K}
<1>1. D \in SUBSET Nat /\ D # {}
  OBVIOUS
<1>2. PICK d \in D : \A y \in D : d <= y
  BY <1>1, LeastExists
<1> DEFINE Q == {k[2] : k \in {l \in K : l[1] = d}}
<1>3. Q \in SUBSET Nat /\ Q # {}
  BY <1>2
<1>4. PICK q \in Q : \A y \in Q : q <= y
  BY <1>3, LeastExists
<1>5. PICK f \in K : f[1] = d /\ f[2] = q
  BY <1>4
<1>6. ASSUME NEW l \in K \ {f} PROVE Before(f, l)
  <2>1. l \in Nat \X Nat /\ f \in Nat \X Nat /\ l[1] \in D /\ d <= l[1]
    BY <1>2
  <2>2. CASE l[1] = d
    <3>1. l[2] \in Q /\ q <= l[2]
      BY <2>2, <1>4
    <3>2. l[2] # q
      BY <2>1, <2>2, <1>5
    <3> QED
      BY <2>1, <2>2, <3>1, <3>2, <1>5 DEF Before
  <2>3. CASE l[1] # d
    BY <2>1, <2>3, <1>5 DEF Before
  <2> QED
    BY <2>2, <2>3
<1>7. \E k \in K : \A l \in K \ {k} : Before(k, l)
  BY <1>6
<1> QED
  BY <1>7 DEF First

(* The table is finite: its ids are below the next one.                     *)
LEMMA LiveFinite ==
    ASSUME TableInv
    PROVE  IsFiniteSet(live)
<1>1. live \subseteq 1..nextId
  BY ProviderAssumption DEF TableInv, TableTypes, Fresh
<1>2. IsFiniteSet(1..nextId)
  BY FS_Interval DEF TableInv, TableTypes
<1> QED
  BY <1>1, <1>2, FS_Subset

-----------------------------------------------------------------------------
(* The timer table.                                                          *)

(* Steps that leave the table alone.                                        *)
LEMMA TableKept ==
    ASSUME TableInv, UNCHANGED <<timerVars, running, pending>>,
           now \in Nat, now' \in Nat, now' >= now
    PROVE  TableInv'
<1> USE DEF TableInv, timerVars, tableVars
<1>1. TableTypes'
  BY DEF TableTypes
<1>2. Fresh' /\ HandleIsCurrent'
  BY DEF Fresh, HandleIsCurrent
<1>3. Promoted'
  <2>1. watermark' <= now'
    BY DEF Promoted, TableTypes
  <2>2. (ready = {Key(i) : i \in {j \in live \ {running} : deadline[j] <= watermark}})'
    BY DEF Promoted, Key
  <2> QED
    BY <2>1, <2>2 DEF Promoted
<1>4. Watched'
  BY DEF Watched
<1> QED
  BY <1>1, <1>2, <1>3, <1>4

(* The timer whose callback runs leaves the table with it.                   *)
LEMMA TableDrop ==
    ASSUME TableInv, live' = live \ {running}, running' = 0,
           UNCHANGED <<deadline, sequence, interval, handle, ready, watermark, pending, now>>,
           nextId' \in Nat, nextId' >= nextId, nextSequence' \in Nat, nextSequence' >= nextSequence
    PROVE  TableInv'
<1> USE DEF TableInv
<1>1. IsFiniteSet(live) /\ Cardinality(live') <= Cardinality(live) /\ Cardinality(live') \in Nat
  <2>1. IsFiniteSet(live) /\ live' \subseteq live
    BY LiveFinite
  <2>2. IsFiniteSet(live') /\ Cardinality(live') <= Cardinality(live)
    BY <2>1, FS_Subset
  <2> QED
    BY <2>1, <2>2, FS_CardinalityType
<1>2. Cardinality(live) \in Nat
  BY <1>1, FS_CardinalityType
<1>3. TableTypes'
  <2>1. Cardinality(live') <= MaxTimers
    BY <1>1, <1>2, LoopAssumption DEF TableTypes
  <2>2. nextId' \in Nat \ {0}
    BY DEF TableTypes
  <2> QED
    BY <2>1, <2>2 DEF TableTypes
<1>4. Fresh'
  <2>1. \A i \in live' : i \in live /\ i \in Nat /\ sequence[i] \in Nat
    BY ProviderAssumption DEF TableTypes
  <2>2. nextId \in Nat \ {0} /\ nextSequence \in Nat
    BY DEF TableTypes
  <2>3. running' < nextId'
    BY <2>2
  <2> QED
    BY <2>1, <2>2, <2>3 DEF Fresh
<1>5. HandleIsCurrent'
  BY DEF HandleIsCurrent
<1>6. live' \ {running'} = live \ {running}
  BY ProviderAssumption DEF TableTypes
<1>7. Promoted'
  BY <1>6 DEF Promoted, Key
<1>8. Watched'
  BY <1>6 DEF Watched
<1> QED
  BY <1>3, <1>4, <1>5, <1>7, <1>8

(* A timer of the next id and sequence, due later than now.                  *)
LEMMA TableSet ==
    ASSUME TableInv, nextId \in TimerIds, Cardinality(live) < MaxTimers,
           NEW d \in Nat \ {0}, NEW r \in Nat, now \in Nat, nextGeneration \in Nat \ {0},
           pending \in [TimerIds -> Nat],
           running < nextId,
           pending' = [pending EXCEPT ![nextId] = nextGeneration],
           live' = live \union {nextId},
           deadline' = [deadline EXCEPT ![nextId] = now + d],
           sequence' = [sequence EXCEPT ![nextId] = nextSequence],
           interval' = [interval EXCEPT ![nextId] = r],
           handle' = [handle EXCEPT ![nextId] = nextSequence],
           nextId' = nextId + 1, nextSequence' = nextSequence + 1,
           UNCHANGED <<ready, watermark, running, now>>
    PROVE  TableInv'
<1> USE DEF TableInv
<1>1. nextId \notin live /\ nextId # running /\ nextId \in Nat /\ nextSequence \in Nat
  BY DEF TableTypes, Fresh
<1>2. IsFiniteSet(live) /\ Cardinality(live) \in Nat
  BY LiveFinite, FS_CardinalityType
<1>3. Cardinality(live') = Cardinality(live) + 1
  BY <1>1, <1>2, FS_AddElement
<1>4. TableTypes'
  <2>1. Cardinality(live') <= MaxTimers
    BY <1>2, <1>3, LoopAssumption
  <2> QED
    BY <2>1, <1>1 DEF TableTypes
<1>5. \A i \in live : /\ i # nextId /\ deadline'[i] = deadline[i] /\ sequence'[i] = sequence[i]
                      /\ handle'[i] = handle[i] /\ pending'[i] = pending[i]
                      /\ i \in Nat /\ sequence[i] \in Nat /\ i < nextId /\ sequence[i] < nextSequence
  BY <1>1, ProviderAssumption DEF TableTypes, Fresh
<1>6. /\ deadline'[nextId] = now + d /\ sequence'[nextId] = nextSequence
      /\ handle'[nextId] = nextSequence /\ pending'[nextId] = nextGeneration
  BY DEF TableTypes
<1>7. Fresh'
  <2>1. \A i \in live' : i < nextId' /\ sequence'[i] < nextSequence'
    BY <1>1, <1>5, <1>6
  <2>2. \A i, j \in live' : sequence'[i] = sequence'[j] => i = j
    BY <1>1, <1>5, <1>6 DEF Fresh
  <2>3. running \in Nat
    BY ProviderAssumption DEF TableTypes
  <2>4. running' < nextId'
    BY <2>3, <1>1
  <2> QED
    BY <2>1, <2>2, <2>4 DEF Fresh
<1>8. HandleIsCurrent'
  BY <1>5, <1>6 DEF HandleIsCurrent
<1>9. Promoted'
  <2>1. ~(deadline'[nextId] <= watermark)
    BY <1>6 DEF Promoted, TableTypes
  <2>2. {j \in live' \ {running'} : deadline'[j] <= watermark'}
          = {j \in live \ {running} : deadline[j] <= watermark}
    BY <2>1, <1>5
  <2>3. ASSUME NEW i \in {j \in live \ {running} : deadline[j] <= watermark} PROVE Key(i)' = Key(i)
    BY <1>5 DEF Key
  <2>4. {Key(i)' : i \in {j \in live \ {running} : deadline[j] <= watermark}} = ready
    BY <2>3 DEF Promoted
  <2> QED
    BY <2>2, <2>4 DEF Promoted
<1>10. Watched'
  BY <1>5, <1>6 DEF Watched
<1> QED
  BY <1>4, <1>7, <1>8, <1>9, <1>10

(* An interval is armed again once its callback has returned.                *)
LEMMA TableRearm ==
    ASSUME TableInv, NEW i \in live, i = running, interval[i] # 0, now \in Nat,
           nextGeneration \in Nat \ {0}, pending \in [TimerIds -> Nat],
           Rearm(i), running' = 0
    PROVE  TableInv' /\ deadline'[i] > now
<1> USE DEF TableInv
<1>1. /\ pending' = [pending EXCEPT ![i] = nextGeneration]
      /\ deadline' = [deadline EXCEPT ![i] = now + interval[i]]
      /\ sequence' = [sequence EXCEPT ![i] = nextSequence]
      /\ handle' = [handle EXCEPT ![i] = nextSequence]
      /\ nextSequence' = nextSequence + 1
      /\ UNCHANGED <<live, interval, nextId, watermark, now>>
  BY DEF Rearm, Schedule
<1>2. interval[i] \in Nat \ {0} /\ nextSequence \in Nat /\ i \in TimerIds
  BY DEF TableTypes
<1>3. ~(now + interval[i] <= watermark)
  BY <1>2 DEF Promoted, TableTypes
<1>4. ready' = ready
  BY <1>3 DEF Rearm
<1>5. TableTypes'
  BY <1>1, <1>2, <1>4 DEF TableTypes
<1>6. \A j \in live : j # i => /\ deadline'[j] = deadline[j] /\ sequence'[j] = sequence[j]
                               /\ handle'[j] = handle[j] /\ pending'[j] = pending[j]
  BY <1>1 DEF TableTypes
<1>7. \A j \in live : sequence[j] \in Nat /\ sequence[j] < nextSequence /\ j < nextId
  BY DEF TableTypes, Fresh
<1>8. /\ deadline'[i] = now + interval[i] /\ sequence'[i] = nextSequence
      /\ handle'[i] = nextSequence /\ pending'[i] = nextGeneration
  BY <1>1, <1>2 DEF TableTypes
<1>9. Fresh'
  <2>1. \A j \in live' : j < nextId' /\ sequence'[j] < nextSequence'
    BY <1>1, <1>2, <1>6, <1>7, <1>8
  <2>2. \A j, k \in live' : sequence'[j] = sequence'[k] => j = k
    BY <1>1, <1>2, <1>6, <1>7, <1>8 DEF Fresh
  <2>3. running' < nextId'
    BY <1>1 DEF TableTypes
  <2> QED
    BY <2>1, <2>2, <2>3 DEF Fresh
<1>10. HandleIsCurrent'
  BY <1>1, <1>6, <1>8 DEF HandleIsCurrent
<1>11. live' \ {running'} = live
  BY <1>1, ProviderAssumption DEF TableTypes
<1>12. Promoted'
  <2>1. {j \in live' \ {running'} : deadline'[j] <= watermark'}
          = {j \in live \ {running} : deadline[j] <= watermark}
    BY <1>1, <1>3, <1>6, <1>8, <1>11
  <2>2. ASSUME NEW j \in {k \in live \ {running} : deadline[k] <= watermark} PROVE Key(j)' = Key(j)
    BY <1>6 DEF Key
  <2>3. {Key(j)' : j \in {k \in live \ {running} : deadline[k] <= watermark}} = ready
    BY <2>2 DEF Promoted
  <2> QED
    BY <1>1, <1>4, <2>1, <2>3 DEF Promoted
<1>13. Watched'
  BY <1>1, <1>6, <1>8, <1>11 DEF Watched
<1>14. deadline'[i] > now
  BY <1>2, <1>8
<1> QED
  BY <1>5, <1>9, <1>10, <1>12, <1>13, <1>14

(* A timer is cleared, the running one included.                             *)
LEMMA TableClear ==
    ASSUME TableInv, NEW i \in live, pending \in [TimerIds -> Nat],
           live' = live \ {i}, ready' = ready \ {Key(i)},
           \A j \in TimerIds \ {i} : pending'[j] = pending[j],
           UNCHANGED <<deadline, sequence, interval, handle, nextId, nextSequence, watermark,
                       running, now>>
    PROVE  TableInv'
<1> USE DEF TableInv
<1>1. Cardinality(live') <= MaxTimers
  <2>1. IsFiniteSet(live)
    BY LiveFinite
  <2>2. IsFiniteSet(live') /\ Cardinality(live') <= Cardinality(live)
    BY <2>1, FS_Subset
  <2>3. Cardinality(live) \in Nat /\ Cardinality(live') \in Nat
    BY <2>1, <2>2, FS_CardinalityType
  <2> QED
    BY <2>2, <2>3, LoopAssumption DEF TableTypes
<1>2. TableTypes'
  BY <1>1 DEF TableTypes
<1>3. Fresh' /\ HandleIsCurrent'
  BY DEF Fresh, HandleIsCurrent
<1>4. ASSUME NEW j \in live, j # i PROVE Key(j) # Key(i)
  BY <1>4 DEF Key, Fresh
<1>5. Promoted'
  <2>1. ready' = {Key(j) : j \in {k \in live' \ {running} : deadline[k] <= watermark}}
    BY <1>4 DEF Promoted
  <2> QED
    BY <2>1 DEF Promoted, Key
<1>6. Watched'
  BY DEF Watched, TableTypes
<1> QED
  BY <1>2, <1>3, <1>5, <1>6

(* What the provider reports raises the watermark, never past the clock.     *)
LEMMA WatermarkRises ==
    ASSUME TableInv, NEW S, Accepts(S), now \in Nat
    PROVE  /\ WatermarkAfter(S) \in Nat /\ watermark <= WatermarkAfter(S) /\ WatermarkAfter(S) <= now
           /\ \A e \in Reported(S) : deadline[e.id] <= WatermarkAfter(S)
           /\ Reported(S) = {} => WatermarkAfter(S) = watermark
<1> DEFINE T == {watermark} \union {e.deadline : e \in Reported(S)}
<1>1. T \in SUBSET (0..now) /\ T # {}
  <2>1. watermark \in 0..now
    BY DEF TableInv, TableTypes, Promoted
  <2>2. ASSUME NEW e \in Reported(S) PROVE e.deadline \in 0..now /\ e.deadline = deadline[e.id]
    BY DEF Reported, Accepts
  <2> QED
    BY <2>1, <2>2
<1>2. \A e \in Reported(S) : e.deadline = deadline[e.id] /\ e.deadline \in T
  BY DEF Reported, Accepts
<1>3. watermark \in T
  OBVIOUS
<1>4. Max(T) \in T /\ \A y \in T : y <= Max(T)
  <2> HIDE DEF T
  <2> QED
    BY <1>1, BoundedMax
<1>5. WatermarkAfter(S) = Max(T)
  BY DEF WatermarkAfter
<1>6. Reported(S) = {} => T = {watermark}
  OBVIOUS
<1> HIDE DEF T
<1>7. PICK m : m = Max(T)
  OBVIOUS
<1>8. m \in T /\ m \in Nat /\ m <= now /\ \A y \in T : y <= m
  <2>1. m \in T /\ \A y \in T : y <= m
    BY <1>4, <1>7
  <2>2. m \in 0..now
    BY <2>1, <1>1
  <2> QED
    BY <2>1, <2>2
<1>9. \A e \in Reported(S) : deadline[e.id] <= m
  BY <1>2, <1>8
<1>10. Reported(S) = {} => m = watermark
  BY <1>6, <1>8
<1>11. watermark <= m /\ WatermarkAfter(S) = m
  BY <1>3, <1>5, <1>7, <1>8
<1> QED
  BY <1>8, <1>9, <1>10, <1>11

(* Ready is what lies at or below the new watermark.                         *)
LEMMA ReadyRises ==
    ASSUME TableInv, NEW S, Accepts(S), now \in Nat, running = 0
    PROVE  ReadyAfter(S) = {Key(i) : i \in {j \in live : deadline[j] <= WatermarkAfter(S)}}
<1>1. live \ {running} = live
  BY ProviderAssumption DEF TableInv, TableTypes
<1>2. ready = {Key(i) : i \in {j \in live : deadline[j] <= watermark}}
  BY <1>1 DEF TableInv, Promoted
<1>3. CASE Reported(S) = {}
  BY <1>2, <1>3, WatermarkRises DEF ReadyAfter
<1>4. CASE Reported(S) # {}
  <2>1. WatermarkAfter(S) \in Nat /\ watermark <= WatermarkAfter(S) /\ watermark \in Nat
    BY WatermarkRises DEF TableInv, TableTypes
  <2>2. \A j \in live : deadline[j] \in Nat
    BY DEF TableInv, TableTypes
  <2>3. {j \in live : deadline[j] <= watermark} \subseteq {j \in live : deadline[j] <= WatermarkAfter(S)}
    BY <2>1, <2>2
  <2>4. ready \subseteq {Key(i) : i \in {j \in live : deadline[j] <= WatermarkAfter(S)}}
    BY <1>2, <2>3
  <2> QED
    BY <1>4, <2>4 DEF ReadyAfter
<1> QED
  BY <1>3, <1>4

(* A wakeup makes the timers at or below the watermark ready.                *)
LEMMA TablePromote ==
    ASSUME TableInv, NEW S, Accepts(S), now \in Nat, running = 0,
           watermark' = WatermarkAfter(S), ready' = ReadyAfter(S),
           UNCHANGED <<tableVars, running, now>>
    PROVE  TableInv'
<1> USE DEF TableInv, tableVars
<1>1. PICK w : w = WatermarkAfter(S)
  OBVIOUS
<1>2. /\ w \in Nat /\ watermark \in Nat /\ watermark <= w /\ w <= now /\ watermark' = w
      /\ \A e \in Reported(S) : deadline[e.id] <= w
  BY <1>1, WatermarkRises DEF TableTypes
<1>3. ready' = {Key(i) : i \in {j \in live : deadline[j] <= w}}
  BY <1>1, ReadyRises
<1>4. \A i \in live : Key(i) \in Nat \X Nat
  BY DEF TableTypes, Key
<1>5. TableTypes'
  <2>1. ready' \subseteq Nat \X Nat
    BY <1>3, <1>4
  <2> QED
    BY <2>1, <1>2 DEF TableTypes
<1>6. Fresh' /\ HandleIsCurrent'
  BY DEF Fresh, HandleIsCurrent
<1>7. live \ {running} = live
  BY ProviderAssumption DEF TableTypes
<1>8. Promoted'
  <2>1. \A i : Key(i)' = Key(i)
    BY DEF Key
  <2>2. (\A i \in live : i \in live \ {running})'
    BY <1>7
  <2>3. {j \in live' \ {running'} : deadline'[j] <= watermark'} = {j \in live : deadline[j] <= w}
    BY <1>2, <1>7
  <2> QED
    BY <1>2, <1>3, <2>1, <2>3 DEF Promoted
<1>9. Watched'
  <2> SUFFICES ASSUME NEW i \in live PROVE pending'[i] # 0 \/ deadline[i] <= w
    BY <1>2, <1>7 DEF Watched
  <2>1. i \in TimerIds /\ deadline[i] \in Nat
    BY DEF TableTypes
  <2>2. CASE pending'[i] = pending[i]
    <3>1. pending[i] # 0 \/ deadline[i] <= watermark
      BY <1>7 DEF Watched
    <3> QED
      BY <2>1, <2>2, <3>1, <1>2
  <2>3. CASE \E e \in S : e.id = i
    BY <2>3, <1>2 DEF Reported
  <2> QED
    BY <2>1, <2>2, <2>3 DEF Accepts
<1> QED
  BY <1>5, <1>6, <1>8, <1>9

(* The first ready timer is the first of all live timers.                    *)
LEMMA FirstIsLive ==
    ASSUME TableInv, NEW S, Accepts(S), now \in Nat, running = 0, ready # {}
    PROVE  \E i \in live :
              /\ {j \in live : Key(j) = First(ReadyAfter(S))} = {i}
              /\ First(ReadyAfter(S)) = Key(i)
              /\ deadline[i] <= WatermarkAfter(S)
              /\ \A j \in live \ {i} : Before(Key(i), Key(j))
<1> USE DEF TableInv
<1>1. PICK w : w = WatermarkAfter(S)
  OBVIOUS
<1>2. w \in Nat /\ watermark \in Nat /\ watermark <= w
  BY <1>1, WatermarkRises DEF TableTypes
<1>3. PICK R : R = ReadyAfter(S)
  OBVIOUS
<1>4. R = {Key(i) : i \in {j \in live : deadline[j] <= w}}
  BY <1>1, <1>3, ReadyRises
<1>5. \A i \in live : Key(i) \in Nat \X Nat /\ deadline[i] \in Nat /\ sequence[i] \in Nat
  BY DEF TableTypes, Key
<1>6. R \in SUBSET (Nat \X Nat)
  BY <1>4, <1>5
<1>7. R # {}
  <2>1. PICK i \in live \ {running} : deadline[i] <= watermark
    BY DEF Promoted
  <2>2. deadline[i] <= w
    BY <2>1, <1>2, <1>5
  <2> QED
    BY <2>2, <1>4
<1>8. First(R) \in R /\ \A l \in R \ {First(R)} : Before(First(R), l)
  BY <1>6, <1>7, FirstExists
<1>9. PICK i \in live : deadline[i] <= w /\ First(R) = Key(i)
  BY <1>4, <1>8
<1>10. \A j \in live : Key(j) = Key(i) => j = i
  BY DEF Key, Fresh
<1>11. ASSUME NEW j \in live \ {i} PROVE Before(Key(i), Key(j))
  <2>1. CASE deadline[j] <= w
    <3>1. Key(j) \in R \ {First(R)}
      BY <2>1, <1>4, <1>9, <1>10
    <3> QED
      BY <3>1, <1>8, <1>9
  <2>2. CASE ~(deadline[j] <= w)
    <3>1. deadline[i] < deadline[j]
      BY <2>2, <1>2, <1>5, <1>9
    <3> QED
      BY <3>1 DEF Before, Key
  <2> QED
    BY <2>1, <2>2
<1>12. {j \in live : Key(j) = First(R)} = {i}
  BY <1>9, <1>10
<1> QED
  BY <1>1, <1>3, <1>9, <1>11, <1>12

(* The first ready timer is taken: it is neither ready nor waiting.          *)
LEMMA TableFire ==
    ASSUME TableInv, NEW S, Accepts(S), now \in Nat, running = 0, NEW i \in live,
           First(ReadyAfter(S)) = Key(i),
           watermark' = WatermarkAfter(S), ready' = ReadyAfter(S) \ {Key(i)}, running' = i,
           UNCHANGED <<tableVars, now>>
    PROVE  TableInv'
<1> USE DEF TableInv, tableVars
<1>1. PICK w : w = WatermarkAfter(S)
  OBVIOUS
<1>2. /\ w \in Nat /\ watermark \in Nat /\ watermark <= w /\ w <= now /\ watermark' = w
      /\ \A e \in Reported(S) : deadline[e.id] <= w
  BY <1>1, WatermarkRises DEF TableTypes
<1>3. ReadyAfter(S) = {Key(j) : j \in {k \in live : deadline[k] <= w}}
  BY <1>1, ReadyRises
<1>4. \A j \in live : Key(j) \in Nat \X Nat
  BY DEF TableTypes, Key
<1>5. TableTypes'
  <2>1. ready' \subseteq Nat \X Nat
    BY <1>3, <1>4
  <2>2. i \in TimerIds
    BY DEF TableTypes
  <2> QED
    BY <2>1, <2>2, <1>2 DEF TableTypes
<1>6. Fresh' /\ HandleIsCurrent'
  BY DEF Fresh, HandleIsCurrent
<1>7. \A j \in live : Key(j) = Key(i) => j = i
  BY DEF Key, Fresh
<1>8. Promoted'
  <2>1. \A j : Key(j)' = Key(j)
    BY DEF Key
  <2>2. {Key(j) : j \in {k \in live : deadline[k] <= w}} \ {Key(i)}
          = {Key(j) : j \in {k \in live \ {i} : deadline[k] <= w}}
    BY <1>7
  <2>3. {j \in live' \ {running'} : deadline'[j] <= watermark'} = {j \in live \ {i} : deadline[j] <= w}
    BY <1>2
  <2> QED
    BY <1>2, <1>3, <2>1, <2>2, <2>3 DEF Promoted
<1>9. Watched'
  <2> SUFFICES ASSUME NEW j \in live PROVE pending'[j] # 0 \/ deadline[j] <= w
    BY <1>2 DEF Watched
  <2>1. j \in TimerIds /\ deadline[j] \in Nat /\ j # running
    BY ProviderAssumption DEF TableTypes
  <2>2. CASE pending'[j] = pending[j]
    <3>1. pending[j] # 0 \/ deadline[j] <= watermark
      BY <2>1 DEF Watched
    <3> QED
      BY <2>1, <2>2, <3>1, <1>2
  <2>3. CASE \E e \in S : e.id = j
    BY <2>3, <1>2 DEF Reported
  <2> QED
    BY <2>1, <2>2, <2>3 DEF Accepts
<1> QED
  BY <1>5, <1>6, <1>8, <1>9

-----------------------------------------------------------------------------
(* The steps.                                                                *)

(* Steps that leave provider and table alone.                               *)
LEMMA Quiet ==
    ASSUME IInv, UNCHANGED <<providerVars, timerVars, running>>, ControlInv'
    PROVE  IInv'
<1>1. now \in Nat /\ nextId \in Nat /\ pending' = pending /\ now' = now /\ nextId' = nextId
  BY DEF IInv, ProviderInv, ProviderTypes, providerVars, timerVars, tableVars
<1>2. ProviderInv'
  BY <1>1, ProviderKept DEF IInv, timerVars, tableVars
<1>3. TableInv'
  BY <1>1, TableKept DEF IInv
<1> QED
  BY <1>2, <1>3 DEF IInv

(* Steps of a job that touch no timer.                                      *)
LEMMA QuietJobSteps ==
    ASSUME IInv, QueueMicrotask \/ SettleEntry \/ EntryReturns \/ JobThrows \/ MicrotaskReturns
    PROVE  IInv'
<1> USE DEF IInv, ControlInv, ControlTypes, NoInternalFailure
<1>1. UNCHANGED <<providerVars, timerVars, running>>
  BY DEF QueueMicrotask, SettleEntry, EntryReturns, JobThrows, MicrotaskReturns
<1>2. UNCHANGED <<ready, live>>
  BY <1>1 DEF timerVars, tableVars
<1>3. CASE QueueMicrotask
  <2>1. microtasks' \in 0..MaxMicrotasks /\ fuel' \in 0..Fuel
    BY <1>3, LoopAssumption DEF QueueMicrotask, Operation
  <2>2. ControlInv'
    BY <1>1, <1>2, <1>3, <2>1 DEF QueueMicrotask, Operation
  <2> QED
    BY <1>1, <2>2, Quiet
<1>4. CASE SettleEntry
  <2>1. fuel' \in 0..Fuel
    BY <1>4, LoopAssumption DEF SettleEntry, Operation
  <2>2. ControlInv'
    BY <1>1, <1>2, <1>4, <2>1 DEF SettleEntry, Operation
  <2> QED
    BY <1>1, <2>2, Quiet
<1>5. CASE EntryReturns \/ JobThrows \/ MicrotaskReturns
  <2>1. running = 0
    BY <1>5 DEF EntryReturns, JobThrows, MicrotaskReturns
  <2>2. ControlInv'
    BY <1>1, <1>2, <1>5, <2>1 DEF EntryReturns, JobThrows, MicrotaskReturns, End
  <2> QED
    BY <1>1, <2>2, Quiet
<1> QED
  BY <1>3, <1>4, <1>5

(* Steps of the loop that touch no timer.                                   *)
LEMMA QuietLoopSteps ==
    ASSUME IInv, RunMicrotask \/ EntrySettled \/ LoopStops \/ AwaitTimer \/ HostJoin \/ CancelMachine
    PROVE  IInv'
<1> USE DEF IInv, ControlInv, ControlTypes, NoInternalFailure
<1>1. UNCHANGED <<providerVars, timerVars, running>>
  BY DEF RunMicrotask, EntrySettled, LoopStops, AwaitTimer, HostJoin, CancelMachine, loopVars
<1>2. UNCHANGED <<ready, live>>
  BY <1>1 DEF timerVars, tableVars
<1>3. CASE RunMicrotask
  <2>1. microtasks' \in 0..MaxMicrotasks /\ fuel' \in 0..Fuel
    BY <1>3, LoopAssumption DEF RunMicrotask
  <2>2. ControlInv'
    BY <1>1, <1>2, <1>3, <2>1 DEF RunMicrotask, End
  <2> QED
    BY <1>1, <2>2, Quiet
<1>4. CASE EntrySettled
  <2>1. ControlInv'
    BY <1>1, <1>2, <1>4 DEF EntrySettled, End, Checkpoint
  <2> QED
    BY <1>1, <2>1, Quiet
<1>5. CASE LoopStops
  <2>1. ControlInv'
    BY <1>1, <1>2, <1>5 DEF LoopStops, End, Checkpoint
  <2> QED
    BY <1>1, <2>1, Quiet
<1>6. CASE AwaitTimer
  <2>1. /\ loop' \in {"wait", "run"}
        /\ loop' = "wait" => ready' = {} /\ live' # {}
        /\ loop' = "run" => ready' # {}
    BY <1>2, <1>6 DEF AwaitTimer
  <2>2. (mode' = "entry" => settled' = "no") /\ running' = 0
    BY <1>1, <1>6 DEF AwaitTimer, AwaitsEntry, Checkpoint
  <2>3. ControlInv'
    BY <2>1, <2>2, <1>6 DEF AwaitTimer
  <2> QED
    BY <1>1, <2>3, Quiet
<1>7. CASE HostJoin
  <2>1. ControlInv'
    BY <1>1, <1>2, <1>7 DEF HostJoin
  <2> QED
    BY <1>1, <2>1, Quiet
<1>8. CASE CancelMachine
  <2>1. ControlInv'
    BY <1>1, <1>2, <1>8 DEF CancelMachine, loopVars
  <2> QED
    BY <1>1, <2>1, Quiet
<1> QED
  BY <1>3, <1>4, <1>5, <1>6, <1>7, <1>8

(* A wait never ends with no timer armed: what waits and is not armed lies   *)
(* below the watermark, and is ready.                                        *)
LEMMA WaitEndsStep ==
    ASSUME IInv, WaitEnds
    PROVE  IInv'
<1> USE DEF IInv, ControlInv, ControlTypes, NoInternalFailure
<1>1. UNCHANGED <<providerVars, timerVars, running>> /\ UNCHANGED <<ready, live>>
  BY DEF WaitEnds, timerVars, tableVars
<1>2. loop = "wait" /\ running = 0 /\ ready = {} /\ live # {}
  BY DEF WaitEnds
<1>3. ~(\A i \in TimerIds : pending[i] = 0)
  <2>1. PICK i \in live : TRUE
    BY <1>2
  <2>2. i \in TimerIds /\ i \in live \ {running}
    BY <1>2, ProviderAssumption DEF TableInv, TableTypes
  <2>3. ~(deadline[i] <= watermark)
    BY <1>2, <2>2 DEF TableInv, Promoted
  <2> QED
    BY <2>2, <2>3 DEF TableInv, Watched
<1>4. cancelled /\ outcome' = "cancelled" /\ loop' = "done"
  BY <1>3 DEF WaitEnds, End
<1>5. ControlInv'
  BY <1>1, <1>2, <1>4 DEF WaitEnds
<1> QED
  BY <1>1, <1>5, Quiet

(* A wait that receives a wakeup.                                           *)
LEMMA WaitReceivesStep ==
    ASSUME IInv, WaitReceives
    PROVE  IInv'
<1> USE DEF IInv
<1>1. PICK S \in SUBSET {expiries[k] : k \in 1..Len(expiries)} :
        /\ ReceiveExpiry(S)
        /\ watermark' = WatermarkAfter(S)
        /\ ready' = ReadyAfter(S)
        /\ loop' = IF S = {} THEN "wait" ELSE IF ready' = {} THEN "microtasks" ELSE "run"
  BY DEF WaitReceives
<1>2. /\ UNCHANGED <<tableVars, mode, settled, microtasks, running, fuel, outcome, cancelled>>
      /\ loop = "wait"
  BY DEF WaitReceives
<1>3. running = 0 /\ ready = {} /\ live # {} /\ live' = live
  BY <1>2 DEF ControlInv, tableVars
<1>4. ProviderInv' /\ Accepts(S) /\ now' = now
  BY <1>1, <1>2, AcceptProvider DEF tableVars
<1>5. TableInv'
  BY <1>1, <1>2, <1>3, <1>4, TablePromote DEF ProviderInv, ProviderTypes
<1>6. S = {} => ready' = {}
  BY <1>1, <1>3 DEF ReadyAfter, Reported
<1>7. ControlInv'
  BY <1>1, <1>2, <1>3, <1>6 DEF ControlInv, ControlTypes, NoInternalFailure
<1> QED
  BY <1>4, <1>5, <1>7

(* A ready key always has an owner.                                          *)
LEMMA RunTimerStep ==
    ASSUME IInv, RunTimer
    PROVE  /\ IInv'
           /\ \/ UNCHANGED running /\ loop' = "done"
              \/ \E i \in live : /\ running' = i /\ deadline[i] <= now
                                 /\ \A j \in live \ {i} : Before(Key(i), Key(j))
<1> USE DEF IInv
<1>1. PICK S \in SUBSET {expiries[k] : k \in 1..Len(expiries)} :
        /\ PollExpired(S)
        /\ watermark' = WatermarkAfter(S)
        /\ LET first == First(ReadyAfter(S))
               owners == {i \in live : Key(i) = first}
           IN IF owners # {} /\ Affordable
              THEN /\ ready' = ReadyAfter(S) \ {first}
                   /\ running' \in owners
                   /\ fuel' = fuel - 1
                   /\ loop' = "callback"
                   /\ UNCHANGED outcome
              ELSE /\ ready' = ReadyAfter(S)
                   /\ End(IF owners = {} THEN "invalid"
                          ELSE IF cancelled THEN "cancelled" ELSE "fuel")
                   /\ UNCHANGED <<running, fuel>>
  BY DEF RunTimer
<1>2. UNCHANGED <<tableVars, mode, settled, microtasks, cancelled>> /\ loop = "run"
  BY DEF RunTimer
<1>3. running = 0 /\ ready # {}
  BY <1>2 DEF ControlInv
<1>4. ProviderInv' /\ Accepts(S) /\ now' = now /\ now \in Nat
  BY <1>1, <1>2, AcceptProvider DEF tableVars, ProviderInv, ProviderTypes
<1>5. PICK i \in live :
        /\ {j \in live : Key(j) = First(ReadyAfter(S))} = {i}
        /\ First(ReadyAfter(S)) = Key(i)
        /\ deadline[i] <= WatermarkAfter(S)
        /\ \A j \in live \ {i} : Before(Key(i), Key(j))
  BY <1>3, <1>4, FirstIsLive
<1>6. CASE Affordable
  <2>1. /\ ready' = ReadyAfter(S) \ {Key(i)} /\ running' = i /\ fuel' = fuel - 1
        /\ loop' = "callback" /\ UNCHANGED outcome
    BY <1>1, <1>5, <1>6
  <2>2. TableInv'
    BY <1>1, <1>2, <1>3, <1>4, <1>5, <2>1, TableFire
  <2>3. fuel' \in 0..Fuel
    BY <1>6, <2>1, LoopAssumption DEF Affordable, ControlInv, ControlTypes
  <2>4. ControlInv'
    BY <1>2, <2>1, <2>3 DEF ControlInv, ControlTypes, NoInternalFailure
  <2>5. WatermarkAfter(S) \in Nat /\ WatermarkAfter(S) <= now /\ deadline[i] \in Nat
    BY <1>4, WatermarkRises DEF TableInv, TableTypes
  <2>6. deadline[i] <= now
    BY <1>4, <1>5, <2>5
  <2> QED
    BY <1>4, <1>5, <2>1, <2>2, <2>4, <2>6
<1>7. CASE ~Affordable
  <2>1. /\ ready' = ReadyAfter(S) /\ End(IF cancelled THEN "cancelled" ELSE "fuel")
        /\ UNCHANGED <<running, fuel>>
    BY <1>1, <1>5, <1>7
  <2>2. TableInv'
    BY <1>1, <1>2, <1>3, <1>4, <2>1, TablePromote
  <2>3. ControlInv'
    BY <1>2, <1>3, <2>1 DEF ControlInv, ControlTypes, NoInternalFailure, End
  <2> QED
    BY <1>4, <2>1, <2>2, <2>3 DEF End
<1> QED
  BY <1>6, <1>7

(* A timer is set.                                                          *)
LEMMA SetTimerStep ==
    ASSUME IInv, NEW d \in Delays, NEW r \in Nat, SetTimer(d, r)
    PROVE  IInv' /\ deadline'[nextId] > now
<1> USE DEF IInv
<1>1. /\ nextId \in TimerIds /\ Cardinality(live) < MaxTimers /\ Schedule(nextId, d)
      /\ live' = live \union {nextId}
      /\ deadline' = [deadline EXCEPT ![nextId] = now + d]
      /\ sequence' = [sequence EXCEPT ![nextId] = nextSequence]
      /\ interval' = [interval EXCEPT ![nextId] = r]
      /\ handle' = [handle EXCEPT ![nextId] = nextSequence]
      /\ nextId' = nextId + 1 /\ nextSequence' = nextSequence + 1
      /\ UNCHANGED <<ready, watermark, loop, mode, settled, microtasks, running, outcome>>
      /\ Operation
  BY DEF SetTimer
<1>2. d \in Nat /\ d \in Nat \ {0} /\ now \in Nat /\ nextId \in Nat /\ nextGeneration \in Nat \ {0}
      /\ pending \in [TimerIds -> Nat] /\ running < nextId
  BY ProviderAssumption DEF ProviderInv, ProviderTypes, TableInv, Fresh
<1>3. ProviderInv'
  <2>1. PICK n \in TimerIds : n = nextId
    BY <1>1
  <2>2. Schedule(n, d) /\ deadline' = [deadline EXCEPT ![n] = now + d] /\ n < nextId'
        /\ nextId' \in Nat /\ nextId' >= nextId
    BY <1>1, <1>2, <2>1
  <2> QED
    BY <1>2, <2>2, ScheduleProvider
<1>4. pending' = [pending EXCEPT ![nextId] = nextGeneration] /\ now' = now
  BY <1>1 DEF Schedule
<1>5. TableInv'
  BY <1>1, <1>2, <1>4, TableSet
<1>6. ControlInv'
  <2>1. fuel' \in 0..Fuel /\ cancelled' \in BOOLEAN /\ InJob
    BY <1>1, LoopAssumption DEF Operation, ControlInv, ControlTypes
  <2> QED
    BY <1>1, <2>1 DEF ControlInv, ControlTypes, NoInternalFailure, InJob
<1>7. deadline'[nextId] > now
  BY <1>1, <1>2 DEF ProviderInv, ProviderTypes
<1> QED
  BY <1>3, <1>5, <1>6, <1>7

(* The machine ends with the job.                                            *)
LEMMA EndedControl ==
    ASSUME IInv, running' = 0, loop' = "done",
           outcome' \in {"failed", "cancelled", "fuel", "uncaught"},
           fuel' \in 0..Fuel, cancelled' \in BOOLEAN, UNCHANGED <<mode, settled, microtasks>>
    PROVE  ControlInv'
BY DEF IInv, ControlInv, ControlTypes, NoInternalFailure

(* A timer cannot be set.                                                   *)
LEMMA SetTimerFailsStep ==
    ASSUME IInv, NEW d \in Delays, SetTimerFails(d)
    PROVE  IInv' /\ now' = now
<1> USE DEF IInv
<1>1. /\ nextId \in TimerIds /\ Operation /\ live' = live \ {running} /\ running' = 0
      /\ loop' = "done" /\ outcome' = "failed"
      /\ UNCHANGED <<deadline, sequence, interval, handle, ready, watermark, mode, settled, microtasks>>
  BY DEF SetTimerFails, End
<1>2. \/ UNCHANGED <<providerVars, nextId, nextSequence>>
      \/ /\ nextId' = nextId + 1 /\ nextSequence' = nextSequence + 1
         /\ UNCHANGED providerVars
      \/ /\ nextId' = nextId + 1 /\ nextSequence' = nextSequence + 1
         /\ ScheduleUndone(nextId, d)
  BY DEF SetTimerFails
<1>3. nextId \in Nat /\ nextSequence \in Nat /\ d \in Nat
  BY ProviderAssumption DEF TableInv, TableTypes
<1>4. pending' = pending /\ now' = now
  BY <1>2 DEF providerVars, ScheduleUndone
<1>5. /\ nextId' \in Nat /\ nextId' >= nextId /\ nextSequence' \in Nat /\ nextSequence' >= nextSequence
  BY <1>2, <1>3
<1>6. TableInv'
  BY <1>1, <1>4, <1>5, TableDrop
<1>7. ProviderInv'
  <2>1. CASE UNCHANGED providerVars
    BY <2>1, <1>1, <1>5, ProviderKept
  <2>2. CASE nextId' = nextId + 1 /\ ScheduleUndone(nextId, d)
    BY <2>2, <1>1, <1>3, ScheduleUndoneProvider
  <2> QED
    BY <2>1, <2>2, <1>2
<1>8. fuel' \in 0..Fuel /\ cancelled' \in BOOLEAN
  BY <1>1, LoopAssumption DEF Operation, ControlInv, ControlTypes
<1>9. ControlInv'
  BY <1>1, <1>8, EndedControl
<1> QED
  BY <1>4, <1>6, <1>7, <1>9

(* A timer is cleared.                                                      *)
LEMMA ClearTimerStep ==
    ASSUME IInv, NEW i \in TimerIds, NEW byHandle \in BOOLEAN, ClearTimer(i, byHandle)
    PROVE  IInv'
<1> USE DEF IInv
<1>1. /\ Operation /\ i \in live /\ live' = live \ {i} /\ ready' = ready \ {Key(i)} /\ Cancel(i)
      /\ UNCHANGED <<deadline, sequence, interval, handle, nextId, nextSequence, watermark>>
      /\ UNCHANGED <<loop, mode, settled, microtasks, running, outcome>>
  BY DEF ClearTimer
<1>2. ProviderInv'
  BY <1>1, CancelProvider
<1>3. pending \in [TimerIds -> Nat]
  BY DEF ProviderInv, ProviderTypes
<1>4. now' = now /\ \A j \in TimerIds \ {i} : pending'[j] = pending[j]
  BY <1>1, <1>3 DEF Cancel, providerVars
<1>5. TableInv'
  BY <1>1, <1>3, <1>4, TableClear
<1>6. fuel' \in 0..Fuel /\ cancelled' \in BOOLEAN /\ InJob
  BY <1>1, LoopAssumption DEF Operation, ControlInv, ControlTypes
<1>7. ControlInv'
  BY <1>1, <1>6 DEF ControlInv, ControlTypes, NoInternalFailure, InJob
<1> QED
  BY <1>2, <1>5, <1>7

(* A job fails, and its timer goes with it.                                 *)
LEMMA JobFailsStep ==
    ASSUME IInv, QueueMicrotaskFails \/ JobStops
    PROVE  IInv'
<1> USE DEF IInv
<1>1. /\ live' = live \ {running} /\ running' = 0 /\ loop' = "done"
      /\ outcome' \in {"failed", "cancelled", "fuel"}
      /\ UNCHANGED <<providerVars, deadline, sequence, interval, handle, nextId, nextSequence,
                     ready, watermark, mode, settled, microtasks>>
  BY DEF QueueMicrotaskFails, JobStops, End
<1>2. fuel' \in 0..Fuel /\ cancelled' \in BOOLEAN
  <2>1. CASE QueueMicrotaskFails
    BY <2>1, LoopAssumption DEF QueueMicrotaskFails, Operation, ControlInv, ControlTypes
  <2>2. CASE JobStops
    BY <2>2 DEF JobStops, ControlInv, ControlTypes
  <2> QED
    BY <2>1, <2>2
<1>3. nextId \in Nat /\ nextSequence \in Nat /\ pending' = pending /\ now' = now
  BY <1>1 DEF TableInv, TableTypes, providerVars
<1>4. ProviderInv'
  BY <1>1, <1>3, ProviderKept
<1>5. TableInv'
  BY <1>1, <1>3, TableDrop
<1>6. ControlInv'
  BY <1>1, <1>2, EndedControl
<1> QED
  BY <1>4, <1>5, <1>6

(* A callback ends.                                                         *)
LEMMA CallbackStep ==
    ASSUME IInv, NEW throws \in BOOLEAN, CallbackReturns(throws)
    PROVE  IInv'
<1> USE DEF IInv
<1>1. /\ loop = "callback" /\ running' = 0 /\ loop' \in {"done", "microtasks"}
      /\ outcome' \in {"uncaught", outcome}
      /\ UNCHANGED <<mode, settled, microtasks, fuel, cancelled>>
  BY DEF CallbackReturns, End
<1>2. ControlInv'
  BY <1>1 DEF ControlInv, ControlTypes, NoInternalFailure
<1>3. /\ now \in Nat /\ nextId \in Nat /\ nextSequence \in Nat
      /\ nextGeneration \in Nat \ {0} /\ pending \in [TimerIds -> Nat]
  BY DEF TableInv, TableTypes, ProviderInv, ProviderTypes
<1>4. CASE running \in live /\ interval[running] # 0
  <2>1. PICK i \in live : i = running
    BY <1>4
  <2>2. Rearm(i) /\ interval[i] # 0
    BY <1>4, <2>1 DEF CallbackReturns
  <2>3. TableInv'
    BY <1>1, <1>3, <2>1, <2>2, TableRearm
  <2>4. /\ i \in TimerIds /\ interval[i] \in Nat /\ i < nextId /\ nextId' = nextId
        /\ Schedule(i, interval[i]) /\ deadline' = [deadline EXCEPT ![i] = now + interval[i]]
    BY <2>2 DEF TableInv, TableTypes, Fresh, Rearm
  <2>5. ProviderInv'
    <3>1. PICK d \in Nat : d = interval[i]
      BY <2>4
    <3>2. /\ i \in TimerIds /\ Schedule(i, d) /\ deadline' = [deadline EXCEPT ![i] = now + d]
          /\ i < nextId' /\ nextId' \in Nat /\ nextId' >= nextId
      BY <3>1, <2>4, <1>3
    <3> QED
      BY <3>2, ScheduleProvider
  <2> QED
    BY <1>2, <2>3, <2>5
<1>5. CASE ~(running \in live /\ interval[running] # 0)
  <2>1. /\ live' = live \ {running}
        /\ UNCHANGED <<providerVars, deadline, sequence, interval, handle, nextId,
                       nextSequence, ready, watermark>>
    BY <1>5 DEF CallbackReturns
  <2>2. pending' = pending /\ now' = now
    BY <2>1 DEF providerVars
  <2>3. ProviderInv'
    BY <2>1, <1>3, ProviderKept
  <2>4. TableInv'
    BY <1>1, <1>3, <2>1, <2>2, TableDrop
  <2> QED
    BY <1>2, <2>3, <2>4
<1> QED
  BY <1>4, <1>5

(* The host is dropped, time passes, the worker takes a step.               *)
LEMMA OutsideSteps ==
    ASSUME IInv, HostDrop \/ Clock \/ Provider
    PROVE  IInv'
<1> USE DEF IInv
<1>1. /\ UNCHANGED <<timerVars, running, mode, settled, microtasks, fuel, outcome, cancelled>>
      /\ UNCHANGED <<live, ready, deadline, nextId>>
      /\ loop' = loop \/ (loop = "done" /\ loop' = "joining")
  BY DEF HostDrop, Clock, Provider, loopVars, timerVars, tableVars
<1>2. ControlInv'
  BY <1>1 DEF ControlInv, ControlTypes, NoInternalFailure
<1>3. now \in Nat
  BY DEF ProviderInv, ProviderTypes
<1>4. ProviderInv' /\ pending' = pending /\ now' \in Nat /\ now' >= now
  <2>1. CASE HostDrop
    <3>1. CloseCommands /\ deadline' = deadline /\ nextId' = nextId
      BY <2>1, <1>1 DEF HostDrop
    <3>2. pending' = pending /\ now' = now
      BY <3>1 DEF CloseCommands
    <3> QED
      BY <3>1, <3>2, <1>3, CloseProvider
  <2>2. CASE Clock
    <3>1. Tick /\ deadline' = deadline /\ nextId' = nextId
      BY <2>2, <1>1 DEF Clock
    <3>2. pending' = pending /\ now' = now + 1
      BY <3>1 DEF Tick
    <3> QED
      BY <3>1, <3>2, <1>3, TickProvider
  <2>3. CASE Provider
    BY <2>3, <1>1, <1>3, WorkerProvider DEF Provider
  <2> QED
    BY <2>1, <2>2, <2>3
<1>5. TableInv'
  BY <1>1, <1>3, <1>4, TableKept
<1> QED
  BY <1>2, <1>4, <1>5

-----------------------------------------------------------------------------
(* The invariant.                                                            *)

(* The machine starts in the invariant.                                      *)
THEOREM LoopInit == Init => IInv
<1> SUFFICES ASSUME Init PROVE IInv
  OBVIOUS
<1> USE DEF Init, ProviderInit
<1>1. ProviderTypes
  BY EmptySeq DEF ProviderTypes
<1>2. Len(commands) = 0 /\ Len(expiries) = 0
  BY EmptySeq
<1>3. InFlight
  BY <1>2 DEF InFlight
<1>4. ProviderInv
  BY <1>1, <1>3 DEF ProviderInv, ArmedIsTracked
<1>5. Cardinality(live) = 0
  BY FS_EmptySet
<1>6. TableInv
  <2>1. TableTypes
    BY <1>5, LoopAssumption DEF TableTypes
  <2>2. Fresh /\ HandleIsCurrent /\ Watched
    BY DEF Fresh, HandleIsCurrent, Watched
  <2>3. Promoted
    BY DEF Promoted
  <2> QED
    BY <2>1, <2>2, <2>3 DEF TableInv
<1>7. ControlInv
  <2>1. microtasks \in 0..MaxMicrotasks /\ fuel \in 0..Fuel
    BY LoopAssumption
  <2>2. cancelled \in BOOLEAN
    OBVIOUS
  <2>3. /\ loop = "entry" /\ mode = "entry" /\ settled = "no" /\ outcome = "none" /\ running = 0
    OBVIOUS
  <2> HIDE DEF Init
  <2> QED
    BY <2>1, <2>2, <2>3 DEF ControlInv, ControlTypes, NoInternalFailure
<1> QED
  BY <1>4, <1>6, <1>7 DEF IInv

(* Every step of the machine, of its worker and of the clock keeps the       *)
(* invariant.                                                                *)
THEOREM LoopStepInv == IInv /\ [Next]_vars => IInv'
<1> SUFFICES ASSUME IInv, [Next]_vars PROVE IInv'
  OBVIOUS
<1>1. CASE JobOperation
  <2>1. ASSUME NEW d \in Delays, SetTimer(d, 0) \/ SetTimer(d, d) \/ SetTimerFails(d) PROVE IInv'
    <3>1. 0 \in Nat /\ d \in Nat
      BY ProviderAssumption
    <3> QED
      BY <2>1, <3>1, SetTimerStep, SetTimerFailsStep
  <2>2. ASSUME NEW i \in TimerIds, NEW byHandle \in BOOLEAN, ClearTimer(i, byHandle) PROVE IInv'
    BY <2>2, ClearTimerStep
  <2> QED
    BY <1>1, <2>1, <2>2, QuietJobSteps, JobFailsStep DEF JobOperation
<1>2. CASE JobEnds
  <2>1. ASSUME NEW throws \in BOOLEAN, CallbackReturns(throws) PROVE IInv'
    BY <2>1, CallbackStep
  <2> QED
    BY <1>2, <2>1, QuietJobSteps, JobFailsStep DEF JobEnds
<1>3. CASE LoopStep
  BY <1>3, QuietLoopSteps, WaitReceivesStep, WaitEndsStep, RunTimerStep, OutsideSteps DEF LoopStep
<1>4. CASE CancelMachine
  BY <1>4, QuietLoopSteps
<1>5. CASE Clock \/ Provider
  BY <1>5, OutsideSteps
<1>6. CASE Dropped \/ UNCHANGED vars
  <2>1. UNCHANGED <<providerVars, timerVars, loopVars, cancelled>>
    BY <1>6 DEF Dropped, vars
  <2>2. ControlInv'
    BY <2>1 DEF IInv, ControlInv, ControlTypes, NoInternalFailure, loopVars, timerVars, tableVars
  <2> QED
    BY <2>1, <2>2, Quiet DEF loopVars
<1> QED
  BY <1>1, <1>2, <1>3, <1>4, <1>5, <1>6 DEF Next

(* The inductive invariant holds in every reachable state.                   *)
THEOREM LoopInvariant == Spec => []IInv
  BY LoopInit, LoopStepInv, PTL DEF Spec

(* The types, and with them the bounds of the timer table, of the microtask  *)
(* queue and of the fuel that is left.                                       *)
THEOREM LoopTypes == Spec => []TypeOK
<1>1. IInv => TypeOK
  BY DEF IInv, ProviderInv, ProviderTypes, TableInv, TableTypes, ControlInv, ControlTypes, TypeOK
<1> QED
  BY <1>1, LoopInvariant, PTL

(* The machine never meets a live timer that the provider has forgotten, nor *)
(* a ready key that no live timer owns.                                      *)
THEOREM LoopNoInternalFailure == Spec => []NoInternalFailure
<1>1. IInv => NoInternalFailure
  BY DEF IInv, ControlInv
<1> QED
  BY <1>1, LoopInvariant, PTL

(* An id that the provider counts as armed is on its way to be reported,     *)
(* however commands, expiries and rearmings overtake one another.            *)
THEOREM LoopArmedIsTracked == Spec => []ArmedIsTracked
<1>1. IInv => ArmedIsTracked
  BY DEF IInv, ProviderInv
<1> QED
  BY <1>1, LoopInvariant, PTL

(* The handle JavaScript holds always clears its timer.                      *)
THEOREM LoopHandleIsCurrent == Spec => []HandleIsCurrent
<1>1. IInv => HandleIsCurrent
  BY DEF IInv, TableInv
<1> QED
  BY <1>1, LoopInvariant, PTL

(* No timer fires between the settlement of the entry and its return.        *)
THEOREM LoopEntryStops == Spec => EntryStopsAtSettlement
<1> DEFINE Stops == (loop # "callback" /\ loop' = "callback") => ~(mode = "entry" /\ settled # "no")
<1>1. IInv /\ [Next]_vars => [Stops]_vars
  <2> SUFFICES ASSUME IInv, Next, loop # "callback", loop' = "callback"
               PROVE  ~(mode = "entry" /\ settled # "no")
    OBVIOUS
  <2>1. loop = "run"
    BY DEF Next, JobOperation, JobEnds, LoopStep, SetTimer, SetTimerFails, ClearTimer, QueueMicrotask,
           QueueMicrotaskFails, SettleEntry, EntryReturns, MicrotaskReturns, JobThrows, JobStops,
           CallbackReturns, RunMicrotask, EntrySettled, LoopStops, AwaitTimer, WaitReceives, WaitEnds,
           RunTimer, HostDrop, HostJoin, CancelMachine, Clock, Provider, Dropped, End, loopVars, vars
  <2> QED
    BY <2>1 DEF IInv, ControlInv
<1> QED
  BY <1>1, LoopInvariant, PTL DEF Spec, EntryStopsAtSettlement

-----------------------------------------------------------------------------
(* The abstract queue.                                                       *)

(* A timer that waits, as the queue sees it.                                 *)
Timer(i) == [id |-> i, deadline |-> deadline[i], sequence |-> sequence[i]]
Waiting == {Timer(i) : i \in live \ {running}}
Repeats == running \in live /\ interval[running] # 0

(* What the queue sees, in the terms of the machine.                         *)
LEMMA Seen ==
    /\ Queue!queueVars = <<now, Waiting, running, Repeats, nextId - 1, nextSequence>>
    /\ Queue!queueVars' = <<now', Waiting', running', Repeats', nextId' - 1, nextSequence'>>
BY DEF Queue!queueVars, Waiting, Timer, Repeats

(* Steps that leave the table, the running timer and the clock alone.        *)
LEMMA QueueStutters ==
    ASSUME UNCHANGED <<tableVars, running, now>>
    PROVE  UNCHANGED Queue!queueVars
<1>1. Waiting' = Waiting
  BY DEF Waiting, Timer, tableVars
<1>2. Repeats' = Repeats
  BY DEF Repeats, tableVars
<1> QED
  BY <1>1, <1>2, Seen DEF tableVars

(* The running timer is gone and nothing else has changed.                  *)
LEMMA ReturnOf ==
    ASSUME Waiting' = Waiting, running' = 0, ~Repeats', UNCHANGED <<now, nextId, nextSequence>>
    PROVE  Queue!Next
<1>1. Queue!Return
  BY DEF Queue!Return, Waiting, Timer, Repeats
<1> QED
  BY <1>1 DEF Queue!Next

(* The running timer leaves: what waits stays.                               *)
LEMMA DropSeen ==
    ASSUME IInv, live' = live \ {running}, running' = 0, UNCHANGED <<deadline, sequence>>
    PROVE  Waiting' = Waiting /\ ~Repeats'
<1>1. 0 \notin live /\ live' \ {running'} = live \ {running}
  BY ProviderAssumption DEF IInv, TableInv, TableTypes
<1>2. \A i : Timer(i)' = Timer(i)
  BY DEF Timer
<1> QED
  BY <1>1, <1>2 DEF Waiting, Repeats

(* Setting a timer arms one with the next id and sequence.                   *)
LEMMA SetTimerQueue ==
    ASSUME IInv, NEW d \in Delays, NEW r \in Nat, SetTimer(d, r)
    PROVE  Queue!Next
<1>1. PICK n : n = nextId
  OBVIOUS
<1>2. /\ n \in TimerIds /\ Schedule(n, d) /\ live' = live \union {n}
      /\ deadline' = [deadline EXCEPT ![n] = now + d]
      /\ sequence' = [sequence EXCEPT ![n] = nextSequence]
      /\ interval' = [interval EXCEPT ![n] = r]
      /\ nextId' = n + 1 /\ nextSequence' = nextSequence + 1 /\ running' = running
  BY <1>1 DEF SetTimer
<1>3. now' = now /\ deadline'[n] > now
  BY <1>1, <1>2, SetTimerStep DEF Schedule
<1>4. n \in Nat /\ n \notin live /\ n # running /\ live \subseteq TimerIds
      /\ deadline \in [TimerIds -> Nat] /\ sequence \in [TimerIds -> Nat] /\ interval \in [TimerIds -> Nat]
  BY <1>1 DEF IInv, TableInv, TableTypes, Fresh
<1>5. PICK t : t = [id |-> n, deadline |-> now + d, sequence |-> nextSequence]
  OBVIOUS
<1>6. Timer(n)' = t
  BY <1>2, <1>4, <1>5 DEF Timer
<1>7. \A i \in live : Timer(i)' = Timer(i)
  BY <1>2, <1>4 DEF Timer
<1>8. live' \ {running'} = (live \ {running}) \union {n}
  BY <1>2, <1>4
<1>9. Waiting' = Waiting \union {t}
  BY <1>6, <1>7, <1>8 DEF Waiting
<1>10. Repeats' = Repeats
  BY <1>2, <1>4 DEF Repeats
<1>11. t.id = n /\ t.sequence = nextSequence /\ t.deadline > now /\ (nextId - 1) + 1 = n
       /\ nextId' - 1 = (nextId - 1) + 1
  <2>1. deadline'[n] = now + d
    BY <1>2, <1>4
  <2> QED
    BY <1>1, <1>2, <1>3, <1>4, <1>5, <2>1
<1>12. Queue!Armed(t, (nextId - 1) + 1)
  BY <1>9, <1>11 DEF Queue!Armed, Waiting, Timer
<1>13. t \in Waiting'
  BY <1>9
<1>14. Queue!Arm
  BY <1>2, <1>3, <1>10, <1>11, <1>12, <1>13 DEF Queue!Arm, Waiting, Timer, Repeats
<1> QED
  BY <1>14 DEF Queue!Next

(* A timer that cannot be set ends the machine, with or without the next id. *)
LEMMA SetTimerFailsQueue ==
    ASSUME IInv, NEW d \in Delays, SetTimerFails(d)
    PROVE  Queue!Next
<1>1. live' = live \ {running} /\ running' = 0 /\ UNCHANGED <<deadline, sequence>>
  BY DEF SetTimerFails
<1>2. now' = now
  BY SetTimerFailsStep
<1>3. Waiting' = Waiting /\ ~Repeats'
  BY <1>1, DropSeen
<1>4. CASE UNCHANGED <<nextId, nextSequence>>
  BY <1>1, <1>2, <1>3, <1>4, ReturnOf
<1>5. CASE nextId' = nextId + 1 /\ nextSequence' = nextSequence + 1
  <2>1. nextId' - 1 = (nextId - 1) + 1
    BY <1>5 DEF IInv, TableInv, TableTypes
  <2>2. Queue!Refuse
    BY <1>1, <1>2, <1>3, <1>5, <2>1 DEF Queue!Refuse, Waiting, Timer, Repeats
  <2> QED
    BY <2>2 DEF Queue!Next
<1> QED
  BY <1>4, <1>5 DEF SetTimerFails

(* A waiting timer is taken away, or the running one will not repeat.       *)
LEMMA ClearTimerQueue ==
    ASSUME IInv, NEW i \in TimerIds, NEW byHandle \in BOOLEAN, ClearTimer(i, byHandle)
    PROVE  Queue!Next
<1>1. /\ i \in live /\ live' = live \ {i} /\ Cancel(i)
      /\ UNCHANGED <<deadline, sequence, interval, nextId, nextSequence, running>>
  BY DEF ClearTimer
<1>2. now' = now
  BY <1>1 DEF Cancel, providerVars
<1>3. \A j : Timer(j)' = Timer(j)
  BY <1>1 DEF Timer
<1>4. CASE i = running
  <2>1. live' \ {running'} = live \ {running}
    BY <1>1, <1>4
  <2>2. Waiting' = Waiting
    BY <1>3, <2>1 DEF Waiting
  <2>3. ~Repeats'
    BY <1>1, <1>4 DEF Repeats
  <2>4. Queue!Clear
    BY <1>1, <1>2, <2>2, <2>3 DEF Queue!Clear, Waiting, Timer, Repeats
  <2> QED
    BY <2>4 DEF Queue!Next
<1>5. CASE i # running
  <2>1. live' \ {running'} = (live \ {running}) \ {i} /\ i \in live \ {running}
    BY <1>1, <1>5
  <2>2. \A j : Timer(j) = Timer(i) => j = i
    BY DEF Timer
  <2>3. PICK t : t = Timer(i)
    OBVIOUS
  <2>4. Waiting' = Waiting \ {t} /\ t \in Waiting
    BY <1>3, <2>1, <2>2, <2>3 DEF Waiting
  <2>5. Repeats' = Repeats
    BY <1>1, <1>5 DEF Repeats
  <2>6. Queue!Clear
    BY <1>1, <1>2, <2>4, <2>5 DEF Queue!Clear, Waiting, Timer, Repeats
  <2> QED
    BY <2>6 DEF Queue!Next
<1> QED
  BY <1>4, <1>5

(* A failing job ends the running timer.                                    *)
LEMMA JobFailsQueue ==
    ASSUME IInv, QueueMicrotaskFails \/ JobStops
    PROVE  Queue!Next
<1>1. /\ live' = live \ {running} /\ running' = 0
      /\ UNCHANGED <<deadline, sequence, now, nextId, nextSequence>>
  BY DEF QueueMicrotaskFails, JobStops, providerVars
<1> QED
  BY <1>1, DropSeen, ReturnOf

(* A repeating timer is armed again under its id.                            *)
LEMMA CallbackQueue ==
    ASSUME IInv, NEW throws \in BOOLEAN, CallbackReturns(throws)
    PROVE  Queue!Next
<1>1. running' = 0
  BY DEF CallbackReturns
<1>2. CASE Repeats
  <2>1. PICK i \in live : i = running
    BY <1>2 DEF Repeats
  <2>2. Rearm(i) /\ interval[i] # 0
    BY <1>2, <2>1 DEF CallbackReturns, Repeats
  <2>3. /\ deadline' = [deadline EXCEPT ![i] = now + interval[i]]
        /\ sequence' = [sequence EXCEPT ![i] = nextSequence]
        /\ nextSequence' = nextSequence + 1
        /\ UNCHANGED <<live, interval, nextId, now>>
    BY <2>2 DEF Rearm, Schedule
  <2>4. /\ now \in Nat /\ nextGeneration \in Nat \ {0} /\ pending \in [TimerIds -> Nat]
        /\ i \in TimerIds /\ deadline \in [TimerIds -> Nat] /\ sequence \in [TimerIds -> Nat]
        /\ live \subseteq TimerIds /\ 0 \notin live
    BY ProviderAssumption DEF IInv, ProviderInv, ProviderTypes, TableInv, TableTypes
  <2>5. deadline'[i] > now
    BY <1>1, <2>1, <2>2, <2>4, TableRearm DEF IInv
  <2>6. PICK t : t = [id |-> i, deadline |-> now + interval[i], sequence |-> nextSequence]
    OBVIOUS
  <2>7. Timer(i)' = t
    BY <2>3, <2>4, <2>6 DEF Timer
  <2>8. \A j \in live \ {i} : Timer(j)' = Timer(j)
    BY <2>3, <2>4 DEF Timer
  <2>9. live' \ {running'} = (live \ {running}) \union {i}
    BY <1>1, <2>1, <2>3, <2>4
  <2>10. Waiting' = Waiting \union {t}
    BY <2>1, <2>7, <2>8, <2>9 DEF Waiting
  <2>11. ~Repeats'
    BY <1>1, <2>3, <2>4 DEF Repeats
  <2>12. t.id = running /\ t.sequence = nextSequence /\ t.deadline > now
    <3>1. deadline'[i] = now + interval[i]
      BY <2>3, <2>4
    <3> QED
      BY <2>1, <2>5, <2>6, <3>1
  <2>13. Queue!Armed(t, running)
    BY <2>10, <2>12 DEF Queue!Armed, Waiting, Timer
  <2>14. t \in Waiting'
    BY <2>10
  <2>15. Queue!Rearm
    BY <1>1, <1>2, <2>3, <2>11, <2>13, <2>14 DEF Queue!Rearm, Waiting, Timer, Repeats
  <2> QED
    BY <2>15 DEF Queue!Next
<1>3. CASE ~Repeats
  <2>1. live' = live \ {running} /\ UNCHANGED <<deadline, sequence, now, nextId, nextSequence>>
    BY <1>3 DEF CallbackReturns, Repeats, providerVars
  <2> QED
    BY <1>1, <2>1, DropSeen, ReturnOf
<1> QED
  BY <1>2, <1>3

(* The timer that is run is the first of all that wait, and is due.          *)
LEMMA RunTimerQueue ==
    ASSUME IInv, RunTimer
    PROVE  Queue!Next \/ UNCHANGED Queue!queueVars
<1>1. UNCHANGED tableVars /\ now' = now /\ loop = "run"
  BY DEF RunTimer, PollExpired
<1>2. running = 0
  BY <1>1 DEF IInv, ControlInv
<1>3. CASE UNCHANGED running
  BY <1>1, <1>3, QueueStutters
<1>4. CASE \E i \in live : /\ running' = i /\ deadline[i] <= now
                           /\ \A j \in live \ {i} : Before(Key(i), Key(j))
  <2>1. PICK i \in live : /\ running' = i /\ deadline[i] <= now
                          /\ \A j \in live \ {i} : Before(Key(i), Key(j))
    BY <1>4
  <2>2. PICK t : t = Timer(i)
    OBVIOUS
  <2>3. live \ {running} = live
    BY <1>2, ProviderAssumption DEF IInv, TableInv, TableTypes
  <2>4. \A j : Timer(j)' = Timer(j)
    BY <1>1 DEF Timer, tableVars
  <2>5. \A j : Timer(j) = Timer(i) => j = i
    BY DEF Timer
  <2>6. live' \ {running'} = live \ {i}
    BY <1>1, <2>1 DEF tableVars
  <2>7. t \in Waiting /\ Waiting' = Waiting \ {t}
    BY <2>2, <2>3, <2>4, <2>5, <2>6 DEF Waiting
  <2>8. t.id = i /\ t.deadline = deadline[i] /\ t.sequence = sequence[i]
    BY <2>2 DEF Timer
  <2>9. ASSUME NEW s \in Waiting \ {t} PROVE Queue!Precedes(t, s)
    <3>1. PICK j \in live \ {i} : s = Timer(j)
      BY <2>2, <2>3 DEF Waiting
    <3>2. Before(Key(i), Key(j))
      BY <2>1
    <3>3. s.deadline = deadline[j] /\ s.sequence = sequence[j]
      BY <3>1 DEF Timer
    <3> QED
      BY <3>2, <3>3, <2>8 DEF Before, Key, Queue!Precedes
  <2>10. Repeats' \in BOOLEAN
    BY DEF Repeats
  <2>11. UNCHANGED <<nextId, nextSequence>>
    BY <1>1 DEF tableVars
  <2>12. Queue!Fire
    BY <1>1, <1>2, <2>1, <2>7, <2>8, <2>9, <2>10, <2>11 DEF Queue!Fire, Waiting, Timer, Repeats
  <2> QED
    BY <2>12 DEF Queue!Next
<1> QED
  BY <1>3, <1>4, RunTimerStep

(* Every step of the machine is a step of the queue or changes nothing of    *)
(* what the queue sees.                                                      *)
THEOREM LoopStepsQueue == IInv /\ [Next]_vars => [Queue!Next]_(Queue!queueVars)
<1> SUFFICES ASSUME IInv, [Next]_vars PROVE Queue!Next \/ UNCHANGED Queue!queueVars
  OBVIOUS
<1>1. CASE \E d \in Delays : SetTimer(d, 0) \/ SetTimer(d, d) \/ SetTimerFails(d)
  <2>1. PICK d \in Delays : SetTimer(d, 0) \/ SetTimer(d, d) \/ SetTimerFails(d)
    BY <1>1
  <2>2. 0 \in Nat /\ d \in Nat
    BY ProviderAssumption
  <2> QED
    BY <2>1, <2>2, SetTimerQueue, SetTimerFailsQueue
<1>2. CASE \E i \in TimerIds, byHandle \in BOOLEAN : ClearTimer(i, byHandle)
  BY <1>2, ClearTimerQueue
<1>3. CASE QueueMicrotaskFails \/ JobStops
  BY <1>3, JobFailsQueue
<1>4. CASE \E throws \in BOOLEAN : CallbackReturns(throws)
  BY <1>4, CallbackQueue
<1>5. CASE RunTimer
  BY <1>5, RunTimerQueue
<1>6. CASE QueueMicrotask \/ SettleEntry \/ EntryReturns \/ MicrotaskReturns \/ JobThrows
           \/ RunMicrotask \/ EntrySettled \/ LoopStops \/ AwaitTimer \/ WaitEnds \/ HostJoin
           \/ CancelMachine \/ Dropped \/ UNCHANGED vars
  <2>1. UNCHANGED <<tableVars, running, now>>
    BY <1>6 DEF QueueMicrotask, SettleEntry, EntryReturns, MicrotaskReturns, JobThrows, RunMicrotask,
                EntrySettled, LoopStops, AwaitTimer, WaitEnds, HostJoin, CancelMachine, Dropped, vars,
                timerVars, loopVars, providerVars
  <2> QED
    BY <2>1, QueueStutters
<1>7. CASE WaitReceives \/ HostDrop
  <2>1. UNCHANGED <<tableVars, running, now>>
    BY <1>7 DEF WaitReceives, ReceiveExpiry, HostDrop, CloseCommands, timerVars
  <2> QED
    BY <2>1, QueueStutters
<1>8. CASE Provider
  <2>1. UNCHANGED <<tableVars, running, deadline, nextId>>
    BY <1>8 DEF Provider, timerVars, tableVars, loopVars
  <2>2. now' = now
    BY <1>8, <2>1, WorkerProvider DEF Provider, IInv
  <2> QED
    BY <2>1, <2>2, QueueStutters
<1>9. CASE Clock
  <2>1. UNCHANGED <<tableVars, running>> /\ now' = now + 1
    BY <1>9 DEF Clock, Tick, timerVars, loopVars
  <2>2. Waiting' = Waiting /\ Repeats' = Repeats /\ UNCHANGED <<nextId, nextSequence>>
    BY <2>1 DEF Waiting, Timer, Repeats, tableVars
  <2>3. Queue!Tick
    BY <2>1, <2>2 DEF Queue!Tick, Waiting, Timer, Repeats
  <2> QED
    BY <2>3 DEF Queue!Next
<1> QED
  BY <1>1, <1>2, <1>3, <1>4, <1>5, <1>6, <1>7, <1>8, <1>9 DEF Next, JobOperation, JobEnds, LoopStep

(* The machine with its worker implements the abstract queue: timers fire    *)
(* one at a time, never early, and in the order of (deadline, sequence) over *)
(* all that wait, although the worker may report them late and in any order. *)
THEOREM LoopTimersInOrder == Spec => TimersInOrder
<1>1. Init => Queue!Init
  <2> SUFFICES ASSUME Init PROVE Queue!Init
    OBVIOUS
  <2>1. Waiting = {} /\ Repeats = FALSE
    BY DEF Init, Waiting, Repeats
  <2> QED
    BY <2>1 DEF Init, ProviderInit, Queue!Init, Waiting, Timer, Repeats
<1> QED
  BY <1>1, LoopStepsQueue, LoopInvariant, PTL DEF Spec, TimersInOrder

=============================================================================

-------------------------- MODULE SemaphoreProofs --------------------------
(***************************************************************************)
(* What holds of sync::Semaphore for every set of clients, every request,  *)
(* every number of permits and every width of the counter, and of the lock *)
(* that sync::RwLock makes of it.                                          *)
(***************************************************************************)
EXTENDS RwLock, DataLemmas

Counter == UsizeMax + 1

(* The types, but for the Boolean ones. *)
Shapes ==
    /\ permits \in 0 .. UsizeMax
    /\ waker_queue \in Seq(Clients)
    /\ pc \in [Clients -> Locations]
    /\ request \in [Clients -> [want : Nat, hungry : BOOLEAN]]
    /\ got \in [Clients -> Nat] /\ seen \in [Clients -> Nat]
    /\ weight \in [Clients -> Nat] /\ waking \in [Clients -> Nat]
    /\ wakes \in [Clients -> Nat] /\ rounds \in [Clients -> 0 .. MaxRounds]
    /\ surplus \in Nat
    /\ queued \in [Clients -> BOOLEAN]

(* What a client's own variables say of one another. *)
Local(c) ==
    /\ pc[c] # "idle" => want(c) > 0
    /\ got[c] > 0 => hungry(c) = TRUE /\ pc[c] \in Awaiting \cup {"granted"}
    /\ weight[c] \in {0, want(c)}
    /\ weight[c] > 0 => pc[c] \in {"granted", "held", "waking"}
    /\ pc[c] \in {"granted", "held"} => weight[c] = want(c)
    /\ pc[c] = "waking" => waking[c] > 0
    /\ pc[c] = "take" => seen[c] >= needed(c)
    /\ pc[c] = "grab" => seen[c] > 0 /\ hungry(c) = TRUE

LocalInv == \A c \in Clients : Local(c)

IInv == Shapes /\ LocalInv

LEMMA InitIInv == Init => IInv
  BY SemaphoreAssumption DEF Init, IInv, Shapes, LocalInv, Local, Locations, Awaiting,
     Inside, NoRequest, want, hungry, needed, SaturatingSub

(* The fields of a request that can be made. *)
LEMMA RequestType ==
    ASSUME NEW c \in Clients, NEW r \in Requests[c]
    PROVE  r \in [want : Nat, hungry : BOOLEAN] /\ r.want > 0
<1>1. r \in [want : 1 .. UsizeMax, hungry : BOOLEAN] /\ UsizeMax \in Nat
  BY SemaphoreAssumption
<1>2. QED
  BY <1>1

LEMMA MinOfTwo ==
    ASSUME NEW m \in Nat, NEW n \in Nat
    PROVE  Min({m, n}) = IF m <= n THEN m ELSE n
BY DEF Min

LEMMA WrapType ==
    ASSUME NEW m \in Nat, NEW n \in Nat
    PROVE  WrappingAdd(m, n) \in 0 .. UsizeMax
<1>1. UsizeMax + 1 \in Nat \ {0} /\ m + n \in Nat
  BY SemaphoreAssumption
<1>2. QED
  BY <1>1, DivisionTheorem, SemaphoreAssumption DEF WrappingAdd

(* What a pop and the drop of a waiting future do to the variables that are *)
(* not flags: no prover takes the flag `wasted` in one obligation with them. *)
PopEffect(c) ==
    /\ pc[c] = "waking"
    /\ \/ /\ waker_queue # <<>>
          /\ waker_queue' = Tail(waker_queue)
          /\ wakes' = [wakes EXCEPT ![Head(waker_queue)] = @ + 1]
          /\ waking' = [waking EXCEPT ![c] = @ - 1]
          /\ Goto(c, IF waking[c] = 1 THEN Rest(c) ELSE "waking")
       \/ /\ waker_queue = <<>>
          /\ waking' = [waking EXCEPT ![c] = 0]
          /\ Goto(c, Rest(c))
          /\ UNCHANGED <<waker_queue, wakes>>
    /\ UNCHANGED <<permits, request, got, queued, seen, weight, rounds, surplus>>

DropWaitingEffect(c) ==
    /\ pc[c] \in {"parked", "ready"}
    /\ ReturnGot(c, "idle")
    /\ got' = [got EXCEPT ![c] = 0]
    /\ UNCHANGED <<waker_queue, request, queued, seen, weight, wakes, rounds, surplus>>

LEMMA Effects ==
    ASSUME NEW c \in Clients
    PROVE  /\ Pop(c) => PopEffect(c)
           /\ DropWaiting(c) => DropWaitingEffect(c)
BY Zenon DEF Pop, PopEffect, DropWaiting, DropWaitingEffect, future

LEMMA Places ==
    /\ "load" \in Locations /\ "take" \in Locations /\ "grab" \in Locations
    /\ "push" \in Locations /\ "parked" \in Locations /\ "ready" \in Locations
    /\ "idle" \in Locations /\ "granted" \in Locations /\ "held" \in Locations
    /\ "waking" \in Locations
BY DEF Locations, Awaiting, Inside

(* Every action keeps the shapes. *)
LEMMA StepShapes == IInv /\ [Next]_vars => Shapes'
<1> SUFFICES ASSUME IInv, [Next]_vars PROVE Shapes'
  OBVIOUS
<1> USE Places DEF IInv, Shapes, Goto, future
<1>1. ASSUME NEW c \in Clients, Request(c) PROVE Shapes'
  <2>1. PICK r \in Requests[c] : request' = [request EXCEPT ![c] = r]
    BY <1>1 DEF Request
  <2>2. r \in [want : Nat, hungry : BOOLEAN]
    BY RequestType
  <2>3. QED
    BY <1>1, <2>1, <2>2, SemaphoreAssumption, SMTT(30) DEF Request
<1>2. ASSUME NEW c \in Clients, PollAgain(c) PROVE Shapes'
  BY <1>2 DEF PollAgain
<1>3. ASSUME NEW c \in Clients, Load(c) PROVE Shapes'
  BY <1>3, SemaphoreAssumption, SMTT(30) DEF Load, GiveWay
<1>4. ASSUME NEW c \in Clients, Take(c) PROVE Shapes'
  <2>1. permits' \in 0 .. UsizeMax
    BY <1>4, SemaphoreAssumption, SMTT(30)
       DEF Take, LocalInv, Local, needed, SaturatingSub, want
  <2>2. weight' \in [Clients -> Nat] /\ pc' \in [Clients -> Locations]
    BY <1>4, ZenonT(60) DEF Take, Retry, want
  <2>3. QED
    BY <1>4, <2>1, <2>2 DEF Take
<1>5. ASSUME NEW c \in Clients, Grab(c) PROVE Shapes'
  <2>1. pc' \in [Clients -> Locations]
    BY <1>5, ZenonT(60) DEF Grab, Retry, GiveWay
  <2>2. permits' \in 0 .. UsizeMax /\ got' \in [Clients -> Nat]
    <3>1. CASE permits = seen[c]
      <4>1. permits' = 0 /\ got' = [got EXCEPT ![c] = @ + seen[c]]
        BY <1>5, <3>1 DEF Grab
      <4>2. QED
        BY <4>1, SemaphoreAssumption
    <3>2. CASE permits # seen[c]
      BY <1>5, <3>2 DEF Grab
    <3>3. QED
      BY <3>1, <3>2
  <2>3. QED
    BY <1>5, <2>1, <2>2 DEF Grab
<1>6. ASSUME NEW c \in Clients, PushWaker(c) PROVE Shapes'
  BY <1>6, SMTT(30) DEF PushWaker
<1>7. ASSUME NEW c \in Clients, DropGranted(c) PROVE Shapes'
  <2>1. Min({got[c], want(c)}) \in Nat
    <3>1. \A m, n \in Nat : Min({m, n}) \in Nat
      BY MinOfTwo
    <3>2. got[c] \in Nat /\ want(c) \in Nat
      BY DEF want
    <3>3. QED
      BY <3>1, <3>2, Zenon
  <2>2. permits' \in 0 .. UsizeMax /\ waking' \in [Clients -> Nat]
    <3>1. got[c] \in Nat /\ permits \in Nat
      BY SemaphoreAssumption
    <3>2. WrappingAdd(permits, got[c]) \in 0 .. UsizeMax
      BY <3>1, WrapType
    <3>3. QED
      BY <1>7, <3>1, <3>2 DEF DropGranted, ReturnGot, AddPermits
  <2>3. pc' \in [Clients -> Locations]
    BY <1>7, ZenonT(60) DEF DropGranted, ReturnGot, AddPermits
  <2>4. QED
    <3>1. surplus' \in Nat /\ got' \in [Clients -> Nat]
      <4>1. PICK m \in Nat : m = Min({got[c], want(c)})
        BY <2>1
      <4>2. surplus' = surplus + m
        BY <1>7, <4>1 DEF DropGranted
      <4>3. QED
        BY <1>7, <4>2 DEF DropGranted
    <3>2. UNCHANGED <<waker_queue, request, queued, seen, weight, wakes, rounds>>
      BY <1>7 DEF DropGranted
    <3>3. QED
      BY <2>2, <2>3, <3>1, <3>2
<1>8. ASSUME NEW c \in Clients, DropWaiting(c) PROVE Shapes'
  <2>0. DropWaitingEffect(c)
    BY <1>8, Effects
  <2>1. permits' \in 0 .. UsizeMax /\ waking' \in [Clients -> Nat]
    <3>1. got[c] \in Nat /\ permits \in Nat
      BY SemaphoreAssumption
    <3>2. WrappingAdd(permits, got[c]) \in 0 .. UsizeMax
      BY <3>1, WrapType
    <3>3. QED
      BY <1>8, <2>0, <3>1, <3>2 DEF DropWaitingEffect, ReturnGot, AddPermits
  <2>2. pc' \in [Clients -> Locations]
    BY <1>8, <2>0, ZenonT(60) DEF DropWaitingEffect, ReturnGot, AddPermits
  <2>3. QED
    BY <1>8, <2>0, <2>1, <2>2 DEF DropWaitingEffect
<1>9. ASSUME NEW c \in Clients, Release(c) PROVE Shapes'
  <2>1. permits' \in 0 .. UsizeMax
    <3>1. weight[c] \in Nat /\ permits \in Nat
      BY SemaphoreAssumption
    <3>2. WrappingAdd(permits, weight[c]) \in 0 .. UsizeMax
      BY <3>1, WrapType
    <3>3. QED
      BY <1>9, <3>2 DEF Release, AddPermits
  <2>2. QED
    BY <1>9, <2>1 DEF Release, AddPermits
<1>10. ASSUME NEW c \in Clients, Pop(c) PROVE Shapes'
  <2>0. PopEffect(c)
    BY <1>10, Effects
  <2>1. pc \in [Clients -> Locations] /\ waking \in [Clients -> Nat]
    OBVIOUS
  <2>2. wakes \in [Clients -> Nat] /\ waker_queue \in Seq(Clients)
    OBVIOUS
  <2>3. UNCHANGED <<permits, request, got, queued, seen, weight, rounds, surplus>>
    BY <2>0 DEF PopEffect
  <2>4. waking[c] > 0
    BY <2>0 DEF PopEffect, LocalInv, Local
  <2> HIDE DEF Shapes
  <2>5. waking' \in [Clients -> Nat]
    <3>1. waking' = [waking EXCEPT ![c] = @ - 1] \/ waking' = [waking EXCEPT ![c] = 0]
      BY <2>0 DEF PopEffect
    <3>2. QED
      BY <2>1, <2>4, <3>1
  <2>6. pc' \in [Clients -> Locations]
    <3>1. \/ pc' = [pc EXCEPT ![c] = Rest(c)]
          \/ pc' = [pc EXCEPT ![c] = "waking"]
      BY <2>0 DEF PopEffect
    <3>2. QED
      BY <2>1, <3>1 DEF Rest
  <2>7. wakes' \in [Clients -> Nat] /\ waker_queue' \in Seq(Clients)
    <3>1. CASE waker_queue = <<>>
      BY <2>0, <2>2, <3>1 DEF PopEffect
    <3>2. CASE waker_queue # <<>>
      <4>1. /\ waker_queue' = Tail(waker_queue)
            /\ wakes' = [wakes EXCEPT ![Head(waker_queue)] = @ + 1]
        BY <2>0, <3>2 DEF PopEffect
      <4>2. Head(waker_queue) \in Clients /\ Tail(waker_queue) \in Seq(Clients)
        BY <2>2, <3>2
      <4>3. QED
        BY <2>2, <4>1, <4>2
    <3>3. QED
      BY <3>1, <3>2
  <2>8. QED
    BY <2>3, <2>5, <2>6, <2>7 DEF Shapes
<1>11. ASSUME NEW c \in Clients, WakeTask(c) PROVE Shapes'
  <2>1. wakes[c] - 1 \in Nat
    BY <1>11 DEF WakeTask
  <2>2. wakes' \in [Clients -> Nat]
    BY <1>11, <2>1 DEF WakeTask
  <2>3. pc' = [pc EXCEPT ![c] = "ready"] \/ pc' = pc
    BY <1>11 DEF WakeTask
  <2>4. pc' \in [Clients -> Locations]
    BY <2>3
  <2>5. QED
    BY <1>11, <2>2, <2>4 DEF WakeTask
<1>12. CASE UNCHANGED vars
  BY <1>12 DEF vars
<1>13. QED
  BY <1>1, <1>2, <1>3, <1>4, <1>5, <1>6, <1>7, <1>8, <1>9, <1>10, <1>11, <1>12 DEF Next

(* The other clients' own variables are left alone, all but `wakes`. *)
LEMMA OthersKeep ==
    ASSUME IInv, NEW c \in Clients, NEW d \in Clients, d # c,
           \/ Request(c) \/ PollAgain(c) \/ Load(c) \/ Take(c) \/ Grab(c) \/ PushWaker(c)
           \/ DropGranted(c) \/ DropWaiting(c) \/ Release(c) \/ Pop(c) \/ WakeTask(c)
    PROVE  /\ pc'[d] = pc[d] /\ request'[d] = request[d] /\ got'[d] = got[d]
           /\ seen'[d] = seen[d] /\ weight'[d] = weight[d] /\ waking'[d] = waking[d]
           /\ queued'[d] = queued[d]
<1> USE DEF IInv, Shapes, Goto
<1>1. CASE Pop(c)
  BY <1>1, Effects, SMTT(30) DEF PopEffect
<1>2. CASE DropWaiting(c)
  <2>1. DropWaitingEffect(c)
    BY <1>2, Effects
  <2>2. QED
    BY <2>1 DEF DropWaitingEffect, ReturnGot, AddPermits
<1>3. CASE Take(c)
  BY <1>3 DEF Take, future
<1>4. CASE Grab(c)
  BY <1>4 DEF Grab
<1>5. CASE DropGranted(c)
  BY <1>5 DEF DropGranted, ReturnGot, AddPermits
<1>6. CASE Release(c)
  BY <1>6 DEF Release, AddPermits, future
<1>7. CASE Request(c) \/ PollAgain(c) \/ Load(c) \/ PushWaker(c) \/ WakeTask(c)
  BY <1>7, ZenonT(60) DEF Request, PollAgain, Load, PushWaker, WakeTask, future
<1>8. QED
  BY <1>1, <1>2, <1>3, <1>4, <1>5, <1>6, <1>7

LEMMA StepLocal == IInv /\ [Next]_vars => LocalInv'
<1> SUFFICES ASSUME IInv, [Next]_vars, NEW d \in Clients PROVE Local(d)'
  BY DEF LocalInv
<1>0. Local(d)
  BY DEF IInv, LocalInv
<1> DEFINE Steps(c) ==
      \/ Request(c) \/ PollAgain(c) \/ Load(c) \/ Take(c) \/ Grab(c) \/ PushWaker(c)
      \/ DropGranted(c) \/ DropWaiting(c) \/ Release(c) \/ Pop(c) \/ WakeTask(c)
<1>1. ASSUME NEW c \in Clients, Steps(c), d # c PROVE Local(d)'
  <2>1. /\ pc'[d] = pc[d] /\ request'[d] = request[d] /\ got'[d] = got[d]
        /\ seen'[d] = seen[d] /\ weight'[d] = weight[d] /\ waking'[d] = waking[d]
    BY <1>1, OthersKeep
  <2>2. QED
    BY <1>0, <2>1 DEF Local, want, hungry, needed
<1>2. ASSUME Steps(d) PROVE Local(d)'
  <2> USE <1>0 DEF IInv, Shapes, Local, Locations, Awaiting, Inside, Goto, want, hungry,
          needed, SaturatingSub, future
  <2>1. CASE Request(d)
    <3>1. PICK r \in Requests[d] : request' = [request EXCEPT ![d] = r]
      BY <2>1 DEF Request
    <3>2. r.want > 0 /\ r \in [want : Nat, hungry : BOOLEAN]
      BY RequestType
    <3>3. QED
      BY <2>1, <3>1, <3>2, SMTT(30) DEF Request
  <2>2. CASE PollAgain(d)
    BY <2>2 DEF PollAgain
  <2>3. CASE Load(d)
    BY <2>3, SemaphoreAssumption DEF Load, MayGrab, GiveWay
  <2>4. CASE Take(d)
    BY <2>4, SMTT(30) DEF Take, MayGrab, Retry
  <2>5. CASE Grab(d)
    BY <2>5 DEF Grab, Retry, GiveWay
  <2>6. CASE PushWaker(d)
    BY <2>6 DEF PushWaker
  <2>7. CASE DropGranted(d)
    BY <2>7, SMTT(30) DEF DropGranted, ReturnGot, AddPermits
  <2>8. CASE DropWaiting(d)
    BY <2>8, Effects, SMTT(30) DEF DropWaitingEffect, ReturnGot, AddPermits
  <2>9. CASE Release(d)
    BY <2>9 DEF Release, AddPermits
  <2>10. CASE Pop(d)
    <3>1. PopEffect(d)
      BY <2>10, Effects
    <3>2. /\ request' = request /\ got' = got /\ seen' = seen /\ weight' = weight
          /\ pc[d] = "waking"
      BY <3>1 DEF PopEffect
    <3>3. \/ waking[d] # 1 /\ waking'[d] = waking[d] - 1 /\ pc'[d] = "waking"
          \/ pc'[d] = "held" /\ weight[d] > 0
          \/ pc'[d] = "idle" /\ ~(weight[d] > 0)
      BY <3>1 DEF PopEffect, Rest
    <3>4. QED
      BY <3>2, <3>3
  <2>11. CASE WakeTask(d)
    BY <2>11 DEF WakeTask
  <2>12. QED
    BY <1>2, <2>1, <2>2, <2>3, <2>4, <2>5, <2>6, <2>7, <2>8, <2>9, <2>10, <2>11
<1>3. CASE UNCHANGED vars
  BY <1>0, <1>3 DEF vars, Local, want, hungry, needed
<1>4. QED
  BY <1>1, <1>2, <1>3 DEF Next

LEMMA Invariance == Spec => []IInv
<1>1. IInv /\ [Next]_vars => IInv'
  BY StepShapes, StepLocal DEF IInv
<1>2. QED
  BY InitIInv, <1>1, PTL DEF Spec

RequestsMade == \A c \in Clients : request[c] \in Requests[c] \cup {NoRequest}

LEMMA StepRequestsMade == IInv /\ RequestsMade /\ [Next]_vars => RequestsMade'
<1> SUFFICES ASSUME IInv, RequestsMade, [Next]_vars, NEW d \in Clients
             PROVE  request'[d] \in Requests[d] \cup {NoRequest}
  BY DEF RequestsMade
<1>1. ASSUME NEW c \in Clients, Request(c)
      PROVE  request'[d] \in Requests[d] \cup {NoRequest}
  <2>1. PICK r \in Requests[c] : request' = [request EXCEPT ![c] = r]
    BY <1>1 DEF Request
  <2>2. QED
    BY <2>1 DEF RequestsMade, IInv, Shapes
<1>2. ASSUME NEW c \in Clients, DropWaiting(c) \/ Pop(c) PROVE request' = request
  BY <1>2, Effects DEF DropWaitingEffect, PopEffect
<1>3. ASSUME NEW c \in Clients, \/ PollAgain(c) \/ Load(c) \/ Take(c) \/ Grab(c)
             \/ PushWaker(c) \/ DropGranted(c) \/ Release(c) \/ WakeTask(c)
      PROVE  request' = request
  BY <1>3 DEF PollAgain, Load, Take, Grab, PushWaker, DropGranted, Release, WakeTask, future
<1>4. CASE UNCHANGED vars
  BY <1>4 DEF vars, RequestsMade
<1>5. QED
  BY <1>1, <1>2, <1>3, <1>4 DEF Next, RequestsMade

LEMMA FlagInvariance == Spec => [](wasted \in BOOLEAN)
<1>1. Init => wasted \in BOOLEAN
  BY DEF Init
<1>2. wasted \in BOOLEAN /\ [Next]_vars => (wasted \in BOOLEAN)'
  BY ZenonT(60) DEF Next, vars, Request, PollAgain, Load, Take, Grab, PushWaker, DropGranted,
     DropWaiting, Release, Pop, WakeTask
<1>3. QED
  BY <1>1, <1>2, PTL DEF Spec

(* The state of the semaphore keeps its types: the counter stays within    *)
(* usize, and no count a client keeps goes below zero (semaphore.rs).      *)
THEOREM TypeCorrect == Spec => []TypeOK
<1>1. Init => RequestsMade
  BY DEF Init, RequestsMade
<1>2. Spec => []RequestsMade
  BY <1>1, StepRequestsMade, Invariance, PTL DEF Spec
<1>3. IInv /\ RequestsMade /\ wasted \in BOOLEAN => TypeOK
  BY DEF IInv, Shapes, RequestsMade, TypeOK
<1>4. QED
  BY <1>2, <1>3, Invariance, FlagInvariance, PTL

-----------------------------------------------------------------------------
(* Every permit is somewhere: the inductive form counts how often the      *)
(* counter has wrapped.                                                    *)
Conserved ==
    \E k \in Nat :
        permits + Total(weight) + Total(Hoarded) + Counter * k = MaxPermits + surplus

LEMMA TotalIsSum == ASSUME NEW f PROVE Total(f) = SumOf(f, Clients)
BY DEF Total, SumOf

HoardedIs ==
    /\ Hoarded \in [Clients -> Nat]
    /\ \A c \in Clients : Hoarded[c] =
          IF pc[c] = "granted" THEN SaturatingSub(got[c], want(c)) ELSE got[c]

LEMMA HoardedType == (Shapes => HoardedIs) /\ (Shapes' => HoardedIs')
<1>1. Shapes => HoardedIs
  BY DEF Shapes, HoardedIs, Hoarded, SaturatingSub, want
<1>2. Shapes' => HoardedIs'
  BY DEF Shapes, HoardedIs, Hoarded, SaturatingSub, want
<1>3. QED
  BY <1>1, <1>2

(* A step that moves permits between the counter and one client. *)
LEMMA Moved ==
    ASSUME Shapes, Shapes', NEW c \in Clients,
           \A d \in Clients \ {c} : weight'[d] = weight[d] /\ Hoarded'[d] = Hoarded[d],
           NEW y \in Nat,
           permits' + weight'[c] + Hoarded'[c] + y + surplus
               = permits + weight[c] + Hoarded[c] + surplus'
    PROVE  /\ {Total(weight), Total(weight'), Total(Hoarded), Total(Hoarded')} \subseteq Nat
           /\ permits' + Total(weight') + Total(Hoarded') + y + surplus
                = permits + Total(weight) + Total(Hoarded) + surplus'
<1>1. Hoarded \in [Clients -> Nat] /\ Hoarded' \in [Clients -> Nat]
  BY HoardedType DEF HoardedIs
<1>2. weight \in [Clients -> Nat] /\ weight' \in [Clients -> Nat]
  BY DEF Shapes
<1>3. IsFiniteSet(Clients)
  BY SemaphoreAssumption
<1>4. /\ Total(weight) \in Nat /\ Total(weight') \in Nat
      /\ Total(weight') + weight[c] = Total(weight) + weight'[c]
  BY <1>2, <1>3, SumOfChanged, TotalIsSum
<1>5. /\ Total(Hoarded) \in Nat /\ Total(Hoarded') \in Nat
      /\ Total(Hoarded') + Hoarded[c] = Total(Hoarded) + Hoarded'[c]
  BY <1>1, <1>3, SumOfChanged, TotalIsSum
<1>6. /\ weight[c] \in Nat /\ weight'[c] \in Nat
      /\ Hoarded[c] \in Nat /\ Hoarded'[c] \in Nat
  BY <1>1, <1>2
<1>7. permits \in Nat /\ permits' \in Nat /\ surplus \in Nat /\ surplus' \in Nat
  BY SemaphoreAssumption DEF Shapes
<1>8. PICK w \in Nat, ww \in Nat, h \in Nat, hh \in Nat :
        w = weight[c] /\ ww = weight'[c] /\ h = Hoarded[c] /\ hh = Hoarded'[c]
  BY <1>6
<1>9. PICK W \in Nat, WW \in Nat, H \in Nat, HH \in Nat :
        /\ W = Total(weight) /\ WW = Total(weight')
        /\ H = Total(Hoarded) /\ HH = Total(Hoarded')
  BY <1>4, <1>5
<1>10. PICK p \in Nat, pp \in Nat, s \in Nat, ss \in Nat :
        p = permits /\ pp = permits' /\ s = surplus /\ ss = surplus'
  BY <1>7
<1>11. WW + w = W + ww /\ HH + h = H + hh
  BY <1>4, <1>5, <1>8, <1>9
<1>12. pp + ww + hh + y + s = p + w + h + ss
  BY <1>8, <1>10
<1>13. pp + WW + HH + y + s = p + W + H + ss
  BY <1>11, <1>12
<1>14. QED
  BY <1>9, <1>10, <1>13

LEMMA Balance ==
    ASSUME Shapes, Shapes', Conserved, NEW c \in Clients,
           \A d \in Clients \ {c} : weight'[d] = weight[d] /\ Hoarded'[d] = Hoarded[d],
           NEW q \in Nat,
           permits' + weight'[c] + Hoarded'[c] + Counter * q + surplus
               = permits + weight[c] + Hoarded[c] + surplus'
    PROVE  Conserved'
<1>1. Counter \in Nat /\ MaxPermits \in Nat
  BY SemaphoreAssumption DEF Counter
<1>2. PICK k \in Nat :
        permits + Total(weight) + Total(Hoarded) + Counter * k = MaxPermits + surplus
  BY DEF Conserved
<1>3. PICK x \in Nat, y \in Nat :
        x = Counter * k /\ y = Counter * q /\ Counter * (k + q) = x + y
  BY <1>1
<1>4. permits \in Nat /\ permits' \in Nat /\ surplus \in Nat /\ surplus' \in Nat
  BY SemaphoreAssumption DEF Shapes
<1>5. /\ {Total(weight), Total(weight'), Total(Hoarded), Total(Hoarded')} \subseteq Nat
      /\ permits' + Total(weight') + Total(Hoarded') + y + surplus
           = permits + Total(weight) + Total(Hoarded) + surplus'
  <2>1. permits' + weight'[c] + Hoarded'[c] + y + surplus
          = permits + weight[c] + Hoarded[c] + surplus'
    BY <1>3
  <2>2. QED
    BY <2>1, Moved
<1>6. permits + Total(weight) + Total(Hoarded) + x = MaxPermits + surplus
  BY <1>2, <1>3
<1>7. permits' + Total(weight') + Total(Hoarded') + (x + y) = MaxPermits + surplus'
  <2>1. PICK W \in Nat, WW \in Nat, H \in Nat, HH \in Nat :
          /\ W = Total(weight) /\ WW = Total(weight')
          /\ H = Total(Hoarded) /\ HH = Total(Hoarded')
    BY <1>5
  <2>2. PICK p \in Nat, pp \in Nat, s \in Nat, ss \in Nat, m \in Nat :
          p = permits /\ pp = permits' /\ s = surplus /\ ss = surplus' /\ m = MaxPermits
    BY <1>1, <1>4
  <2>3. p + W + H + x = m + s /\ pp + WW + HH + y + s = p + W + H + ss
    BY <1>5, <1>6, <2>1, <2>2
  <2>4. pp + WW + HH + (x + y) = m + ss
    BY <2>3
  <2>5. QED
    BY <2>1, <2>2, <2>4
<1>8. k + q \in Nat
  OBVIOUS
<1>9. (permits + Total(weight) + Total(Hoarded) + Counter * (k + q) = MaxPermits + surplus)'
  BY <1>3, <1>7
<1>10. QED
  BY <1>8, <1>9 DEF Conserved

LEMMA WrapCounts ==
    ASSUME NEW m \in Nat, NEW n \in Nat
    PROVE  \E q \in Nat : WrappingAdd(m, n) + Counter * q = m + n
<1>1. Counter \in Nat \ {0} /\ m + n \in Nat
  BY SemaphoreAssumption DEF Counter
<1>2. /\ (m + n) \div Counter \in Nat /\ (m + n) % Counter \in 0 .. Counter - 1
      /\ m + n = Counter * ((m + n) \div Counter) + ((m + n) % Counter)
  BY <1>1, DivisionTheorem
<1>3. WrappingAdd(m, n) = (m + n) % Counter
  BY DEF WrappingAdd, Counter
<1>4. PICK q \in Nat, r \in Nat :
        q = (m + n) \div Counter /\ r = WrappingAdd(m, n) /\ m + n = Counter * q + r
  BY <1>1, <1>2, <1>3
<1>5. r + Counter * q = m + n
  BY <1>1, <1>4
<1>6. QED
  BY <1>4, <1>5

(* The permits one client's step takes from the counter, or adds to it,    *)
(* are the ones its permit and its future stand for.                       *)
Settled(c) ==
    \E q \in Nat : permits' + weight'[c] + Hoarded'[c] + Counter * q + surplus
                     = permits + weight[c] + Hoarded[c] + surplus'

LEMMA SettledAtOnce ==
    ASSUME Shapes, Shapes', NEW c \in Clients,
           permits' + weight'[c] + Hoarded'[c] + surplus
               = permits + weight[c] + Hoarded[c] + surplus'
    PROVE  Settled(c)
<1>1. Hoarded \in [Clients -> Nat] /\ Hoarded' \in [Clients -> Nat]
  BY HoardedType DEF HoardedIs
<1>2. /\ permits' \in Nat /\ weight'[c] \in Nat /\ Hoarded'[c] \in Nat /\ surplus \in Nat
      /\ Counter * 0 = 0
  BY <1>1, SemaphoreAssumption DEF Shapes, Counter
<1>3. permits' + weight'[c] + Hoarded'[c] + Counter * 0 + surplus
        = permits + weight[c] + Hoarded[c] + surplus'
  BY <1>2
<1>4. QED
  BY <1>3 DEF Settled

LEMMA SettledByAdding ==
    ASSUME Shapes, Shapes', NEW c \in Clients, NEW n \in Nat,
           permits' = WrappingAdd(permits, n),
           weight'[c] + Hoarded'[c] + n + surplus = weight[c] + Hoarded[c] + surplus'
    PROVE  Settled(c)
<1>1. Hoarded \in [Clients -> Nat] /\ Hoarded' \in [Clients -> Nat]
  BY HoardedType DEF HoardedIs
<1>2. permits \in Nat /\ permits' \in Nat
  BY SemaphoreAssumption DEF Shapes
<1>3. PICK q \in Nat : permits' + Counter * q = permits + n
  BY <1>2, WrapCounts
<1>4. PICK p \in Nat, pp \in Nat, x \in Nat :
        p = permits /\ pp = permits' /\ x = Counter * q /\ pp + x = p + n
  BY <1>2, <1>3, SemaphoreAssumption DEF Counter
<1>5. PICK w \in Nat, ww \in Nat, h \in Nat, hh \in Nat, s \in Nat, ss \in Nat :
        /\ w = weight[c] /\ ww = weight'[c] /\ h = Hoarded[c] /\ hh = Hoarded'[c]
        /\ s = surplus /\ ss = surplus'
  BY <1>1 DEF Shapes
<1>6. pp + ww + hh + x + s = p + w + h + ss
  <2>1. ww + hh + n + s = w + h + ss
    BY <1>5
  <2>2. QED
    BY <1>4, <2>1
<1>7. QED
  BY <1>4, <1>5, <1>6 DEF Settled

LEMMA StepSettled ==
    ASSUME IInv, Shapes', NEW c \in Clients,
           \/ Request(c) \/ PollAgain(c) \/ Load(c) \/ Take(c) \/ Grab(c) \/ PushWaker(c)
           \/ DropGranted(c) \/ DropWaiting(c) \/ Release(c) \/ Pop(c) \/ WakeTask(c)
    PROVE  Settled(c)
<1>1. /\ Hoarded[c] = IF pc[c] = "granted" THEN SaturatingSub(got[c], want(c)) ELSE got[c]
      /\ Hoarded'[c] = IF pc'[c] = "granted" THEN SaturatingSub(got'[c], want(c)')
                       ELSE got'[c]
  BY HoardedType DEF HoardedIs, IInv
<1>2. /\ got[c] \in Nat /\ got'[c] \in Nat /\ weight[c] \in Nat /\ want(c) \in Nat
      /\ permits \in Nat /\ surplus \in Nat /\ seen[c] \in Nat /\ weight'[c] \in Nat
  BY SemaphoreAssumption DEF IInv, Shapes, want
<1>3. Local(c) /\ Shapes
  BY DEF IInv, LocalInv
<1>4. CASE Request(c) \/ PollAgain(c) \/ Load(c) \/ PushWaker(c) \/ WakeTask(c) \/ Pop(c)
  <2>1. /\ permits' = permits /\ surplus' = surplus /\ weight' = weight
        /\ got'[c] = got[c] /\ pc[c] # "granted" /\ pc'[c] # "granted"
    <3>1. CASE Request(c)
      BY <1>3, <3>1, SMTT(30) DEF Request, Goto, Shapes, Local, Awaiting, Inside
    <3>2. CASE PollAgain(c) \/ Load(c) \/ PushWaker(c)
      BY <1>3, <3>2, ZenonT(60) DEF PollAgain, Load, PushWaker, Goto, Shapes, GiveWay
    <3>3. CASE WakeTask(c)
      BY <1>3, <3>3 DEF WakeTask, Shapes, future
    <3>4. CASE Pop(c)
      BY <1>3, <3>4, Effects DEF PopEffect, Goto, Rest, Shapes
    <3>5. QED
      BY <1>4, <3>1, <3>2, <3>3, <3>4
  <2>2. QED
    BY <1>1, <1>3, <2>1, SettledAtOnce
<1>5. CASE Take(c)
  <2>1. CASE permits # seen[c]
    <3>1. /\ permits' = permits /\ surplus' = surplus /\ weight' = weight
          /\ got'[c] = got[c] /\ pc[c] # "granted" /\ pc'[c] # "granted"
      BY <1>3, <1>5, <2>1 DEF Take, Goto, Retry, Shapes, future
    <3>2. QED
      BY <1>1, <1>3, <3>1, SettledAtOnce
  <2>2. CASE permits = seen[c]
    <3>1. /\ permits' = permits - needed(c) /\ weight'[c] = want(c) /\ weight[c] = 0
          /\ got'[c] = got[c] /\ pc[c] # "granted" /\ pc'[c] = "granted"
          /\ surplus' = surplus /\ want(c)' = want(c)
      BY <1>3, <1>5, <2>2 DEF Take, Goto, Shapes, future, Local, want
    <3>2. permits' + weight'[c] + Hoarded'[c] + surplus
            = permits + weight[c] + Hoarded[c] + surplus'
      BY <1>1, <1>2, <3>1 DEF needed, SaturatingSub
    <3>3. QED
      BY <1>3, <3>2, SettledAtOnce
  <2>3. QED
    BY <2>1, <2>2
<1>6. CASE Grab(c)
  <2>1. CASE permits # seen[c]
    <3>1. /\ permits' = permits /\ surplus' = surplus /\ weight' = weight
          /\ got'[c] = got[c] /\ pc[c] # "granted" /\ pc'[c] # "granted"
      BY <1>3, <1>6, <2>1 DEF Grab, Goto, Retry, Shapes
    <3>2. QED
      BY <1>1, <1>3, <3>1, SettledAtOnce
  <2>2. CASE permits = seen[c]
    <3>1. /\ permits' = 0 /\ weight' = weight /\ got'[c] = got[c] + permits
          /\ pc[c] # "granted" /\ pc'[c] # "granted" /\ surplus' = surplus
      BY <1>3, <1>6, <2>2, SMTT(30) DEF Grab, Goto, GiveWay, Shapes
    <3>2. permits' + weight'[c] + Hoarded'[c] + surplus
            = permits + weight[c] + Hoarded[c] + surplus'
      BY <1>1, <1>2, <3>1
    <3>3. QED
      BY <1>3, <3>2, SettledAtOnce
  <2>3. QED
    BY <2>1, <2>2
<1>7. CASE DropGranted(c)
  <2>1. /\ pc[c] = "granted" /\ pc'[c] # "granted" /\ weight' = weight /\ got'[c] = 0
        /\ Hoarded'[c] = 0
    BY <1>1, <1>3, <1>7 DEF DropGranted, ReturnGot, AddPermits, Goto, Shapes
  <2>2. surplus' = surplus + (IF got[c] <= want(c) THEN got[c] ELSE want(c))
    BY <1>2, <1>7, MinOfTwo DEF DropGranted
  <2>3. weight'[c] + Hoarded'[c] + got[c] + surplus = weight[c] + Hoarded[c] + surplus'
    BY <1>1, <1>2, <2>1, <2>2 DEF SaturatingSub
  <2>4. CASE got[c] = 0
    <3>1. permits' = permits
      BY <1>7, <2>4 DEF DropGranted, ReturnGot
    <3>2. QED
      BY <1>1, <1>2, <1>3, <2>1, <2>2, <2>4, <3>1, SettledAtOnce DEF SaturatingSub
  <2>5. CASE got[c] > 0
    <3>1. permits' = WrappingAdd(permits, got[c])
      BY <1>3, <1>7, <2>5 DEF DropGranted, ReturnGot, AddPermits, Local
    <3>2. QED
      BY <1>2, <1>3, <2>3, <3>1, SettledByAdding
  <2>6. QED
    BY <1>2, <2>4, <2>5
<1>8. CASE DropWaiting(c)
  <2>0. DropWaitingEffect(c)
    BY <1>8, Effects
  <2>1. /\ pc[c] # "granted" /\ pc'[c] # "granted" /\ weight' = weight /\ got'[c] = 0
        /\ surplus' = surplus /\ Hoarded'[c] = 0 /\ Hoarded[c] = got[c]
    BY <1>1, <1>3, <2>0 DEF DropWaitingEffect, ReturnGot, AddPermits, Goto, Shapes
  <2>2. CASE got[c] = 0
    <3>1. permits' = permits
      BY <2>0, <2>2 DEF DropWaitingEffect, ReturnGot
    <3>2. QED
      BY <1>2, <1>3, <2>1, <2>2, <3>1, SettledAtOnce
  <2>3. CASE got[c] > 0
    <3>1. permits' = WrappingAdd(permits, got[c])
      BY <1>3, <2>0, <2>3 DEF DropWaitingEffect, ReturnGot, AddPermits, Local
    <3>2. QED
      BY <1>2, <1>3, <2>1, <3>1, SettledByAdding
  <2>4. QED
    BY <1>2, <2>2, <2>3
<1>9. CASE Release(c)
  <2>1. /\ pc[c] # "granted" /\ pc'[c] # "granted" /\ weight'[c] = 0 /\ got'[c] = got[c]
        /\ surplus' = surplus /\ permits' = WrappingAdd(permits, weight[c])
    BY <1>3, <1>9 DEF Release, AddPermits, Goto, Shapes, future
  <2>2. weight'[c] + Hoarded'[c] + weight[c] + surplus = weight[c] + Hoarded[c] + surplus'
    BY <1>1, <1>2, <2>1
  <2>3. QED
    BY <1>2, <1>3, <2>1, <2>2, SettledByAdding
<1>10. QED
  BY <1>4, <1>5, <1>6, <1>7, <1>8, <1>9

LEMMA StepConserved == IInv /\ IInv' /\ Conserved /\ [Next]_vars => Conserved'
<1> SUFFICES ASSUME IInv, IInv', Conserved, [Next]_vars PROVE Conserved'
  OBVIOUS
<1> DEFINE Steps(c) ==
      \/ Request(c) \/ PollAgain(c) \/ Load(c) \/ Take(c) \/ Grab(c) \/ PushWaker(c)
      \/ DropGranted(c) \/ DropWaiting(c) \/ Release(c) \/ Pop(c) \/ WakeTask(c)
<1>0. Shapes /\ Shapes'
  BY DEF IInv
<1>1. ASSUME NEW c \in Clients, Steps(c) PROVE Conserved'
  <2>1. PICK q \in Nat : permits' + weight'[c] + Hoarded'[c] + Counter * q + surplus
                           = permits + weight[c] + Hoarded[c] + surplus'
    BY <1>0, <1>1, StepSettled DEF Settled
  <2>2. \A d \in Clients \ {c} : weight'[d] = weight[d] /\ Hoarded'[d] = Hoarded[d]
    <3> SUFFICES ASSUME NEW d \in Clients, d # c
                 PROVE  weight'[d] = weight[d] /\ Hoarded'[d] = Hoarded[d]
      OBVIOUS
    <3>1. /\ pc'[d] = pc[d] /\ request'[d] = request[d] /\ got'[d] = got[d]
          /\ weight'[d] = weight[d]
      BY <1>1, OthersKeep
    <3>2. QED
      BY <1>0, <3>1, HoardedType DEF HoardedIs, want
  <2>3. QED
    BY <1>0, <2>1, <2>2, Balance
<1>2. CASE UNCHANGED vars
  BY <1>2 DEF vars, Conserved, Hoarded, want
<1>3. QED
  BY <1>1, <1>2 DEF Next

LEMMA ConservedInvariance == Spec => []Conserved
<1>1. Init => Conserved
  <2> SUFFICES ASSUME Init PROVE Conserved
    OBVIOUS
  <2>1. \A c \in Clients : weight[c] = 0 /\ Hoarded[c] = 0
    BY DEF Init, Hoarded
  <2>2. Total(weight) = 0 /\ Total(Hoarded) = 0
    BY <2>1, SemaphoreAssumption, TotalIsSum, SumOfZeros
  <2>3. permits + Total(weight) + Total(Hoarded) + Counter * 0 = MaxPermits + surplus
    BY <2>2, SemaphoreAssumption DEF Init, Counter
  <2>4. QED
    BY <2>3 DEF Conserved
<1>2. QED
  BY <1>1, StepConserved, Invariance, PTL DEF Spec

LEMMA TotalTypes == IInv => Total(weight) \in Nat /\ Total(Hoarded) \in Nat
<1> SUFFICES ASSUME IInv PROVE Total(weight) \in Nat /\ Total(Hoarded) \in Nat
  OBVIOUS
<1>1. \A c \in Clients : weight[c] \in Nat /\ Hoarded[c] \in Nat
  BY HoardedType DEF HoardedIs, IInv, Shapes
<1>2. QED
  BY <1>1, SemaphoreAssumption, TotalIsSum, SumIsNatural

(* No permit is lost and none appears, whatever clients request, give up   *)
(* or drop and in whatever order: free, held and hoarded ones are those of *)
(* Semaphore::new plus what hungry futures gave back twice, in the width   *)
(* of the counter (semaphore.rs, sem_fut and the three drops).             *)
THEOREM Conservation == Spec => []PermitsConserved
<1>1. IInv /\ Conserved => PermitsConserved
  <2> SUFFICES ASSUME IInv, Conserved PROVE PermitsConserved
    OBVIOUS
  <2>1. PICK k \in Nat :
          permits + Total(weight) + Total(Hoarded) + Counter * k = MaxPermits + surplus
    BY DEF Conserved
  <2>2. PICK a \in Nat : a = permits + Total(weight) + Total(Hoarded)
    BY TotalTypes, SemaphoreAssumption, SMTT(30) DEF IInv, Shapes
  <2>3. (a + Counter * k) % Counter = a % Counter
    <3>1. Counter \in Nat \ {0}
      BY SemaphoreAssumption DEF Counter
    <3>2. QED
      BY <3>1, ModOfMultiple
  <2>4. a + Counter * k = MaxPermits + surplus
    BY <2>1, <2>2
  <2>5. (permits + Total(weight) + Total(Hoarded)) % Counter
          = (MaxPermits + surplus) % Counter
    BY <2>2, <2>3, <2>4
  <2>6. QED
    BY <2>5 DEF PermitsConserved, Counter
<1>2. QED
  BY <1>1, Invariance, ConservedInvariance, PTL

(* As long as the surplus cannot have made the counter wrap, it never did. *)
LEMMA ExactlyConserved ==
    ASSUME IInv, Conserved, MaxPermits + surplus <= UsizeMax
    PROVE  permits + Total(weight) + Total(Hoarded) = MaxPermits + surplus
<1>1. PICK k \in Nat :
        permits + Total(weight) + Total(Hoarded) + Counter * k = MaxPermits + surplus
  BY DEF Conserved
<1>2. PICK a \in Nat : a = permits + Total(weight) + Total(Hoarded)
  BY TotalTypes, SemaphoreAssumption, SMTT(30) DEF IInv, Shapes
<1>3. PICK b \in Nat, x \in Nat : b = MaxPermits + surplus /\ x = Counter * k /\ a + x = b
  BY <1>1, <1>2, SemaphoreAssumption DEF IInv, Shapes, Counter
<1>4. k = 0
  <2>1. b < Counter /\ Counter \in Nat
    BY <1>3, SemaphoreAssumption DEF Counter
  <2>2. k > 0 => Counter * k >= Counter
    BY <2>1
  <2>3. QED
    BY <1>2, <1>3, <2>1, <2>2
<1>5. QED
  BY <1>2, <1>3, <1>4, SemaphoreAssumption DEF Counter

(* The permits held at one time, each, two together and by count. *)
WeightsFit ==
    /\ \A c, d \in Clients : c # d => weight[c] + weight[d] <= MaxPermits
    /\ \A R \in SUBSET Clients :
          (\A c \in R : weight[c] > 0) => Cardinality(R) <= MaxPermits

(* Before a permit was given back twice, the permits held are no more than *)
(* there are (semaphore.rs sem_fut and the drops).                         *)
LEMMA HeldFit == Spec => [](surplus = 0 => WeightsFit)
<1>1. IInv /\ Conserved => (surplus = 0 => WeightsFit)
  <2> SUFFICES ASSUME IInv, Conserved, surplus = 0 PROVE WeightsFit
    OBVIOUS
  <2>1. PICK total \in Nat, other \in Nat :
          total = Total(weight) /\ other = Total(Hoarded)
    BY TotalTypes
  <2>2. permits + total + other = MaxPermits
    BY <2>1, ExactlyConserved, SemaphoreAssumption
  <2>3. permits \in Nat /\ MaxPermits \in Nat
    BY SemaphoreAssumption DEF IInv, Shapes
  <2>4. total <= MaxPermits
    BY <2>2, <2>3
  <2>5. IsFiniteSet(Clients) /\ (\A c \in Clients : weight[c] \in Nat)
    BY SemaphoreAssumption DEF IInv, Shapes
  <2>6. SumOf(weight, Clients) = total
    BY <2>1, TotalIsSum
  <2>7. ASSUME NEW c \in Clients, NEW d \in Clients, c # d
        PROVE  weight[c] + weight[d] <= MaxPermits
    <3>1. weight[c] + weight[d] <= total
      BY <2>5, <2>6, <2>7, SumBoundsTerms
    <3>2. QED
      BY <2>3, <2>4, <2>5, <3>1
  <2>8. ASSUME NEW R \in SUBSET Clients, \A c \in R : weight[c] > 0
        PROVE  Cardinality(R) <= MaxPermits
    <3>1. IsFiniteSet(R) /\ (\A c \in R : weight[c] \in Nat \ {0})
      BY <2>5, <2>8, FS_Subset
    <3>2. PICK part \in Nat : part = SumOf(weight, R)
      BY <2>5, <3>1, SumIsNatural
    <3>3. part <= total
      BY <2>5, <2>6, <3>2, SumOfPart
    <3>4. Cardinality(R) <= part /\ Cardinality(R) \in Nat
      BY <3>1, <3>2, SumCounts, FS_CardinalityType
    <3>5. QED
      BY <2>3, <2>4, <3>3, <3>4
  <2>9. QED
    BY <2>7, <2>8 DEF WeightsFit
<1>2. QED
  BY <1>1, Invariance, ConservedInvariance, PTL

-----------------------------------------------------------------------------
(* Why nobody is left parked beside free permits.  A client that has parked, *)
(* or that looks for the second time, has its waker in the queue or a wake  *)
(* coming.                                                                  *)
InQueue(c) == \E i \in 1 .. Len(waker_queue) : waker_queue[i] = c

WaiterIsReachable ==
    \A c \in Clients :
        pc[c] = "parked" \/ (pc[c] \in {"load", "take", "grab"} /\ queued[c] = TRUE)
            => wakes[c] > 0 \/ InQueue(c)

(* It will find the counter changed, and park. *)
Doomed(c) == /\ pc[c] \in {"take", "grab"} /\ queued[c] = TRUE
             /\ seen[c] # permits /\ wakes[c] = 0

(* It will look at the permits again before it parks, or wake someone. *)
Responsible(u) ==
    \/ pc[u] \in {"ready", "load", "push", "granted", "held", "waking"}
    \/ pc[u] \in {"take", "grab"} /\ (queued[u] = FALSE \/ seen[u] = permits)
    \/ pc[u] \in Awaiting /\ wakes[u] > 0

SomeoneResponds ==
    wasted = FALSE /\ permits > 0 /\ InVain = {}
        /\ (\E c \in Clients : pc[c] = "parked" \/ Doomed(c))
    => \E u \in Clients : Responsible(u)

LEMMA StepReachable == IInv /\ WaiterIsReachable /\ [Next]_vars => WaiterIsReachable'
<1> SUFFICES ASSUME IInv, WaiterIsReachable, [Next]_vars, NEW d \in Clients,
                    \/ pc'[d] = "parked"
                    \/ pc'[d] \in {"load", "take", "grab"} /\ queued'[d] = TRUE
             PROVE  wakes'[d] > 0 \/ InQueue(d)'
  BY DEF WaiterIsReachable
<1>0. /\ pc \in [Clients -> Locations] /\ queued \in [Clients -> BOOLEAN]
      /\ wakes \in [Clients -> Nat] /\ waker_queue \in Seq(Clients)
  BY DEF IInv, Shapes
<1> DEFINE Waits == \/ pc[d] = "parked"
                    \/ pc[d] \in {"load", "take", "grab"} /\ queued[d] = TRUE
<1>1. Waits => wakes[d] > 0 \/ InQueue(d)
  BY DEF WaiterIsReachable
<1>2. ASSUME NEW c \in Clients, \/ Request(c) \/ PollAgain(c) \/ Load(c) \/ Take(c)
             \/ Grab(c) \/ DropGranted(c) \/ DropWaiting(c) \/ Release(c)
      PROVE  wakes'[d] > 0 \/ InQueue(d)'
  <2>1. wakes' = wakes /\ waker_queue' = waker_queue
    <3>1. CASE DropWaiting(c)
      BY <3>1, Effects DEF DropWaitingEffect
    <3>2. CASE Request(c) \/ PollAgain(c) \/ Load(c)
      BY <3>2 DEF Request, PollAgain, Load
    <3>3. CASE Take(c) \/ Grab(c) \/ DropGranted(c) \/ Release(c)
      BY <3>3 DEF Take, Grab, DropGranted, Release
    <3>4. QED
      BY <1>2, <3>1, <3>2, <3>3
  <2>2. Waits
    <3>1. CASE d # c
      BY <1>2, <3>1, OthersKeep
    <3>2. CASE d = c
      <4>1. CASE Request(c) \/ PollAgain(c)
        BY <1>0, <3>2, <4>1 DEF Request, PollAgain, Goto
      <4>2. CASE Load(c)
        BY <1>0, <3>2, <4>2 DEF Load, Goto, GiveWay
      <4>3. CASE Take(c)
        BY <1>0, <3>2, <4>3 DEF Take, Goto, Retry, future
      <4>4. CASE Grab(c)
        BY <1>0, <3>2, <4>4 DEF Grab, Goto, Retry, GiveWay
      <4>5. CASE DropGranted(c) \/ Release(c)
        BY <1>0, <3>2, <4>5 DEF DropGranted, Release, ReturnGot, AddPermits, Goto
      <4>6. CASE DropWaiting(c)
        BY <1>0, <3>2, <4>6, Effects DEF DropWaitingEffect, ReturnGot, AddPermits, Goto
      <4>7. QED
        BY <1>2, <4>1, <4>2, <4>3, <4>4, <4>5, <4>6
    <3>3. QED
      BY <3>1, <3>2
  <2>3. QED
    BY <1>1, <2>1, <2>2 DEF InQueue
<1>3. ASSUME NEW c \in Clients, PushWaker(c) PROVE wakes'[d] > 0 \/ InQueue(d)'
  <2>1. waker_queue' = Append(waker_queue, c) /\ wakes' = wakes
    BY <1>3 DEF PushWaker
  <2>2. /\ Len(waker_queue') = Len(waker_queue) + 1
        /\ waker_queue'[Len(waker_queue) + 1] = c
        /\ \A i \in 1 .. Len(waker_queue) : waker_queue'[i] = waker_queue[i]
    BY <1>0, <2>1
  <2>3. CASE d = c
    <3>1. Len(waker_queue) + 1 \in 1 .. Len(waker_queue')
      BY <1>0, <2>2
    <3>2. QED
      BY <2>2, <2>3, <3>1 DEF InQueue
  <2>4. CASE d # c
    <3>1. Waits
      BY <1>3, <2>4, OthersKeep
    <3>2. \A i \in 1 .. Len(waker_queue) : i \in 1 .. Len(waker_queue')
      BY <1>0, <2>2
    <3>3. QED
      BY <1>1, <2>1, <2>2, <3>1, <3>2 DEF InQueue
  <2>5. QED
    BY <2>3, <2>4
<1>4. ASSUME NEW c \in Clients, Pop(c) PROVE wakes'[d] > 0 \/ InQueue(d)'
  <2>0. PopEffect(c)
    BY <1>4, Effects
  <2>1. Waits
    <3>1. CASE d # c
      BY <1>4, <3>1, OthersKeep
    <3>2. CASE d = c
      BY <1>0, <2>0, <3>2 DEF PopEffect, Goto, Rest
    <3>3. QED
      BY <3>1, <3>2
  <2>2. CASE waker_queue = <<>>
    BY <1>1, <2>0, <2>1, <2>2 DEF PopEffect, InQueue
  <2>3. CASE waker_queue # <<>>
    <3>1. /\ waker_queue' = Tail(waker_queue)
          /\ wakes' = [wakes EXCEPT ![Head(waker_queue)] = @ + 1]
      BY <2>0, <2>3 DEF PopEffect
    <3>2. Head(waker_queue) = waker_queue[1] /\ waker_queue[1] \in Clients
      BY <1>0, <2>3
    <3>3. CASE wakes[d] > 0
      BY <1>0, <3>1, <3>2, <3>3
    <3>4. CASE InQueue(d)
      <4>1. PICK i \in 1 .. Len(waker_queue) : waker_queue[i] = d
        BY <3>4 DEF InQueue
      <4>2. CASE i = 1
        BY <1>0, <3>1, <3>2, <4>1, <4>2
      <4>3. CASE i # 1
        <5>1. /\ i - 1 \in 1 .. Len(Tail(waker_queue))
              /\ Tail(waker_queue)[i - 1] = waker_queue[i]
          BY <1>0, <2>3, <4>3
        <5>2. QED
          BY <3>1, <4>1, <5>1 DEF InQueue
      <4>4. QED
        BY <4>2, <4>3
    <3>5. QED
      BY <1>1, <2>1, <3>3, <3>4
  <2>4. QED
    BY <2>2, <2>3
<1>5. ASSUME NEW c \in Clients, WakeTask(c) PROVE wakes'[d] > 0 \/ InQueue(d)'
  <2>1. d # c /\ waker_queue' = waker_queue /\ queued' = queued
    BY <1>0, <1>5 DEF WakeTask, future
  <2>2. wakes'[d] = wakes[d] /\ pc'[d] = pc[d]
    BY <1>0, <1>5, <2>1 DEF WakeTask
  <2>3. QED
    BY <1>1, <2>1, <2>2 DEF InQueue
<1>6. CASE UNCHANGED vars
  BY <1>1, <1>6 DEF vars, InQueue
<1>7. QED
  BY <1>2, <1>3, <1>4, <1>5, <1>6 DEF Next

(* The flag: a step that leaves it down wastes no wake. *)
LEMMA NothingWasted ==
    ASSUME wasted \in BOOLEAN, wasted' = FALSE, NEW c \in Clients
    PROVE  /\ Pop(c) => /\ wasted = FALSE
                        /\ waker_queue # <<>> => pc[Head(waker_queue)] \in Awaiting
           /\ DropWaiting(c) => /\ wasted = FALSE /\ pc[c] # "ready"
                                /\ ~(wakes[c] > 0) /\ c \notin InVain
           /\ Take(c) \/ Grab(c) \/ WakeTask(c) \/ Load(c) => wasted = FALSE
BY Zenon DEF Pop, DropWaiting, Take, Grab, WakeTask, Load

LEMMA VainIs ==
    ASSUME Shapes, NEW c \in Clients
    PROVE  c \in InVain <=> /\ pc[c] = "parked" /\ hungry(c) = FALSE
                            /\ permits > 0 /\ permits < want(c)
BY SemaphoreAssumption, SMTT(30) DEF InVain, Shapes, want, hungry

LEMMA VainIsNext ==
    ASSUME Shapes', NEW c \in Clients
    PROVE  c \in InVain' <=> /\ pc'[c] = "parked" /\ hungry(c)' = FALSE
                             /\ permits' > 0 /\ permits' < want(c)'
BY SemaphoreAssumption, SMTT(30) DEF InVain, Shapes, want, hungry

LEMMA StepSomeoneResponds ==
    IInv /\ Shapes' /\ wasted \in BOOLEAN /\ WaiterIsReachable /\ SomeoneResponds
        /\ [Next]_vars => SomeoneResponds'
<1> SUFFICES ASSUME IInv, Shapes', wasted \in BOOLEAN, WaiterIsReachable,
                    SomeoneResponds, [Next]_vars, wasted' = FALSE, permits' > 0,
                    InVain' = {}, NEW p \in Clients, pc'[p] = "parked" \/ Doomed(p)'
             PROVE  \E u \in Clients : Responsible(u)'
  BY DEF SomeoneResponds
<1>0. /\ pc \in [Clients -> Locations] /\ queued \in [Clients -> BOOLEAN]
      /\ wakes \in [Clients -> Nat] /\ waker_queue \in Seq(Clients)
      /\ seen \in [Clients -> Nat] /\ got \in [Clients -> Nat] /\ Shapes
  BY DEF IInv, Shapes
<1>1. ASSUME NEW c \in Clients, \/ Request(c) \/ PollAgain(c) \/ PushWaker(c)
             \/ DropGranted(c) \/ Release(c)
      PROVE  Responsible(c)'
  <2>1. CASE Request(c) \/ PollAgain(c) \/ PushWaker(c)
    BY <1>0, <2>1 DEF Request, PollAgain, PushWaker, Goto, Responsible
  <2>2. CASE DropGranted(c) \/ Release(c)
    BY <1>0, <2>2 DEF DropGranted, Release, ReturnGot, AddPermits, Goto, Responsible
  <2>3. QED
    BY <1>1, <2>1, <2>2
(* A client that parks, or is doomed to, without another look was doomed   *)
(* before or wants politely more than is free.                             *)
<1>2. ASSUME NEW c \in Clients, Load(c) PROVE \E u \in Clients : Responsible(u)'
  <2>1. /\ seen'[c] = permits /\ permits' = permits /\ queued' = queued
        /\ request' = request /\ got' = got
    BY <1>0, <1>2 DEF Load
  <2>2. \/ pc'[c] \in {"take", "grab", "push"}
        \/ pc'[c] = "parked" /\ permits < needed(c) /\ ~MayGrab(c, permits)
    BY <1>0, <1>2, <2>1, SMTT(30) DEF Load, Goto, GiveWay, IInv, Shapes, needed, want, SaturatingSub
  <2>3. CASE pc'[c] = "parked"
    <3>1. permits < want(c) /\ hungry(c) = FALSE
      <4>1. ~MayGrab(c, permits) /\ permits < needed(c)
        BY <2>2, <2>3
      <4>2. permits \in Nat /\ want(c) \in Nat /\ got[c] \in Nat
        BY <1>0, SemaphoreAssumption DEF Shapes, want
      <4>3. permits > 0
        BY <2>1
      <4>4. hungry(c) = FALSE
        BY <1>0, <4>1, <4>3 DEF MayGrab, hungry, Shapes
      <4>5. QED
        BY <4>1, <4>2, <4>4 DEF needed, SaturatingSub
    <3>2. c \in InVain'
      BY <2>1, <2>3, <3>1, VainIsNext DEF want, hungry
    <3>3. QED
      BY <3>2
  <2>4. CASE pc'[c] \in {"take", "grab", "push"}
    BY <2>1, <2>4 DEF Responsible
  <2>5. QED
    BY <2>2, <2>3, <2>4
<1>3. ASSUME NEW c \in Clients, Take(c) \/ Grab(c), permits # seen[c]
      PROVE  \E u \in Clients : Responsible(u)'
  <2>1. /\ permits' = permits /\ queued' = queued /\ seen' = seen /\ wakes' = wakes
        /\ request' = request /\ pc[c] \in {"take", "grab"}
        /\ pc' = [pc EXCEPT ![c] = pc'[c]] /\ wasted = FALSE
    <3>1. CASE Take(c)
      BY <1>0, <1>3, <3>1, NothingWasted DEF Take, Goto, future
    <3>2. CASE Grab(c)
      BY <1>0, <1>3, <3>2, NothingWasted DEF Grab, Goto
    <3>3. QED
      BY <1>3, <3>1, <3>2
  <2>2. \/ pc'[c] = "load" /\ queued[c] = FALSE
        \/ pc'[c] \in {"grab", "parked"} /\ queued[c] = TRUE
    BY <1>0, <1>3 DEF Take, Grab, Goto, Retry
  <2>3. CASE pc'[c] = "load"
    BY <2>3 DEF Responsible
  <2>4. CASE wakes[c] > 0 /\ pc'[c] # "load"
    BY <2>1, <2>2, <2>4 DEF Responsible, Awaiting, Inside
  <2>5. CASE wakes[c] = 0 /\ pc'[c] # "load"
    <3>1. Doomed(c)
      BY <1>3, <2>1, <2>2, <2>5 DEF Doomed
    <3>2. InVain = {}
      <4> SUFFICES ASSUME NEW v \in InVain PROVE FALSE
        OBVIOUS
      <4>1. v \in Clients
        BY DEF InVain
      <4>2. pc'[v] = pc[v] /\ pc[v] = "parked"
        BY <1>0, <2>1, <4>1 DEF InVain
      <4>3. v \in InVain'
        BY <1>0, <2>1, <4>1, <4>2, VainIs, VainIsNext DEF want, hungry
      <4>4. QED
        BY <4>3
    <3>3. PICK u \in Clients : Responsible(u)
      BY <2>1, <3>1, <3>2 DEF SomeoneResponds
    <3>4. u # c
      BY <1>3, <2>1, <2>2, <2>5, <3>3 DEF Responsible
    <3>5. Responsible(u)'
      BY <1>0, <2>1, <3>3, <3>4 DEF Responsible
    <3>6. QED
      BY <3>5
  <2>6. QED
    BY <1>0, <2>3, <2>4, <2>5
<1>4. ASSUME NEW c \in Clients, Take(c) \/ Grab(c), permits = seen[c]
      PROVE  \E u \in Clients : Responsible(u)'
  <2>1. CASE Take(c)
    <3>1. pc'[c] = "granted"
      BY <1>0, <1>4, <2>1 DEF Take, Goto
    <3>2. QED
      BY <3>1 DEF Responsible
  <2>2. CASE Grab(c)
    BY <1>4, <2>2 DEF Grab
  <2>3. QED
    BY <1>4, <2>1, <2>2
<1>5. ASSUME NEW c \in Clients, DropWaiting(c) PROVE \E u \in Clients : Responsible(u)'
  <2>0. DropWaitingEffect(c)
    BY <1>5, Effects
  <2>1. /\ wasted = FALSE /\ pc[c] = "parked" /\ wakes[c] = 0 /\ c \notin InVain
    <3>1. /\ wasted = FALSE /\ pc[c] # "ready" /\ ~(wakes[c] > 0) /\ c \notin InVain
      BY <1>5, NothingWasted, Zenon
    <3>2. wakes[c] \in Nat
      BY <1>0
    <3>3. wakes[c] = 0 /\ pc[c] = "parked"
      BY <2>0, <3>1, <3>2 DEF DropWaitingEffect
    <3>4. QED
      BY <3>1, <3>3
  <2>2. CASE pc'[c] = "waking"
    BY <2>2 DEF Responsible
  <2>3. CASE pc'[c] # "waking"
    <3>1. /\ permits' = permits /\ queued' = queued /\ seen' = seen /\ wakes' = wakes
          /\ request' = request /\ pc' = [pc EXCEPT ![c] = "idle"]
      BY <1>0, <2>0, <2>3 DEF DropWaitingEffect, ReturnGot, AddPermits, Goto
    <3>2. InVain = {}
      <4> SUFFICES ASSUME NEW v \in InVain PROVE FALSE
        OBVIOUS
      <4>1. v \in Clients /\ v # c
        BY <2>1 DEF InVain
      <4>2. pc'[v] = pc[v]
        BY <1>0, <3>1, <4>1
      <4>3. v \in InVain'
        BY <1>0, <3>1, <4>1, <4>2, VainIs, VainIsNext DEF want, hungry
      <4>4. QED
        BY <4>3
    <3>3. PICK u \in Clients : Responsible(u)
      BY <2>1, <3>1, <3>2 DEF SomeoneResponds
    <3>4. u # c
      BY <2>1, <3>3 DEF Responsible
    <3>5. Responsible(u)'
      BY <1>0, <3>1, <3>3, <3>4 DEF Responsible
    <3>6. QED
      BY <3>5
  <2>4. QED
    BY <2>2, <2>3
<1>6. ASSUME NEW c \in Clients, Pop(c) PROVE \E u \in Clients : Responsible(u)'
  <2>0. PopEffect(c)
    BY <1>6, Effects
  <2>1. CASE waker_queue = <<>>
    <3>1. /\ p # c /\ pc'[p] = pc[p] /\ wakes' = wakes /\ permits' = permits
          /\ queued' = queued /\ seen' = seen
      BY <1>0, <2>0, <2>1 DEF PopEffect, Goto, Rest, Doomed
    <3>2. wakes[p] > 0
      BY <1>0, <2>1, <3>1 DEF WaiterIsReachable, InQueue, Doomed
    <3>3. Responsible(p)'
      BY <3>1, <3>2 DEF Responsible, Doomed, Awaiting, Inside
    <3>4. QED
      BY <3>3
  <2>2. CASE waker_queue # <<>>
    <3>1. PICK u \in Clients : u = Head(waker_queue)
      BY <1>0, <2>2, SMTT(30)
    <3>2. pc[u] \in Awaiting /\ u # c
      BY <1>6, <2>0, <2>2, <3>1, NothingWasted DEF PopEffect, Awaiting, Inside
    <3>3. wakes' = [wakes EXCEPT ![u] = @ + 1]
      BY <2>0, <2>2, <3>1 DEF PopEffect
    <3>4. wakes'[u] > 0
      BY <1>0, <3>3
    <3>5. pc'[u] = pc[u]
      BY <1>0, <2>0, <3>2 DEF PopEffect, Goto
    <3>6. Responsible(u)'
      BY <3>2, <3>4, <3>5 DEF Responsible
    <3>7. QED
      BY <3>6
  <2>3. QED
    BY <2>1, <2>2
<1>7. ASSUME NEW c \in Clients, WakeTask(c) PROVE \E u \in Clients : Responsible(u)'
  <2>1. /\ permits' = permits /\ queued' = queued /\ seen' = seen /\ request' = request
        /\ wasted = FALSE /\ wakes' = [wakes EXCEPT ![c] = @ - 1]
        /\ pc[c] \in {"idle", "parked", "ready", "held"}
        /\ pc' = [pc EXCEPT ![c] = IF @ = "parked" THEN "ready" ELSE @]
    BY <1>7, NothingWasted DEF WakeTask, future
  <2>2. CASE pc[c] = "parked"
    <3>1. pc'[c] = "ready"
      BY <1>0, <2>1, <2>2
    <3>2. QED
      BY <3>1 DEF Responsible
  <2>3. CASE pc[c] # "parked"
    <3>1. pc' = pc
      BY <1>0, <2>1, <2>3
    <3>2. InVain = {}
      BY <2>1, <3>1 DEF InVain, want, hungry
    <3>3. p # c \/ pc[p] \notin {"take", "grab"}
      BY <2>1
    <3>4. pc[p] = "parked" \/ Doomed(p)
      BY <1>0, <2>1, <3>1, <3>3 DEF Doomed
    <3>5. PICK u \in Clients : Responsible(u)
      BY <2>1, <3>2, <3>4 DEF SomeoneResponds
    <3>6. Responsible(u)'
      <4>1. CASE u = c
        BY <2>1, <2>3, <3>1, <3>5, <4>1 DEF Responsible, Awaiting, Inside
      <4>2. CASE u # c
        BY <1>0, <2>1, <3>1, <3>5, <4>2 DEF Responsible
      <4>3. QED
        BY <4>1, <4>2
    <3>7. QED
      BY <3>6
  <2>4. QED
    BY <2>2, <2>3
<1>8. CASE UNCHANGED vars
  BY <1>8 DEF vars, SomeoneResponds, Responsible, Doomed, InVain, want, hungry
<1>9. QED
  BY <1>1, <1>2, <1>3, <1>4, <1>5, <1>6, <1>7, <1>8 DEF Next

LEMMA RespondsInvariance == Spec => [](WaiterIsReachable /\ SomeoneResponds)
<1>1. Init => WaiterIsReachable /\ SomeoneResponds
  BY DEF Init, WaiterIsReachable, SomeoneResponds, Doomed
<1>2. IInv => Shapes
  BY DEF IInv
<1>3. QED
  BY <1>1, <1>2, Invariance, FlagInvariance, StepReachable, StepSomeoneResponds, PTL
     DEF Spec

(* No request is for more permits than there are. *)
Satisfiable == \A c \in Clients : \A r \in Requests[c] : r.want <= MaxPermits

(* When all clients are through or parked and nothing is free, somebody    *)
(* hoards; if only one does, it hoards all there is, and has been paid.    *)
LEMMA HoarderIsPaid ==
    ASSUME Satisfiable, IInv, RequestsMade, Conserved, Quiet,
           MaxPermits + surplus <= UsizeMax, permits = 0, Cardinality(Hoarders) <= 1,
           NEW p \in Clients, pc[p] = "parked"
    PROVE  PaidSleepers # {}
<1>1. \A c \in Clients : weight[c] = 0 /\ Hoarded[c] = got[c] /\ got[c] \in Nat
  <2> SUFFICES ASSUME NEW c \in Clients
               PROVE  weight[c] = 0 /\ Hoarded[c] = got[c] /\ got[c] \in Nat
    OBVIOUS
  <2>1. pc[c] \in {"idle", "parked"}
    BY DEF Quiet
  <2>2. weight[c] \in Nat /\ got[c] \in Nat
    BY DEF IInv, Shapes
  <2>3. weight[c] = 0
    BY <2>1, <2>2 DEF IInv, LocalInv, Local
  <2>4. Hoarded[c] = got[c]
    BY <2>1, HoardedType DEF IInv, HoardedIs
  <2>5. QED
    BY <2>2, <2>3, <2>4
<1>2. Total(weight) = 0
  BY <1>1, SemaphoreAssumption, TotalIsSum, SumOfZeros
<1>3. Total(Hoarded) = MaxPermits + surplus
  <2>1. permits + Total(weight) + Total(Hoarded) = MaxPermits + surplus
    BY ExactlyConserved
  <2>2. PICK t \in Nat : t = Total(Hoarded)
    BY TotalTypes
  <2>3. QED
    BY <1>2, <2>1, <2>2
<1>4. \A c \in Clients : got[c] > 0 => c \in Hoarders
  BY DEF Quiet, Hoarders, IInv, LocalInv, Local, Awaiting, Inside
<1>5. ASSUME NEW c \in Clients, pc[c] = "parked"
      PROVE  want(c) \in Nat /\ want(c) > 0 /\ want(c) <= MaxPermits
  <2>1. want(c) \in Nat /\ want(c) > 0
    BY <1>5 DEF IInv, Shapes, LocalInv, Local, want
  <2>2. request[c] \in Requests[c]
    BY <2>1 DEF RequestsMade, NoRequest, want
  <2>3. QED
    BY <2>1, <2>2 DEF Satisfiable, want
<1>6. Hoarders # {}
  <2> SUFFICES ASSUME Hoarders = {} PROVE FALSE
    OBVIOUS
  <2>1. \A c \in Clients : Hoarded[c] = 0
    BY <1>1, <1>4
  <2>2. Total(Hoarded) = 0
    BY <2>1, SemaphoreAssumption, TotalIsSum, SumOfZeros
  <2>3. QED
    BY <1>3, <1>5, <2>2, SemaphoreAssumption DEF IInv, Shapes
<1>7. PICK h \in Clients : h \in Hoarders /\ pc[h] = "parked"
  BY <1>6 DEF Hoarders
<1>8. \A c \in Clients \ {h} : Hoarded[c] = 0
  <2> SUFFICES ASSUME NEW c \in Clients, Hoarded[c] # 0 PROVE c = h
    OBVIOUS
  <2>1. c \in Hoarders
    BY <1>1, <1>4
  <2>2. IsFiniteSet(Hoarders)
    BY SemaphoreAssumption, FS_Subset DEF Hoarders
  <2>3. QED
    BY <1>7, <2>1, <2>2, AtMostOne
<1>9. Total(Hoarded) = got[h]
  BY <1>1, <1>8, SemaphoreAssumption, TotalIsSum, SumOfSingle
<1>10. got[h] >= want(h)
  <2>1. want(h) \in Nat /\ want(h) <= MaxPermits
    BY <1>5, <1>7, Zenon
  <2>2. surplus \in Nat /\ MaxPermits \in Nat
    BY SemaphoreAssumption DEF IInv, Shapes
  <2>3. got[h] = MaxPermits + surplus
    BY <1>3, <1>9
  <2>4. QED
    BY <2>1, <2>2, <2>3
<1>11. QED
  BY <1>7, <1>10 DEF PaidSleepers

(* Of a semaphore whose requests it can satisfy, a client is left parked   *)
(* for no other cause than the four known ones, as long as the permits     *)
(* given back twice have not made the counter wrap: no interleaving of the *)
(* loop of sem_fut with the pops of add_permits loses another wake.        *)
THEOREM StuckForKnownCause ==
    Satisfiable => (Spec => [](MaxPermits + surplus <= UsizeMax => StuckOnlyForKnownCause))
<1> SUFFICES ASSUME Satisfiable
             PROVE  Spec => [](MaxPermits + surplus <= UsizeMax => StuckOnlyForKnownCause)
  OBVIOUS
<1>1. Init => RequestsMade
  BY DEF Init, RequestsMade
<1>2. Spec => []RequestsMade
  BY <1>1, StepRequestsMade, Invariance, PTL DEF Spec
<1>3. IInv /\ RequestsMade /\ Conserved /\ wasted \in BOOLEAN /\ SomeoneResponds
        => (MaxPermits + surplus <= UsizeMax => StuckOnlyForKnownCause)
  <2> SUFFICES ASSUME IInv, RequestsMade, Conserved, SomeoneResponds,
                      MaxPermits + surplus <= UsizeMax, Quiet,
                      NEW p \in Clients, pc[p] = "parked",
                      wasted = FALSE, InVain = {}, ~(Cardinality(Hoarders) > 1)
               PROVE  PaidSleepers # {}
    BY Zenon DEF StuckOnlyForKnownCause
  <2>1. permits = 0
    <3>1. \A u \in Clients : ~Responsible(u)
      BY DEF Quiet, Responsible, Awaiting, Inside
    <3>2. ~(permits > 0)
      BY <3>1 DEF SomeoneResponds
    <3>3. QED
      BY <3>2, SemaphoreAssumption DEF IInv, Shapes
  <2>2. Cardinality(Hoarders) <= 1
    <3>1. IsFiniteSet(Hoarders)
      BY SemaphoreAssumption, FS_Subset DEF Hoarders
    <3>2. QED
      BY <3>1, FS_CardinalityType
  <2>3. QED
    BY <2>1, <2>2, HoarderIsPaid
<1>4. QED
  BY <1>2, <1>3, Invariance, ConservedInvariance, FlagInvariance, RespondsInvariance, PTL
-----------------------------------------------------------------------------
(* What the permits of the requests that RwLock makes are worth.           *)
Holders == ReadGuards \cup WriteGuards

(* A guard stands for its permits: a writer's for all of them. *)
LEMMA HolderWeight ==
    ASSUME IInv, NEW c \in Clients, pc[c] = "held"
    PROVE  /\ weight[c] \in Nat /\ weight[c] > 0
           /\ request[c] = WriteRequest => weight[c] = MaxPermits
<1>1. weight[c] = want(c) /\ want(c) > 0 /\ want(c) = request[c].want
  BY DEF IInv, LocalInv, Local, want
<1>2. weight[c] \in Nat
  BY DEF IInv, Shapes
<1>3. WriteRequest.want = MaxPermits
  BY DEF WriteRequest
<1>4. QED
  BY <1>1, <1>2, <1>3

(* Until a write future was dropped with permits it passed on as well, a   *)
(* WriteGuard has the lock to itself and there are never more than         *)
(* MaxPermits ReadGuards, however acquires, drops and releases interleave  *)
(* (rw_lock.rs read and write over semaphore.rs).  It is so of a semaphore *)
(* whose clients make other requests besides, so of a lock's.              *)
THEOREM WriterIsAlone == Spec => []ExclusiveUntilSurplus
<1>1. IInv /\ (surplus = 0 => WeightsFit) => ExclusiveUntilSurplus
  <2> SUFFICES ASSUME IInv, WeightsFit, surplus = 0
               PROVE  Exclusive /\ Cardinality(ReadGuards) <= MaxPermits
    BY DEF ExclusiveUntilSurplus
  <2>1. ASSUME NEW w \in WriteGuards, NEW c \in Holders PROVE c = w
    <3>1. /\ w \in Clients /\ pc[w] = "held" /\ request[w] = WriteRequest
          /\ c \in Clients /\ pc[c] = "held"
      BY DEF Holders, ReadGuards, WriteGuards
    <3>2. PICK m \in Nat, n \in Nat \ {0} : weight[w] = m /\ weight[c] = n /\ m = MaxPermits
      BY <3>1, HolderWeight
    <3>3. c # w => m + n <= MaxPermits
      BY <3>1, <3>2 DEF WeightsFit
    <3>4. QED
      BY <3>2, <3>3
  <2>2. Exclusive
    <3> SUFFICES ASSUME NEW w \in WriteGuards PROVE Cardinality(Holders) = 1
      BY DEF Exclusive, Holders
    <3>1. Holders = {w}
      BY <2>1 DEF Holders
    <3>2. QED
      BY <3>1, FS_Singleton
  <2>3. ReadGuards \in SUBSET Clients /\ (\A c \in ReadGuards : weight[c] > 0)
    BY HolderWeight DEF ReadGuards
  <2>4. Cardinality(ReadGuards) <= MaxPermits
    BY <2>3 DEF WeightsFit
  <2>5. QED
    BY <2>2, <2>4
<1>2. Spec => []IInv
  BY Invariance
<1>3. Spec => [](surplus = 0 => WeightsFit)
  BY HeldFit
<1>4. QED
  BY <1>1, <1>2, <1>3, PTL
=============================================================================

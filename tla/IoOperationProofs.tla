------------------------- MODULE IoOperationProofs -------------------------
(***************************************************************************)
(* What holds of I/O operations for any number of workers, futures and     *)
(* listeners, and any bounds.                                              *)
(***************************************************************************)
EXTENDS IoOperation, TLAPS

(* The types the steps below rest on. *)
Shapes ==
    /\ keys \in [Workers -> Nat]
    /\ kind \in [Handles -> {"none", "single", "multi", "cancel"}]
    /\ place \in [Handles -> {"none", "queue", "kernel", "over"}]
    /\ cq \in [Handles -> Seq(Outcomes)]
    /\ slot \in [Handles -> {"absent", "NotCompleted", "Single", "Multi", "Draining", "Completed"}]

(* What was submitted has a key that was counted, and a kind. *)
FreshKeys ==
    \A h \in Handles : place[h] # "none" => h[2] < keys[h[1]] /\ kind[h] # "none"

(* What has not been received has no slot and no result. *)
Unreceived ==
    \A h \in Handles : place[h] \in {"none", "queue"} => slot[h] = "absent" /\ cq[h] = <<>>

(* What the kernel has is not cancelled yet, and if it has one result only *)
(* that has not been posted.                                               *)
InKernel ==
    \A h \in Handles : place[h] = "kernel" =>
        /\ kind[h] \in {"single", "multi"}
        /\ kind[h] = "single" => slot[h] = "NotCompleted" /\ cq[h] = <<>>
        /\ kind[h] = "multi" => slot[h] \in {"NotCompleted", "Multi"}
        /\ \A i \in 1 .. Len(cq[h]) : cq[h][i] # "canceled"

KInv == Shapes /\ FreshKeys /\ Unreceived /\ InKernel

LEMMA InitKInv == Init => KInv
  BY DEF Init, KInv, Shapes, FreshKeys, Unreceived, InKernel, Handles, Keys, Outcomes

(* What the actions on a submission do, one lemma each. *)
LEMMA SubmitStep ==
    ASSUME KInv, NEW w \in Workers, NEW what \in {"single", "multi", "cancel"},
           NEW whom, NEW meant, Submit(w, what, whom, meant)
    PROVE  KInv'
<1> DEFINE n == <<w, keys[w]>>
<1>1. n \in Handles
  BY IoOperationAssumption DEF KInv, Shapes, Submit, Handles, Keys
<1>2. place[n] = "none"
  BY <1>1 DEF KInv, Shapes, FreshKeys
<1>3. slot[n] = "absent" /\ cq[n] = <<>>
  BY <1>1, <1>2 DEF KInv, Unreceived
<1>4. Shapes'
  BY <1>1 DEF KInv, Shapes, Submit, NextHandle
<1>5. FreshKeys'
  BY <1>1 DEF KInv, Shapes, FreshKeys, Submit, NextHandle, Handles, Keys
<1>6. Unreceived'
  BY <1>1, <1>3 DEF KInv, Shapes, Unreceived, Submit, NextHandle
<1>7. InKernel'
  BY <1>1, <1>2 DEF KInv, Shapes, InKernel, Submit, NextHandle
<1>8. QED
  BY <1>4, <1>5, <1>6, <1>7 DEF KInv

(* A step that changes only what is with nobody any more. *)
LEMMA SettledStep ==
    ASSUME KInv, Shapes', UNCHANGED <<keys, kind>>,
           \A g \in Handles : place'[g] = place[g] \/ (place'[g] = "over" /\ place[g] # "none"),
           \A g \in Handles : place'[g] # "over" => cq'[g] = cq[g] /\ slot'[g] = slot[g]
    PROVE  KInv'
<1>1. FreshKeys'
  BY DEF KInv, FreshKeys
<1>2. Unreceived'
  BY DEF KInv, Unreceived
<1>3. InKernel'
  BY DEF KInv, InKernel
<1>4. QED
  BY <1>1, <1>2, <1>3 DEF KInv

LEMMA PostTyped ==
    ASSUME NEW f \in [Handles -> Seq(Outcomes)], NEW h, NEW r \in Outcomes
    PROVE  Post(f, h, r) \in [Handles -> Seq(Outcomes)]
<1>1. \A g \in Handles : Append(f[g], r) \in Seq(Outcomes)
  OBVIOUS
<1>2. \A g \in Handles : Post(f, h, r)[g] = IF g = h THEN Append(f[g], r) ELSE f[g]
  BY DEF Post
<1>3. Post(f, h, r) = [g \in Handles |-> Post(f, h, r)[g]]
  BY DEF Post
<1>4. QED
  BY <1>1, <1>2, <1>3

LEMMA CancelStep ==
    ASSUME KInv, NEW h \in Handles, place[h] = "queue", Cancel(h),
           slot' = [slot EXCEPT ![h] = "NotCompleted"], UNCHANGED <<keys, kind>>
    PROVE  KInv'
<1> DEFINE found == <<h[1], cancels[h][2]>>
<1>1. CASE /\ place[found] = "kernel"
           /\ place' = [place EXCEPT ![h] = "over", ![found] = "over"]
           /\ cq' = Post(Post(cq, h, "ok"), found, "canceled")
  <2>1. Shapes'
    <3>1. cq' \in [Handles -> Seq(Outcomes)]
      <4>1. Post(cq, h, "ok") \in [Handles -> Seq(Outcomes)]
        BY PostTyped DEF KInv, Shapes, Outcomes
      <4>2. QED
        BY <1>1, <4>1, PostTyped DEF Outcomes
    <3>2. QED
      BY <1>1, <3>1 DEF KInv, Shapes
  <2>2. \A g \in Handles : place'[g] = place[g] \/ (place'[g] = "over" /\ place[g] # "none")
    BY <1>1 DEF KInv, Shapes
  <2>3. \A g \in Handles : place'[g] # "over" => cq'[g] = cq[g] /\ slot'[g] = slot[g]
    BY <1>1 DEF KInv, Shapes, Post
  <2>4. QED
    BY <2>1, <2>2, <2>3, SettledStep
<1>2. CASE /\ place' = [place EXCEPT ![h] = "over"]
           /\ cq' = Post(cq, h, "error")
  <2>1. Shapes'
    BY <1>2 DEF KInv, Shapes, Post, Outcomes
  <2>2. \A g \in Handles : place'[g] = place[g] \/ (place'[g] = "over" /\ place[g] # "none")
    BY <1>2 DEF KInv, Shapes
  <2>3. \A g \in Handles : place'[g] # "over" => cq'[g] = cq[g] /\ slot'[g] = slot[g]
    BY <1>2 DEF KInv, Shapes, Post
  <2>4. QED
    BY <2>1, <2>2, <2>3, SettledStep
<1>3. QED
  BY <1>1, <1>2 DEF Cancel

LEMMA ReceiveStep == ASSUME KInv, NEW h \in Handles, Receive(h) PROVE KInv'
<1>1. /\ place[h] = "queue" /\ slot[h] = "absent" /\ cq[h] = <<>>
      /\ slot' = [slot EXCEPT ![h] = "NotCompleted"]
      /\ UNCHANGED <<keys, kind>>
  BY DEF KInv, Unreceived, Receive, submissions
<1>2. CASE kind[h] # "cancel" /\ place' = [place EXCEPT ![h] = "kernel"] /\ UNCHANGED cq
  <2>1. Shapes'
    BY <1>1, <1>2 DEF KInv, Shapes
  <2>2. kind[h] \in {"single", "multi"}
    BY <1>1, <1>2 DEF KInv, Shapes, FreshKeys
  <2>3. FreshKeys' /\ Unreceived'
    BY <1>1, <1>2 DEF KInv, Shapes, FreshKeys, Unreceived
  <2>4. InKernel'
    BY <1>1, <1>2, <2>2 DEF KInv, Shapes, InKernel
  <2>5. QED
    BY <2>1, <2>3, <2>4 DEF KInv
<1>3. CASE kind[h] = "cancel" /\ Cancel(h)
  BY <1>1, <1>3, CancelStep
<1>4. QED
  BY <1>2, <1>3 DEF Receive

LEMMA KernelPostsStep == ASSUME KInv, NEW h \in Handles, KernelPosts(h) PROVE KInv'
<1> PICK r \in {"ok", "error"} :
       /\ place' = IF kind[h] = "multi" /\ r = "ok" THEN place
                   ELSE [place EXCEPT ![h] = "over"]
       /\ cq' = Post(cq, h, r)
  BY DEF KernelPosts
<1>1. place[h] = "kernel" /\ UNCHANGED <<keys, kind, slot>>
  BY DEF KernelPosts, submissions, slots
<1>2. Shapes'
  BY <1>1 DEF KInv, Shapes, Post, Outcomes
<1>3. CASE kind[h] = "multi" /\ r = "ok"
  <2>1. cq[h] \in Seq(Outcomes) /\ cq'[h] = Append(cq[h], r)
    BY DEF KInv, Shapes, Post
  <2>2. \A i \in 1 .. Len(cq'[h]) : cq'[h][i] # "canceled"
    BY <2>1, <1>1 DEF KInv, InKernel
  <2>3. InKernel'
    BY <1>1, <1>3, <2>2 DEF KInv, Shapes, InKernel, Post
  <2>4. FreshKeys' /\ Unreceived'
    BY <1>1, <1>3 DEF KInv, Shapes, FreshKeys, Unreceived, Post
  <2>5. QED
    BY <1>2, <2>3, <2>4 DEF KInv
<1>4. CASE ~(kind[h] = "multi" /\ r = "ok")
  <2>1. \A g \in Handles : place'[g] = place[g] \/ (place'[g] = "over" /\ place[g] # "none")
    BY <1>1, <1>4 DEF KInv, Shapes
  <2>2. \A g \in Handles : place'[g] # "over" => cq'[g] = cq[g] /\ slot'[g] = slot[g]
    BY <1>1, <1>4 DEF KInv, Shapes, Post
  <2>3. QED
    BY <1>1, <1>2, <2>1, <2>2, SettledStep
<1>5. QED
  BY <1>3, <1>4

LEMMA CompleteStep == ASSUME KInv, NEW h \in Handles, Complete(h) PROVE KInv'
<1> DEFINE r == Head(cq[h])
<1>1. /\ cq[h] # <<>> /\ cq' = [cq EXCEPT ![h] = Tail(@)]
      /\ slot' = [slot EXCEPT ![h] = Completed(h, r)[1]]
      /\ UNCHANGED <<keys, kind, place>>
  BY DEF Complete, submissions
<1>2. cq[h] \in Seq(Outcomes) /\ r \in Outcomes /\ r = cq[h][1] /\ Len(cq[h]) \in Nat \ {0}
  BY <1>1 DEF KInv, Shapes
<1>3. slot'[h] = IF slot[h] = "NotCompleted"
                 THEN CASE kind[h] = "cancel" -> "Completed"
                        [] kind[h] = "single" -> "Single"
                        [] OTHER              -> "Multi"
                 ELSE IF slot[h] \in {"Multi", "Draining"}
                 THEN IF r = "canceled" THEN "Draining" ELSE slot[h]
                 ELSE "absent"
  BY <1>1 DEF KInv, Shapes, Completed
<1>4. Shapes'
  <2>1. slot'[h] \in {"absent", "NotCompleted", "Single", "Multi", "Draining", "Completed"}
    BY <1>3 DEF KInv, Shapes
  <2>2. Tail(cq[h]) \in Seq(Outcomes)
    BY <1>1, <1>2
  <2>3. QED
    BY <1>1, <2>1, <2>2 DEF KInv, Shapes
<1>5. place[h] \notin {"none", "queue"}
  BY <1>1 DEF KInv, Unreceived
<1>6. CASE place[h] = "kernel"
  <2>1. kind[h] = "multi" /\ slot[h] \in {"NotCompleted", "Multi"} /\ r # "canceled"
    BY <1>1, <1>2, <1>6 DEF KInv, InKernel
  <2>2. slot'[h] = "Multi"
    BY <1>3, <2>1
  <2>3. \A i \in 1 .. Len(cq'[h]) : cq'[h][i] # "canceled"
    <3>1. cq'[h] = Tail(cq[h])
      BY <1>1 DEF KInv, Shapes
    <3>2. \A i \in 1 .. Len(cq[h]) : cq[h][i] # "canceled"
      BY <1>6 DEF KInv, InKernel
    <3>3. QED
      BY <1>1, <1>2, <3>1, <3>2
  <2>4. InKernel'
    BY <1>1, <1>6, <2>1, <2>2, <2>3 DEF KInv, Shapes, InKernel
  <2>5. FreshKeys' /\ Unreceived'
    BY <1>1, <1>6 DEF KInv, Shapes, FreshKeys, Unreceived
  <2>6. QED
    BY <1>4, <2>4, <2>5 DEF KInv
<1>7. CASE place[h] = "over"
  <2>1. \A g \in Handles : place'[g] # "over" => cq'[g] = cq[g] /\ slot'[g] = slot[g]
    BY <1>1, <1>7 DEF KInv, Shapes
  <2>2. QED
    BY <1>1, <1>4, <2>1, SettledStep
<1>8. QED
  BY <1>5, <1>6, <1>7 DEF KInv, Shapes

LEMMA PollStep == ASSUME KInv, NEW c \in Clients, Poll(c) PROVE KInv'
<1> DEFINE h == handle[c]
<1>1. UNCHANGED <<keys, kind, place, cq>>
  BY DEF Poll, PollTooEarly, PollPending, PollSingle, PollMulti, submissions, ring
<1>2. CASE UNCHANGED slot
  <2>1. Shapes'
    BY <1>1, <1>2 DEF KInv, Shapes
  <2>2. QED
    BY <1>1, <1>2, <2>1, SettledStep
<1>3. CASE slot[h] \in {"Single", "Draining"} /\ slot' = [slot EXCEPT ![h] = "absent"]
  <2>1. Shapes'
    BY <1>1, <1>3 DEF KInv, Shapes
  <2>2. h \in Handles => place[h] = "over"
    BY <1>3, ZenonT(60) DEF KInv, Shapes, Unreceived, InKernel
  <2>3. \A g \in Handles : place'[g] # "over" => cq'[g] = cq[g] /\ slot'[g] = slot[g]
    BY <1>1, <1>3, <2>2 DEF KInv, Shapes
  <2>4. QED
    BY <1>1, <2>1, <2>3, SettledStep
<1>4. QED
  BY <1>2, <1>3 DEF Poll, PollTooEarly, PollPending, PollSingle, PollMulti, slots

LEMMA StepKInv == KInv /\ [Next]_vars => KInv'
<1> SUFFICES ASSUME KInv, [Next]_vars PROVE KInv'
  OBVIOUS
<1>1. ASSUME UNCHANGED <<keys, kind, place, cq, slot>> PROVE KInv'
  BY <1>1 DEF KInv, Shapes, FreshKeys, Unreceived, InKernel
<1>2. ASSUME NEW c \in Clients, FirstPoll(c) PROVE KInv'
  BY <1>2, SubmitStep DEF FirstPoll
<1>3. ASSUME NEW c \in Clients, Listen(c) PROVE KInv'
  BY <1>3, SubmitStep DEF Listen
<1>4. ASSUME NEW c \in Clients, DropFuture(c) PROVE KInv'
  BY <1>1, <1>4, SubmitStep DEF DropFuture, submissions, ring, slots
<1>5. ASSUME NEW c \in Clients, Refuse(c) \/ StopListening(c) \/ Rewake(c) PROVE KInv'
  BY <1>1, <1>5 DEF Refuse, StopListening, Rewake, submissions, ring, slots
<1>6. ASSUME NEW w \in Workers, OtherSubmission(w) PROVE KInv'
  <2>1. UNCHANGED <<kind, place, cq, slot>> /\ keys' = [keys EXCEPT ![w] = @ + 1]
    BY <1>6 DEF OtherSubmission, ring, slots
  <2>2. Shapes' /\ Unreceived' /\ InKernel'
    BY <2>1 DEF KInv, Shapes, Unreceived, InKernel
  <2>3. FreshKeys'
    BY <2>1 DEF KInv, Shapes, FreshKeys, Handles, Keys
  <2>4. QED
    BY <2>2, <2>3 DEF KInv
<1>7. CASE UNCHANGED vars
  BY <1>1, <1>7 DEF vars, clients, submissions, ring, slots
<1>8. QED
  BY <1>2, <1>3, <1>4, <1>5, <1>6, <1>7, ReceiveStep, KernelPostsStep, CompleteStep, PollStep
     DEF Next

(* The kernel never uses the buffers of an entry that was dropped, however *)
(* cancellations, results and polls interleave.                            *)
THEOREM EntriesOutlive == Spec => []EntryOutlivesKernel
<1>1. KInv => EntryOutlivesKernel
  BY DEF KInv, InKernel, EntryOutlivesKernel
<1>2. QED
  BY <1>1, InitKInv, StepKInv, PTL DEF Spec
-----------------------------------------------------------------------------
(* Cancellations. *)

HasCanceled(s) == \E i \in 1 .. Len(s) : s[i] = "canceled"

(* A cancellation that was sent to h's worker names h's key. *)
Hit(h) == \E g \in Handles : kind[g] = "cancel" /\ g[1] = h[1] /\ cancels[g][2] = h[2]

(* A cancellation of another operation of another worker does so. *)
Collision(h) == \E g \in Handles : /\ kind[g] = "cancel" /\ g[1] = h[1]
                                   /\ cancels[g][1] # g[1] /\ cancels[g][2] = h[2]

MoreShapes ==
    /\ phase \in [Clients -> {"new", "waiting", "answered", "gone"}]
    /\ handle \in [Clients -> Handles \cup {None}]
    /\ answers \in [Clients -> Seq(Outcomes \cup Failures)]
    /\ cancels \in [Handles -> Handles \cup {None}]
    /\ results \in [Handles -> Seq(Outcomes)]

(* Clients have handles of their own. *)
OwnHandles ==
    /\ \A c \in Clients : /\ phase[c] = "new" => handle[c] = None
                          /\ phase[c] = "waiting" => handle[c] # None
                          /\ handle[c] # None => handle[c][2] < keys[handle[c][1]]
    /\ \A c, d \in Clients : c # d /\ handle[c] # None => handle[c] # handle[d]

(* A cancellation is of a future that was dropped. *)
OfTheGone ==
    \A g \in Handles : kind[g] = "cancel" =>
        /\ place[g] # "none"
        /\ \E c \in Futures : handle[c] # None /\ cancels[g] = handle[c] /\ phase[c] = "gone"

Traced == \A h \in Handles : HasCanceled(cq[h]) \/ HasCanceled(results[h]) => Hit(h)

Innocent == \A c \in Clients : HasCanceled(answers[c]) => handle[c] # None /\ Collision(handle[c])

CInv == KInv /\ MoreShapes /\ OwnHandles /\ OfTheGone /\ Traced /\ Innocent

LEMMA InitCInv == Init => CInv
<1> SUFFICES ASSUME Init PROVE CInv
  OBVIOUS
<1>1. KInv
  BY InitKInv
<1>2. MoreShapes /\ OwnHandles /\ OfTheGone
  BY DEF Init, MoreShapes, OwnHandles, OfTheGone, Outcomes, Failures
<1>3. ~HasCanceled(<<>>)
  BY DEF HasCanceled
<1>4. Traced /\ Innocent
  BY <1>3 DEF Init, Traced, Innocent
<1>5. QED
  BY <1>1, <1>2, <1>4 DEF CInv

(* Somebody who waits and is told of a cancellation was hit by another's. *)
LEMMA HitIsCollision ==
    ASSUME CInv, NEW c \in Clients, phase[c] = "waiting", HasCanceled(results[handle[c]])
    PROVE  Collision(handle[c])
<1>1. handle[c] \in Handles /\ handle[c] # None
  BY DEF CInv, MoreShapes, OwnHandles
<1> PICK g \in Handles : /\ kind[g] = "cancel" /\ g[1] = handle[c][1]
                         /\ cancels[g][2] = handle[c][2]
  BY <1>1 DEF CInv, Traced, Hit
<1> PICK d \in Futures : handle[d] # None /\ cancels[g] = handle[d] /\ phase[d] = "gone"
  BY DEF CInv, OfTheGone
<1>2. handle[d] # handle[c] /\ handle[d] \in Handles
  BY <1>1 DEF CInv, MoreShapes, OwnHandles, Clients
<1>3. handle[d][1] # handle[c][1]
  BY <1>1, <1>2 DEF Handles
<1>4. QED
  BY <1>3 DEF Collision

(* A step that submits nothing and makes nothing new of clients. *)
LEMMA QuietStep ==
    ASSUME CInv, KInv', MoreShapes', UNCHANGED <<keys, kind, cancels, handle>>,
           \A c \in Clients : \/ phase'[c] = phase[c]
                              \/ phase'[c] \in {"answered", "gone"} /\ phase[c] # "gone",
           \A h \in Handles : place[h] # "none" => place'[h] # "none",
           Traced', Innocent'
    PROVE  CInv'
<1>1. OwnHandles'
  BY DEF CInv, MoreShapes, OwnHandles
<1>2. OfTheGone'
  BY DEF CInv, OfTheGone, Clients
<1>3. QED
  BY <1>1, <1>2 DEF CInv

(* The hits there were remain when nothing is submitted. *)
LEMMA HitsRemain ==
    ASSUME UNCHANGED <<kind, cancels>>
    PROVE  \A h : (Hit(h) => Hit(h)') /\ (Collision(h) => Collision(h)')
  BY DEF Hit, Collision

(* Whoever is told of a cancellation was told before, or was just hit. *)
LEMMA InnocentStep ==
    ASSUME CInv, UNCHANGED handle, \A h : Collision(h) => Collision(h)',
           \A c \in Clients : HasCanceled(answers'[c]) =>
               \/ HasCanceled(answers[c])
               \/ phase[c] = "waiting" /\ HasCanceled(results[handle[c]])
    PROVE  Innocent'
<1> SUFFICES ASSUME NEW c \in Clients, HasCanceled(answers'[c])
             PROVE  handle[c] # None /\ Collision(handle[c])
  BY DEF Innocent, HasCanceled
<1>1. CASE HasCanceled(answers[c])
  BY <1>1 DEF CInv, Innocent
<1>2. CASE phase[c] = "waiting" /\ HasCanceled(results[handle[c]])
  BY <1>2, HitIsCollision DEF CInv, OwnHandles
<1>3. QED
  BY <1>1, <1>2

LEMMA TracedStep ==
    ASSUME CInv, \A h : Hit(h) => Hit(h)',
           \A h \in Handles : \/ HasCanceled(cq'[h]) => HasCanceled(cq[h]) \/ HasCanceled(results[h])
                              \/ Hit(h)',
           \A h \in Handles : HasCanceled(results'[h]) => HasCanceled(cq[h]) \/ HasCanceled(results[h])
    PROVE  Traced'
<1> SUFFICES ASSUME NEW h \in Handles, HasCanceled(cq'[h]) \/ HasCanceled(results'[h])
             PROVE  Hit(h)'
  BY DEF Traced, HasCanceled
<1>1. HasCanceled(cq[h]) \/ HasCanceled(results[h]) => Hit(h)'
  BY DEF CInv, Traced
<1>2. QED
  BY <1>1

LEMMA CanceledAppended ==
    ASSUME NEW S, NEW s \in Seq(S), NEW r \in S, HasCanceled(Append(s, r))
    PROVE  r = "canceled" \/ HasCanceled(s)
  BY DEF HasCanceled

LEMMA CanceledTail ==
    ASSUME NEW S, NEW s \in Seq(S), s # <<>>
    PROVE  /\ HasCanceled(Tail(s)) => HasCanceled(s)
           /\ Head(s) = "canceled" => HasCanceled(s)
<1>1. Len(s) \in Nat \ {0} /\ Len(Tail(s)) = Len(s) - 1 /\ Head(s) = s[1]
      /\ \A i \in 1 .. Len(Tail(s)) : Tail(s)[i] = s[i + 1]
  OBVIOUS
<1>2. ASSUME NEW i \in 1 .. Len(Tail(s)), Tail(s)[i] = "canceled" PROVE HasCanceled(s)
  <2>1. i + 1 \in 1 .. Len(s) /\ s[i + 1] = "canceled"
    BY <1>1, <1>2
  <2>2. QED
    BY <2>1 DEF HasCanceled
<1>3. Head(s) = "canceled" => HasCanceled(s)
  BY <1>1 DEF HasCanceled
<1>4. QED
  BY <1>2, <1>3 DEF HasCanceled

LEMMA SequenceTypes ==
    ASSUME NEW S, NEW s \in Seq(S), NEW r \in S
    PROVE  /\ <<>> \in Seq(S) /\ <<r>> \in Seq(S) /\ Append(s, r) \in Seq(S)
           /\ s # <<>> => Tail(s) \in Seq(S) /\ Head(s) \in S
  OBVIOUS

LEMMA NothingCanceled == /\ ~HasCanceled(<<>>) /\ ~HasCanceled(<<"lost">>)
                         /\ ~HasCanceled(<<"refused">>)
  BY DEF HasCanceled

(* A submission, by a client whose handle it becomes or by somebody else. *)
LEMMA SubmitCInv ==
    ASSUME CInv, NEW w \in Workers, NEW what \in {"single", "multi", "cancel"}, NEW whom,
           NEW meant \in Handles \cup {None}, Submit(w, what, whom, meant),
           UNCHANGED answers, phase' \in [Clients -> {"new", "waiting", "answered", "gone"}],
           \/ /\ what # "cancel"
              /\ \E c \in Clients : /\ phase[c] = "new"
                                    /\ phase' = [phase EXCEPT ![c] = "waiting"]
                                    /\ handle' = [handle EXCEPT ![c] = NextHandle(w)]
           \/ /\ what = "cancel" /\ UNCHANGED handle
              /\ \E c \in Futures : /\ meant = handle[c] /\ meant # None
                                    /\ phase[c] # "new"
                                    /\ phase' = [phase EXCEPT ![c] = "gone"]
    PROVE  CInv'
<1> DEFINE n == NextHandle(w)
<1>1. n \in Handles /\ n # None /\ n[1] = w /\ n[2] = keys[w] /\ keys[w] \in Nat
  BY IoOperationAssumption DEF CInv, KInv, Shapes, Submit, NextHandle, Handles, Keys, None
<1>2. place[n] = "none"
  BY <1>1 DEF CInv, KInv, Shapes, FreshKeys
<1>3. KInv'
  BY SubmitStep DEF CInv
<1>4. MoreShapes'
  BY <1>1, ZenonT(60) DEF CInv, MoreShapes, Submit
<1>5. \A g \in Handles : kind[g] = "cancel" => g # n
  BY <1>2 DEF CInv, OfTheGone
<1>6. \A g \in Handles \ {n} : kind'[g] = kind[g] /\ cancels'[g] = cancels[g] /\ place'[g] = place[g]
  BY <1>1 DEF Submit, CInv, KInv, Shapes, MoreShapes
<1>7. \A h : (Hit(h) => Hit(h)') /\ (Collision(h) => Collision(h)')
  BY <1>5, <1>6 DEF Hit, Collision
<1>8. Traced'
  BY <1>7 DEF CInv, Traced, Submit, HasCanceled
<1>9. \A v \in Workers : keys[v] \in Nat /\ keys'[v] \in Nat /\ keys'[v] >= keys[v]
  BY DEF Submit, CInv, KInv, Shapes
<1>10. keys'[w] = keys[w] + 1
  BY DEF Submit, CInv, KInv, Shapes
<1>11. \A d \in Clients : handle[d] # None => handle[d] # n
  BY <1>1 DEF CInv, OwnHandles
<1>12. CASE /\ what # "cancel"
            /\ \E c \in Clients : /\ phase[c] = "new"
                                  /\ phase' = [phase EXCEPT ![c] = "waiting"]
                                  /\ handle' = [handle EXCEPT ![c] = NextHandle(w)]
  <2> PICK c \in Clients : /\ phase[c] = "new"
                           /\ phase' = [phase EXCEPT ![c] = "waiting"]
                           /\ handle' = [handle EXCEPT ![c] = n]
    BY <1>12
  <2>1. handle[c] = None /\ handle'[c] = n /\ phase'[c] = "waiting"
    BY DEF CInv, MoreShapes, OwnHandles
  <2>2. \A d \in Clients \ {c} : handle'[d] = handle[d] /\ phase'[d] = phase[d]
    BY DEF CInv, MoreShapes
  <2>3. \A d \in Clients : handle[d] # None => handle[d] \in Handles
    BY DEF CInv, MoreShapes
  <2>4. \A d \in Clients : handle'[d] # None => handle'[d][2] < keys'[handle'[d][1]]
    <3> SUFFICES ASSUME NEW d \in Clients, handle'[d] # None
                 PROVE  handle'[d][2] < keys'[handle'[d][1]]
      OBVIOUS
    <3>1. CASE d = c
      BY <1>1, <1>10, <2>1, <3>1
    <3>2. CASE d # c
      <4>1. handle[d][2] < keys[handle[d][1]] /\ handle[d][1] \in Workers /\ handle[d][2] \in Nat
        BY <2>2, <2>3, <3>2 DEF CInv, OwnHandles, Handles, Keys
      <4>2. QED
        BY <1>9, <2>2, <3>2, <4>1
    <3>3. QED
      BY <3>1, <3>2
  <2>5. OwnHandles'
    BY <1>1, <1>11, <2>1, <2>2, <2>4 DEF CInv, OwnHandles
  <2>6. kind'[n] # "cancel"
    BY <1>1, <1>12 DEF Submit, CInv, KInv, Shapes
  <2>7. OfTheGone'
    BY <1>6, <2>1, <2>2, <2>6 DEF CInv, OfTheGone, Clients
  <2>8. Innocent'
    BY <1>7, <2>1, <2>2 DEF CInv, Innocent, HasCanceled
  <2>9. QED
    BY <1>3, <1>4, <1>8, <2>5, <2>7, <2>8 DEF CInv
<1>13. CASE /\ what = "cancel" /\ UNCHANGED handle
            /\ \E c \in Futures : /\ meant = handle[c] /\ meant # None
                                  /\ phase[c] # "new"
                                  /\ phase' = [phase EXCEPT ![c] = "gone"]
  <2> PICK c \in Futures : /\ meant = handle[c] /\ meant # None
                           /\ phase[c] # "new"
                           /\ phase' = [phase EXCEPT ![c] = "gone"]
    BY <1>13
  <2>1. c \in Clients /\ phase'[c] = "gone" /\ \A d \in Clients \ {c} : phase'[d] = phase[d]
    BY DEF Clients, CInv, MoreShapes
  <2>2. \A d \in Clients : handle[d] # None => handle[d][2] < keys'[handle[d][1]]
    <3> SUFFICES ASSUME NEW d \in Clients, handle[d] # None
                 PROVE  handle[d][2] < keys'[handle[d][1]]
      OBVIOUS
    <3>1. handle[d][2] < keys[handle[d][1]] /\ handle[d][1] \in Workers /\ handle[d][2] \in Nat
      BY DEF CInv, MoreShapes, OwnHandles, Handles, Keys
    <3>2. QED
      BY <1>9, <3>1
  <2>3. OwnHandles'
    BY <1>13, <2>1, <2>2 DEF CInv, OwnHandles
  <2>4. place'[n] = "queue" /\ cancels'[n] = handle[c]
    BY <1>1 DEF Submit, CInv, KInv, Shapes, MoreShapes
  <2>5. OfTheGone'
    BY <1>6, <1>13, <2>1, <2>4 DEF CInv, OfTheGone, Clients
  <2>6. Innocent'
    BY <1>7, <1>13 DEF CInv, Innocent, HasCanceled
  <2>7. QED
    BY <1>3, <1>4, <1>8, <2>3, <2>5, <2>6 DEF CInv
<1>14. QED
  BY <1>12, <1>13

LEMMA ReceiveCInv == ASSUME CInv, NEW h \in Handles, Receive(h) PROVE CInv'
<1> DEFINE found == <<h[1], cancels[h][2]>>
<1>1. KInv'
  BY ReceiveStep DEF CInv
<1>2. /\ place[h] = "queue"
      /\ UNCHANGED <<phase, handle, answers, keys, kind, cancels, results>>
  BY DEF Receive, clients, submissions
<1>3. \A g \in Handles : place[g] # "none" => place'[g] # "none"
  BY DEF Receive, Cancel, CInv, KInv, Shapes
<1>4. \A g : (Hit(g) => Hit(g)') /\ (Collision(g) => Collision(g)')
  BY <1>2, HitsRemain
<1>5. CASE UNCHANGED cq
  <2>1. Traced'
    BY <1>2, <1>4, <1>5 DEF CInv, Traced, HasCanceled
  <2>2. QED
    BY <1>1, <1>2, <1>3, <1>4, <2>1, InnocentStep, QuietStep DEF MoreShapes, CInv
<1>6. CASE kind[h] = "cancel" /\ Cancel(h)
  <2>1. \A g \in Handles : cq[g] \in Seq(Outcomes)
    BY DEF CInv, KInv, Shapes
  <2>2. \A g \in Handles : (HasCanceled(cq'[g]) => HasCanceled(cq[g])) \/ Hit(g)'
    <3> SUFFICES ASSUME NEW g \in Handles, HasCanceled(cq'[g]) PROVE HasCanceled(cq[g]) \/ Hit(g)'
      OBVIOUS
    <3>1. CASE cq' = Post(Post(cq, h, "ok"), found, "canceled") /\ g = found
      BY <1>2, <1>6, <3>1 DEF Hit
    <3>2. CASE cq' = Post(Post(cq, h, "ok"), found, "canceled") /\ g # found
      <4>1. cq'[g] = IF g = h THEN Append(cq[g], "ok") ELSE cq[g]
        BY <3>2 DEF Post, CInv, KInv, Shapes
      <4>2. QED
        BY <2>1, <4>1, CanceledAppended DEF Outcomes
    <3>3. CASE cq' = Post(cq, h, "error")
      <4>1. cq'[g] = IF g = h THEN Append(cq[g], "error") ELSE cq[g]
        BY <3>3 DEF Post, CInv, KInv, Shapes
      <4>2. QED
        BY <2>1, <4>1, CanceledAppended DEF Outcomes
    <3>4. QED
      BY <1>6, <3>1, <3>2, <3>3 DEF Cancel
  <2>3. Traced'
    BY <1>2, <1>4, <2>2, TracedStep
  <2>4. QED
    BY <1>1, <1>2, <1>3, <1>4, <2>3, InnocentStep, QuietStep DEF MoreShapes, CInv
<1>7. QED
  BY <1>5, <1>6 DEF Receive

LEMMA KernelPostsCInv == ASSUME CInv, NEW h \in Handles, KernelPosts(h) PROVE CInv'
<1> PICK r \in {"ok", "error"} :
       /\ place' = IF kind[h] = "multi" /\ r = "ok" THEN place
                   ELSE [place EXCEPT ![h] = "over"]
       /\ cq' = Post(cq, h, r)
  BY DEF KernelPosts
<1>1. KInv'
  BY KernelPostsStep DEF CInv
<1>2. UNCHANGED <<phase, handle, answers, keys, kind, cancels, results>>
  BY DEF KernelPosts, clients, submissions, slots
<1>3. \A g \in Handles : place[g] # "none" => place'[g] # "none"
  BY DEF CInv, KInv, Shapes
<1>4. \A g : (Hit(g) => Hit(g)') /\ (Collision(g) => Collision(g)')
  BY <1>2, HitsRemain
<1>5. \A g \in Handles : HasCanceled(cq'[g]) => HasCanceled(cq[g])
  <2> SUFFICES ASSUME NEW g \in Handles, HasCanceled(cq'[g]) PROVE HasCanceled(cq[g])
    OBVIOUS
  <2>1. cq[g] \in Seq(Outcomes) /\ cq'[g] = IF g = h THEN Append(cq[g], r) ELSE cq[g]
    BY DEF Post, CInv, KInv, Shapes
  <2>2. QED
    BY <2>1, CanceledAppended DEF Outcomes
<1>6. Traced'
  BY <1>2, <1>4, <1>5, TracedStep
<1>7. QED
  BY <1>1, <1>2, <1>3, <1>4, <1>6, InnocentStep, QuietStep DEF MoreShapes, CInv

LEMMA CompleteCInv == ASSUME CInv, NEW h \in Handles, Complete(h) PROVE CInv'
<1> DEFINE r == Head(cq[h])
<1>1. KInv'
  BY CompleteStep DEF CInv
<1>2. /\ cq[h] # <<>> /\ cq' = [cq EXCEPT ![h] = Tail(@)]
      /\ results' = [results EXCEPT ![h] = Completed(h, r)[2]]
      /\ UNCHANGED <<phase, handle, answers, keys, kind, cancels, place>>
  BY DEF Complete, submissions
<1>3. cq[h] \in Seq(Outcomes) /\ results[h] \in Seq(Outcomes) /\ r \in Outcomes
  BY <1>2 DEF CInv, KInv, Shapes, MoreShapes
<1>4. \/ results'[h] = <<>>
      \/ results'[h] = <<r>>
      \/ results'[h] = Append(results[h], r)
  BY <1>2 DEF Completed, CInv, MoreShapes
<1>5. \A g \in Handles \ {h} : cq'[g] = cq[g] /\ results'[g] = results[g]
  BY <1>2 DEF CInv, KInv, Shapes, MoreShapes
<1>6. MoreShapes'
  <2>1. results'[h] \in Seq(Outcomes)
    BY <1>3, <1>4, SequenceTypes
  <2>2. QED
    BY <1>2, <2>1 DEF CInv, MoreShapes
<1>7. cq'[h] = Tail(cq[h])
  BY <1>2 DEF CInv, KInv, Shapes
<1>8. r = "canceled" => HasCanceled(cq[h])
  BY <1>2, <1>3, CanceledTail
<1>9. HasCanceled(cq'[h]) => HasCanceled(cq[h])
  BY <1>2, <1>3, <1>7, CanceledTail
<1>10. HasCanceled(results'[h]) => r = "canceled" \/ HasCanceled(results[h])
  <2>1. CASE results'[h] = <<>>
    BY <2>1, NothingCanceled
  <2>2. CASE results'[h] = <<r>>
    BY <2>2 DEF HasCanceled
  <2>3. CASE results'[h] = Append(results[h], r)
    BY <1>3, <2>3, CanceledAppended
  <2>4. QED
    BY <1>4, <2>1, <2>2, <2>3
<1>11. \A g : (Hit(g) => Hit(g)') /\ (Collision(g) => Collision(g)')
  BY <1>2, HitsRemain
<1>12. Traced'
  BY <1>5, <1>8, <1>9, <1>10, <1>11, TracedStep
<1>13. QED
  BY <1>1, <1>2, <1>6, <1>11, <1>12, InnocentStep, QuietStep

LEMMA PollCInv == ASSUME CInv, NEW c \in Clients, Poll(c) PROVE CInv'
<1> DEFINE h == handle[c]
<1>1. KInv'
  BY PollStep DEF CInv
<1>2. phase[c] = "waiting" /\ UNCHANGED <<handle, keys, kind, cancels, place, cq>>
  BY DEF Poll, Polled, PollTooEarly, PollPending, PollSingle, PollMulti, submissions, ring
<1>3. h \in Handles /\ results[h] \in Seq(Outcomes) /\ answers[c] \in Seq(Outcomes \cup Failures)
  BY <1>2 DEF CInv, MoreShapes, OwnHandles
<1>4. \/ UNCHANGED <<answers, results>> /\ phase' = phase
      \/ /\ UNCHANGED results /\ phase' = [phase EXCEPT ![c] = "answered"]
         /\ answers' = [answers EXCEPT ![c] = <<"lost">>]
      \/ /\ results' = [results EXCEPT ![h] = <<>>]
         /\ phase' = [phase EXCEPT ![c] = "answered"]
         /\ answers' = [answers EXCEPT ![c] = results[h]]
      \/ /\ results[h] # <<>> /\ results' = [results EXCEPT ![h] = Tail(@)]
         /\ phase' = phase
         /\ answers' = [answers EXCEPT ![c] = Append(@, Head(results[h]))]
  BY DEF Poll, PollTooEarly, PollPending, PollSingle, PollMulti, slots
<1>5. \A g \in Handles \ {h} : results'[g] = results[g]
  BY <1>4 DEF CInv, MoreShapes
<1>6. results'[h] \in Seq(Outcomes) /\ (HasCanceled(results'[h]) => HasCanceled(results[h]))
  <2>1. \/ results'[h] = results[h]
        \/ results'[h] = <<>>
        \/ results[h] # <<>> /\ results'[h] = Tail(results[h])
    BY <1>3, <1>4 DEF CInv, MoreShapes
  <2>2. "ok" \in Outcomes
    BY DEF Outcomes
  <2>3. results'[h] \in Seq(Outcomes)
    BY <1>3, <2>1, <2>2, SequenceTypes
  <2>4. HasCanceled(results'[h]) => HasCanceled(results[h])
    BY <1>3, <2>1, NothingCanceled, CanceledTail
  <2>5. QED
    BY <2>3, <2>4
<1>7. \A d \in Clients \ {c} : answers'[d] = answers[d] /\ phase'[d] = phase[d]
  BY <1>4 DEF CInv, MoreShapes
<1>8. \/ answers'[c] = answers[c]
      \/ answers'[c] = <<"lost">>
      \/ answers'[c] = results[h]
      \/ results[h] # <<>> /\ answers'[c] = Append(answers[c], Head(results[h]))
  BY <1>4 DEF CInv, MoreShapes
<1>9. \/ ~HasCanceled(answers'[c])
      \/ HasCanceled(answers[c])
      \/ HasCanceled(results[h])
  <2>1. CASE results[h] # <<>> /\ answers'[c] = Append(answers[c], Head(results[h]))
    <3>1. Head(results[h]) \in Outcomes \cup Failures
      BY <1>3, <2>1
    <3>2. HasCanceled(answers'[c]) => Head(results[h]) = "canceled" \/ HasCanceled(answers[c])
      BY <1>3, <2>1, <3>1, CanceledAppended
    <3>3. QED
      BY <1>3, <2>1, <3>2, CanceledTail
  <2>2. QED
    BY <1>8, <2>1, NothingCanceled
<1>10. MoreShapes'
  <2>1. answers'[c] \in Seq(Outcomes \cup Failures)
    <3>1. results[h] \in Seq(Outcomes \cup Failures)
      BY <1>3
    <3>2. results[h] # <<>> => Head(results[h]) \in Outcomes \cup Failures
      BY <3>1
    <3>3. "lost" \in Outcomes \cup Failures
      BY DEF Failures
    <3>4. QED
      BY <1>3, <1>8, <3>1, <3>2, <3>3, SequenceTypes
  <2>2. answers' = [answers EXCEPT ![c] = answers'[c]]
    BY <1>4, <1>7 DEF CInv, MoreShapes
  <2>3. results' = [results EXCEPT ![h] = results'[h]]
    BY <1>3, <1>4 DEF CInv, MoreShapes
  <2>4. phase' \in [Clients -> {"new", "waiting", "answered", "gone"}]
    BY <1>4 DEF CInv, MoreShapes
  <2>5. QED
    BY <1>2, <1>6, <2>1, <2>2, <2>3, <2>4 DEF CInv, MoreShapes
<1>11. \A g : (Hit(g) => Hit(g)') /\ (Collision(g) => Collision(g)')
  BY <1>2, HitsRemain
<1>12. Traced'
  BY <1>2, <1>5, <1>6, <1>11, TracedStep
<1>13. Innocent'
  BY <1>2, <1>7, <1>9, <1>11, InnocentStep
<1>14. phase'[c] \in {phase[c], "answered"}
  BY <1>4 DEF CInv, MoreShapes
<1>15. QED
  BY <1>1, <1>2, <1>7, <1>10, <1>12, <1>13, <1>14, QuietStep

(* A step of a client that submits nothing. *)
LEMMA ClientCInv ==
    ASSUME CInv, NEW c \in Clients, phase[c] # "gone",
           UNCHANGED <<keys, kind, cancels, handle, place, cq, slot, results>>,
           \/ UNCHANGED phase
           \/ phase' = [phase EXCEPT ![c] = "gone"]
           \/ phase' = [phase EXCEPT ![c] = "answered"],
           \/ UNCHANGED answers
           \/ answers' = [answers EXCEPT ![c] = <<"refused">>]
    PROVE  CInv'
<1>1. KInv'
  BY DEF CInv, KInv, Shapes, FreshKeys, Unreceived, InKernel
<1>2. <<"refused">> \in Seq(Outcomes \cup Failures)
  BY DEF Failures
<1>3. MoreShapes'
  BY <1>2, ZenonT(60) DEF CInv, MoreShapes
<1>4. \A h : (Hit(h) => Hit(h)') /\ (Collision(h) => Collision(h)')
  BY HitsRemain
<1>5. Traced'
  BY <1>4, TracedStep
<1>6. \A d \in Clients : HasCanceled(answers'[d]) => HasCanceled(answers[d])
  BY NothingCanceled DEF CInv, MoreShapes
<1>7. Innocent'
  BY <1>4, <1>6, InnocentStep
<1>8. \A d \in Clients : \/ phase'[d] = phase[d]
                         \/ phase'[d] \in {"answered", "gone"} /\ phase[d] # "gone"
  BY DEF CInv, MoreShapes
<1>9. QED
  BY <1>1, <1>3, <1>5, <1>7, <1>8, QuietStep

LEMMA StepCInv == CInv /\ [Next]_vars => CInv'
<1> SUFFICES ASSUME CInv, [Next]_vars PROVE CInv'
  OBVIOUS
<1>1. ASSUME UNCHANGED <<phase, handle, answers, kind, cancels, place, cq, slot, results>>,
             KInv', \A w \in Workers : keys'[w] >= keys[w] /\ keys'[w] \in Nat
      PROVE  CInv'
  <2>1. MoreShapes' /\ OfTheGone'
    BY <1>1 DEF CInv, MoreShapes, OfTheGone
  <2>2. \A c \in Clients : handle[c] # None => handle[c][2] < keys'[handle[c][1]]
    <3> SUFFICES ASSUME NEW c \in Clients, handle[c] # None
                 PROVE  handle[c][2] < keys'[handle[c][1]]
      OBVIOUS
    <3>1. /\ handle[c][2] < keys[handle[c][1]] /\ handle[c][1] \in Workers
          /\ handle[c][2] \in Nat /\ keys[handle[c][1]] \in Nat
      BY DEF CInv, KInv, Shapes, MoreShapes, OwnHandles, Handles, Keys
    <3>2. QED
      BY <1>1, <3>1
  <2>3. OwnHandles'
    BY <1>1, <2>2 DEF CInv, OwnHandles
  <2>4. \A h : (Hit(h) => Hit(h)') /\ (Collision(h) => Collision(h)')
    BY <1>1, HitsRemain
  <2>5. Traced' /\ Innocent'
    BY <1>1, <2>4, TracedStep, InnocentStep
  <2>6. QED
    BY <1>1, <2>1, <2>3, <2>5 DEF CInv
<1>2. KInv'
  BY StepKInv DEF CInv
<1>3. ASSUME NEW c \in Clients, FirstPoll(c) \/ Listen(c) PROVE CInv'
  <2> PICK w \in Workers, what \in {"single", "multi"}, whom \in {{c}, {}} :
         /\ Submit(w, what, whom, None)
         /\ handle' = [handle EXCEPT ![c] = NextHandle(w)]
    BY <1>3 DEF FirstPoll, Listen
  <2>1. phase[c] = "new" /\ phase' = [phase EXCEPT ![c] = "waiting"] /\ UNCHANGED answers
    BY <1>3 DEF FirstPoll, Listen
  <2>2. phase' \in [Clients -> {"new", "waiting", "answered", "gone"}]
    BY <2>1 DEF CInv, MoreShapes
  <2>3. what \in {"single", "multi", "cancel"} /\ what # "cancel" /\ None \in Handles \cup {None}
    OBVIOUS
  <2>4. \E d \in Clients : /\ phase[d] = "new"
                           /\ phase' = [phase EXCEPT ![d] = "waiting"]
                           /\ handle' = [handle EXCEPT ![d] = NextHandle(w)]
    BY <2>1
  <2>5. QED
    BY <2>1, <2>2, <2>3, <2>4, SubmitCInv, ZenonT(60)
<1>4. ASSUME NEW c \in Clients, DropFuture(c) PROVE CInv'
  <2>1. /\ c \in Futures /\ phase[c] \notin {"new", "gone"}
        /\ phase' = [phase EXCEPT ![c] = "gone"] /\ UNCHANGED <<handle, answers>>
    BY <1>4 DEF DropFuture
  <2>2. ASSUME NEW w \in Workers, handle[c] # None, Submit(w, "cancel", {}, handle[c])
        PROVE  CInv'
    <3>1. phase' \in [Clients -> {"new", "waiting", "answered", "gone"}]
      BY <2>1 DEF CInv, MoreShapes
    <3>2. handle[c] \in Handles \cup {None}
      BY DEF CInv, MoreShapes
    <3>3. QED
      BY <2>1, <2>2, <3>1, <3>2, SubmitCInv
  <2>3. CASE UNCHANGED <<submissions, ring, slots>>
    BY <2>1, <2>3, ClientCInv DEF submissions, ring, slots
  <2>4. QED
    BY <1>4, <2>2, <2>3 DEF DropFuture
<1>5. ASSUME NEW c \in Clients, Refuse(c) \/ StopListening(c) \/ Rewake(c) PROVE CInv'
  BY <1>5, ClientCInv DEF Refuse, StopListening, Rewake, submissions, ring, slots
<1>6. ASSUME NEW w \in Workers, OtherSubmission(w) PROVE CInv'
  <2>1. /\ UNCHANGED <<phase, handle, answers, kind, cancels, place, cq, slot, results>>
        /\ keys' = [keys EXCEPT ![w] = @ + 1]
    BY <1>6 DEF OtherSubmission, clients, ring, slots
  <2>2. \A v \in Workers : keys'[v] >= keys[v] /\ keys'[v] \in Nat
    BY <2>1 DEF CInv, KInv, Shapes
  <2>3. QED
    BY <1>1, <1>2, <2>1, <2>2
<1>7. CASE UNCHANGED vars
  <2>1. \A v \in Workers : keys'[v] >= keys[v] /\ keys'[v] \in Nat
    BY <1>7 DEF CInv, KInv, Shapes, vars, submissions
  <2>2. QED
    BY <1>1, <1>2, <1>7, <2>1 DEF vars, clients, submissions, ring, slots
<1>8. QED
  BY <1>3, <1>4, <1>5, <1>6, <1>7, ReceiveCInv, KernelPostsCInv, CompleteCInv, PollCInv DEF Next

(* An operation somebody waits for is never cancelled, but by a dropped    *)
(* future's cancellation that went to the wrong worker                     *)
(* (WorkerIoSubmissionHandle::cancel).                                     *)
THEOREM CanceledByCollision == Spec => []CanceledOnlyByCollision
<1>1. CInv => CanceledOnlyByCollision
  <2> SUFFICES ASSUME CInv, NEW c \in Clients, "canceled" \in ToSet(answers[c])
               PROVE  \E h \in Handles : /\ kind[h] = "cancel" /\ h[1] = handle[c][1]
                                         /\ cancels[h][1] # h[1]
                                         /\ cancels[h][2] = handle[c][2]
    BY DEF CanceledOnlyByCollision
  <2>1. answers[c] \in Seq(Outcomes \cup Failures)
    BY DEF CInv, MoreShapes
  <2>2. HasCanceled(answers[c])
    BY <2>1 DEF ToSet, HasCanceled
  <2>3. QED
    BY <2>2 DEF CInv, Innocent, Collision
<1>2. QED
  BY <1>1, InitCInv, StepCInv, PTL DEF Spec

-----------------------------------------------------------------------------
(* Types. *)

(* What TypeOK says of the variables the invariants above leave out. *)
OtherShapes ==
    /\ woken \subseteq Clients
    /\ keys \in [Workers -> 0 .. MaxKeys]
    /\ posted \in [Handles -> Seq(Outcomes)]
    /\ waker \in [Handles -> SUBSET Clients]

LEMMA InitOtherShapes == Init => OtherShapes
  BY IoOperationAssumption DEF Init, OtherShapes, Outcomes

LEMMA SubmitOtherShapes ==
    ASSUME OtherShapes, NEW w \in Workers, NEW what, NEW whom \in SUBSET Clients, NEW meant,
           Submit(w, what, whom, meant), woken' \subseteq Clients
    PROVE  OtherShapes'
<1>1. waker' \in [Handles -> SUBSET Clients]
  BY DEF OtherShapes, Submit
<1>2. keys' \in [Workers -> 0 .. MaxKeys]
  BY IoOperationAssumption DEF OtherShapes, Submit
<1>3. QED
  BY <1>1, <1>2 DEF OtherShapes, Submit

LEMMA RingOtherShapes ==
    ASSUME OtherShapes, NEW h \in Handles, Receive(h) \/ KernelPosts(h)
    PROVE  OtherShapes'
<1>1. UNCHANGED <<woken, keys, waker>>
  BY DEF Receive, KernelPosts, clients, submissions, slots
<1>2. \/ UNCHANGED posted
      \/ \E r \in {"ok", "error"} : posted' = Post(posted, h, r)
      \/ \E g \in Handles \cup {<<h[1], cancels[h][2]>>} : posted' = Post(Post(posted, h, "ok"), g, "canceled")
  BY DEF Receive, Cancel, KernelPosts
<1>3. posted' \in [Handles -> Seq(Outcomes)]
  <2>1. \A r \in {"ok", "error"} : Post(posted, h, r) \in [Handles -> Seq(Outcomes)]
    BY PostTyped DEF OtherShapes, Outcomes
  <2>2. ASSUME NEW g PROVE Post(Post(posted, h, "ok"), g, "canceled") \in [Handles -> Seq(Outcomes)]
    BY <2>1, PostTyped DEF Outcomes
  <2>3. QED
    BY <1>2, <2>1, <2>2 DEF OtherShapes
<1>4. QED
  BY <1>1, <1>3 DEF OtherShapes

LEMMA StepOtherShapes == OtherShapes /\ [Next]_vars => OtherShapes'
<1> SUFFICES ASSUME OtherShapes, [Next]_vars PROVE OtherShapes'
  OBVIOUS
<1>1. ASSUME NEW c \in Clients, FirstPoll(c) \/ Listen(c) PROVE OtherShapes'
  <2>1. PICK w \in Workers, what \in {"single", "multi"}, whom \in {{c}, {}} : Submit(w, what, whom, None)
    BY <1>1 DEF FirstPoll, Listen
  <2>2. woken' \subseteq Clients
    BY <1>1 DEF OtherShapes, FirstPoll, Listen
  <2>3. QED
    BY <2>1, <2>2, SubmitOtherShapes
<1>2. ASSUME NEW c \in Clients, DropFuture(c) \/ Refuse(c) \/ StopListening(c) \/ Rewake(c)
      PROVE  OtherShapes'
  <2>1. woken' \subseteq Clients
    BY <1>2 DEF OtherShapes, DropFuture, Refuse, StopListening, Rewake
  <2>2. CASE UNCHANGED <<submissions, ring, slots>>
    BY <2>1, <2>2 DEF OtherShapes, submissions, ring, slots
  <2>3. CASE \E w \in Workers : Submit(w, "cancel", {}, handle[c])
    BY <2>1, <2>3, SubmitOtherShapes
  <2>4. QED
    BY <1>2, <2>2, <2>3 DEF DropFuture, Refuse, StopListening, Rewake
<1>3. ASSUME NEW c \in Clients, Poll(c) PROVE OtherShapes'
  BY <1>3 DEF OtherShapes, Poll, PollTooEarly, PollPending, PollSingle, PollMulti,
              submissions, ring, slots
<1>4. ASSUME NEW h \in Handles, Receive(h) \/ KernelPosts(h) PROVE OtherShapes'
  BY <1>4, RingOtherShapes
<1>5. ASSUME NEW h \in Handles, Complete(h) PROVE OtherShapes'
  BY <1>5 DEF OtherShapes, Complete, submissions
<1>6. ASSUME NEW w \in Workers, OtherSubmission(w) PROVE OtherShapes'
  BY <1>6, IoOperationAssumption DEF OtherShapes, OtherSubmission, clients, ring, slots
<1>7. CASE UNCHANGED vars
  BY <1>7 DEF OtherShapes, vars, clients, submissions, ring, slots
<1>8. QED
  BY <1>1, <1>2, <1>3, <1>4, <1>5, <1>6, <1>7 DEF Next

(* Every variable keeps its type, the keys their bound, for any number of  *)
(* workers, futures and listeners (KeyGenerator::get, IoCompletionState).  *)
THEOREM TypeCorrect == Spec => []TypeOK
<1>1. CInv /\ OtherShapes => TypeOK
  BY DEF CInv, MoreShapes, KInv, Shapes, OtherShapes, TypeOK
<1>2. QED
  BY <1>1, InitCInv, StepCInv, InitOtherShapes, StepOtherShapes, PTL DEF Spec

-----------------------------------------------------------------------------
(* What became of the results. *)

(* Of a submission: what was not received has none; its state says how     *)
(* many there may be and where; a cancellation is the last of them.        *)
SlotRules(h) ==
    /\ place[h] \in {"none", "queue"} => posted[h] = <<>> /\ results[h] = <<>>
    /\ kind[h] # "cancel" =>
         /\ slot[h] # "Completed"
         /\ kind[h] = "single" => slot[h] \notin {"Multi", "Draining"}
         /\ kind[h] = "multi" => slot[h] # "Single"
         /\ slot[h] \in {"absent", "Single", "Draining"} => cq[h] = <<>>
         /\ slot[h] \in {"absent", "NotCompleted"} => results[h] = <<>>
         /\ kind[h] = "single" => Len(cq[h]) <= 1
         /\ slot[h] = "Single" => Len(results[h]) = 1
         /\ \A i \in 1 .. Len(cq[h]) : cq[h][i] = "canceled" => i = Len(cq[h])

(* Of a client: the results of its submission are told, or in the slot, or *)
(* on their way, and a future is told one at most.                         *)
ClientRules(c) ==
    /\ phase[c] = "new" => answers[c] = <<>>
    /\ c \in Futures /\ phase[c] = "waiting" => answers[c] = <<>>
    /\ c \in Listeners => answers[c] \in Seq(Outcomes)
    /\ handle[c] # None =>
         /\ kind[handle[c]] = IF c \in Futures THEN "single" ELSE "multi"
         /\ posted[handle[c]] = Told(c) \o results[handle[c]] \o cq[handle[c]]

RInv ==
    /\ CInv /\ OtherShapes
    /\ \A h \in Handles : SlotRules(h)
    /\ \A c \in Clients : ClientRules(c)

LEMMA Typed ==
    ASSUME RInv
    PROVE  /\ \A h \in Handles : /\ cq[h] \in Seq(Outcomes) /\ posted[h] \in Seq(Outcomes)
                                 /\ results[h] \in Seq(Outcomes)
           /\ \A c \in Clients : /\ handle[c] # None => handle[c] \in Handles
                                 /\ phase[c] = "waiting" => handle[c] # None
                                 /\ answers[c] \in Seq(Outcomes \cup Failures)
  BY DEF RInv, CInv, KInv, Shapes, MoreShapes, OtherShapes, OwnHandles

LEMMA ToldTyped == ASSUME RInv, NEW c \in Clients, handle[c] # None PROVE Told(c) \in Seq(Outcomes \cup Failures)
  BY Typed DEF Told

(* Sequences of results, taken from one and given to the next. *)
Telling == Seq(Outcomes \cup Failures)

LEMMA SameSequence ==
    ASSUME NEW S, NEW x \in Seq(S), NEW y \in Seq(S), Len(x) = Len(y),
           \A i \in 1 .. Len(x) : x[i] = y[i]
    PROVE  x = y
  OBVIOUS

LEMMA PostedLater ==
    ASSUME NEW a \in Telling, NEW b \in Telling, NEW q \in Telling, NEW r \in Outcomes
    PROVE  Append(a \o b \o q, r) = a \o b \o Append(q, r)
<1> DEFINE S == Outcomes \cup Failures
           x == Append(a \o b \o q, r)
           y == a \o b \o Append(q, r)
<1>1. x \in Seq(S) /\ y \in Seq(S) /\ Len(x) = Len(y)
  BY DEF Telling
<1>2. \A i \in 1 .. Len(x) : x[i] = y[i]
  BY DEF Telling
<1> HIDE DEF x, y
<1>3. x = y
  BY <1>1, <1>2, SameSequence
<1>4. QED
  BY <1>3 DEF x, y

LEMMA FirstOfTheSecond ==
    ASSUME NEW a \in Telling, NEW b \in Telling, NEW q \in Telling, q # <<>>
    PROVE  a \o Append(b, Head(q)) \o Tail(q) = a \o b \o q
<1> DEFINE S == Outcomes \cup Failures
           x == a \o Append(b, Head(q)) \o Tail(q)
           y == a \o b \o q
<1>1. Head(q) \in S /\ Tail(q) \in Seq(S) /\ Len(Tail(q)) = Len(q) - 1 /\ Len(q) \in Nat \ {0}
  BY DEF Telling
<1>2. x \in Seq(S) /\ y \in Seq(S) /\ Len(x) = Len(y)
  BY <1>1 DEF Telling
<1>3. \A i \in 1 .. Len(x) : x[i] = y[i]
  BY <1>1 DEF Telling
<1> HIDE DEF x, y
<1>4. x = y
  BY <1>2, <1>3, SameSequence
<1>5. QED
  BY <1>4 DEF x, y

LEMMA FirstOfTheFirst ==
    ASSUME NEW a \in Telling, NEW b \in Telling, NEW q \in Telling, b # <<>>
    PROVE  Append(a, Head(b)) \o Tail(b) \o q = a \o b \o q
<1> DEFINE S == Outcomes \cup Failures
           x == Append(a, Head(b)) \o Tail(b) \o q
           y == a \o b \o q
<1>1. Head(b) \in S /\ Tail(b) \in Seq(S) /\ Len(Tail(b)) = Len(b) - 1 /\ Len(b) \in Nat \ {0}
  BY DEF Telling
<1>2. x \in Seq(S) /\ y \in Seq(S) /\ Len(x) = Len(y)
  BY <1>1 DEF Telling
<1>3. \A i \in 1 .. Len(x) : x[i] = y[i]
  BY <1>1 DEF Telling
<1> HIDE DEF x, y
<1>4. x = y
  BY <1>2, <1>3, SameSequence
<1>5. QED
  BY <1>4 DEF x, y

LEMMA InitRInv == Init => RInv
<1> SUFFICES ASSUME Init PROVE RInv
  OBVIOUS
<1>1. \A h \in Handles : SlotRules(h)
  BY DEF Init, SlotRules
<1>2. <<>> \in Seq(Outcomes)
  OBVIOUS
<1>3. \A c \in Clients : ClientRules(c)
  BY <1>2 DEF Init, ClientRules, None
<1>4. QED
  BY <1>1, <1>3, InitCInv, InitOtherShapes DEF RInv

(* A submission no step touched. *)
LEMMA Untouched ==
    ASSUME NEW h, SlotRules(h), place'[h] = place[h], posted'[h] = posted[h],
           results'[h] = results[h], kind'[h] = kind[h], slot'[h] = slot[h], cq'[h] = cq[h]
    PROVE  SlotRules(h)'
  BY DEF SlotRules

(* A client that was told nothing, while a result of its submission was    *)
(* posted or put in its slot.                                              *)
LEMMA Carried ==
    ASSUME RInv, NEW c \in Clients, handle'[c] = handle[c], answers'[c] = answers[c],
           phase'[c] \in {phase[c], "gone"},
           handle[c] # None =>
             /\ kind'[handle[c]] = kind[handle[c]]
             /\ LET h == handle[c] IN
                \/ posted'[h] = posted[h] /\ results'[h] = results[h] /\ cq'[h] = cq[h]
                \/ /\ results'[h] = results[h]
                   /\ \E r \in Outcomes : posted'[h] = Append(posted[h], r) /\ cq'[h] = Append(cq[h], r)
                \/ /\ posted'[h] = posted[h] /\ cq[h] # <<>>
                   /\ results'[h] = Append(results[h], Head(cq[h])) /\ cq'[h] = Tail(cq[h])
    PROVE  ClientRules(c)'
<1>1. ClientRules(c)
  BY DEF RInv
<1>2. Told(c)' = Told(c)
  BY DEF Told
<1>3. ASSUME handle[c] # None
      PROVE  posted'[handle[c]] = Told(c) \o results'[handle[c]] \o cq'[handle[c]]
  <2> DEFINE h == handle[c]
  <2>1. h \in Handles /\ posted[h] = Told(c) \o results[h] \o cq[h]
    BY <1>1, <1>3, Typed DEF ClientRules
  <2>2. Told(c) \in Telling /\ results[h] \in Telling /\ cq[h] \in Telling
    BY <1>3, <2>1, Typed, ToldTyped, SMTT(30) DEF Telling
  <2>3. ASSUME NEW r \in Outcomes, posted'[h] = Append(posted[h], r), cq'[h] = Append(cq[h], r),
               results'[h] = results[h]
        PROVE  posted'[h] = Told(c) \o results'[h] \o cq'[h]
    <3>1. Append(Told(c) \o results[h] \o cq[h], r) = Told(c) \o results[h] \o Append(cq[h], r)
      BY <2>2, PostedLater, ZenonT(60)
    <3>2. QED
      BY <2>1, <2>3, <3>1
  <2>4. CASE /\ posted'[h] = posted[h] /\ cq[h] # <<>>
             /\ results'[h] = Append(results[h], Head(cq[h])) /\ cq'[h] = Tail(cq[h])
    <3>1. Told(c) \o Append(results[h], Head(cq[h])) \o Tail(cq[h]) = Told(c) \o results[h] \o cq[h]
      BY <2>2, <2>4, FirstOfTheSecond
    <3>2. QED
      BY <2>1, <2>4, <3>1
  <2>5. CASE posted'[h] = posted[h] /\ results'[h] = results[h] /\ cq'[h] = cq[h]
    BY <2>1, <2>5
  <2>6. QED
    BY <1>3, <2>3, <2>4, <2>5
<1>4. QED
  BY <1>1, <1>2, <1>3 DEF ClientRules

(* The submissions after each step. *)
LEMMA SubmitSlots ==
    ASSUME RInv, NEW w \in Workers, NEW what \in {"single", "multi", "cancel"}, NEW whom,
           NEW meant, Submit(w, what, whom, meant), NEW n, n = NextHandle(w)
    PROVE  /\ n \in Handles
           /\ UNCHANGED <<cq, posted, results>>
           /\ posted[n] = <<>> /\ results[n] = <<>> /\ cq[n] = <<>>
           /\ kind'[n] = what
           /\ \A c \in Clients : handle[c] # None =>
                 handle[c] # n /\ kind'[handle[c]] = kind[handle[c]]
           /\ \A h \in Handles : SlotRules(h)'
<1>1. n \in Handles /\ n[1] = w /\ n[2] = keys[w] /\ keys[w] \in Nat
  BY IoOperationAssumption DEF RInv, CInv, KInv, Shapes, Submit, NextHandle, Handles, Keys
<1>2. place[n] = "none"
  BY <1>1 DEF RInv, CInv, KInv, Shapes, FreshKeys
<1>3. slot[n] = "absent" /\ cq[n] = <<>> /\ posted[n] = <<>> /\ results[n] = <<>>
  BY <1>1, <1>2 DEF RInv, CInv, KInv, Unreceived, SlotRules
<1>4. UNCHANGED <<cq, posted, slot, results>>
  BY DEF Submit
<1>5. kind'[n] = what /\ \A h \in Handles \ {n} : kind'[h] = kind[h] /\ place'[h] = place[h]
  BY <1>1 DEF Submit, RInv, CInv, KInv, Shapes
<1>6. \A c \in Clients : handle[c] # None => handle[c] # n
  BY <1>1 DEF RInv, CInv, OwnHandles
<1>7. \A c \in Clients : handle[c] # None => kind'[handle[c]] = kind[handle[c]]
  BY <1>5, <1>6, Typed
<1>8. SlotRules(n)'
  BY <1>3, <1>4 DEF SlotRules
<1>9. \A h \in Handles \ {n} : SlotRules(h)'
  BY <1>4, <1>5, Untouched DEF RInv
<1>10. QED
  BY <1>1, <1>3, <1>4, <1>5, <1>6, <1>7, <1>8, <1>9

(* What the kernel has gets a result more. *)
LEMMA PostedSlot ==
    ASSUME RInv, NEW h \in Handles, place[h] = "kernel", NEW r \in Outcomes,
           place'[h] \in {"kernel", "over"}, kind'[h] = kind[h], slot'[h] = slot[h],
           results'[h] = results[h], cq'[h] = Append(cq[h], r)
    PROVE  SlotRules(h)'
<1>1. /\ kind[h] \in {"single", "multi"}
      /\ kind[h] = "single" => slot[h] = "NotCompleted" /\ cq[h] = <<>>
      /\ kind[h] = "multi" => slot[h] \in {"NotCompleted", "Multi"}
      /\ \A i \in 1 .. Len(cq[h]) : cq[h][i] # "canceled"
  BY DEF RInv, CInv, KInv, InKernel
<1>2. SlotRules(h) /\ cq[h] \in Seq(Outcomes)
  BY Typed DEF RInv
<1>3. \A i \in 1 .. Len(cq'[h]) : cq'[h][i] = "canceled" => i = Len(cq'[h])
  BY <1>1, <1>2
<1>4. kind[h] = "single" => Len(cq'[h]) <= 1
  BY <1>1
<1>5. QED
  BY <1>1, <1>2, <1>3, <1>4 DEF SlotRules

LEMMA KernelPostsRInv == ASSUME RInv, NEW h \in Handles, KernelPosts(h) PROVE RInv'
<1> PICK r \in {"ok", "error"} :
       /\ place' = IF kind[h] = "multi" /\ r = "ok" THEN place
                   ELSE [place EXCEPT ![h] = "over"]
       /\ cq' = Post(cq, h, r) /\ posted' = Post(posted, h, r)
  BY DEF KernelPosts
<1>1. place[h] = "kernel" /\ UNCHANGED <<handle, answers, phase, kind, slot, results>> /\ r \in Outcomes
  BY DEF KernelPosts, clients, submissions, slots, Outcomes
<1>2. /\ cq'[h] = Append(cq[h], r) /\ posted'[h] = Append(posted[h], r)
      /\ \A g \in Handles \ {h} : cq'[g] = cq[g] /\ posted'[g] = posted[g]
  BY DEF Post, RInv, CInv, KInv, Shapes, OtherShapes
<1>3. place'[h] \in {"kernel", "over"} /\ \A g \in Handles \ {h} : place'[g] = place[g]
  BY <1>1 DEF RInv, CInv, KInv, Shapes
<1>4. SlotRules(h)'
  BY <1>1, <1>2, <1>3, PostedSlot
<1>5. \A g \in Handles \ {h} : SlotRules(g)'
  BY <1>1, <1>2, <1>3, Untouched DEF RInv
<1>6. \A c \in Clients : ClientRules(c)'
  BY <1>1, <1>2, Carried, Typed
<1>7. CInv' /\ OtherShapes'
  BY KernelPostsCInv, RingOtherShapes DEF RInv
<1>8. QED
  BY <1>4, <1>5, <1>6, <1>7 DEF RInv

LEMMA CancelRInv ==
    ASSUME RInv, NEW h \in Handles, place[h] = "queue", kind[h] = "cancel", Cancel(h),
           slot' = [slot EXCEPT ![h] = "NotCompleted"],
           UNCHANGED <<handle, answers, phase, kind, results>>
    PROVE  (\A g \in Handles : SlotRules(g)') /\ (\A c \in Clients : ClientRules(c)')
<1> PICK found : found = <<h[1], cancels[h][2]>>
  OBVIOUS
<1>1. results[h] = <<>> /\ \A c \in Clients : handle[c] # h
  <2>1. \A c \in Clients : handle[c] # None => kind[handle[c]] # "cancel"
    BY DEF RInv, ClientRules
  <2>2. h # None
    BY DEF Handles, None
  <2>3. QED
    BY <2>1, <2>2 DEF RInv, SlotRules
<1>2. \A g \in Handles \ {h} : slot'[g] = slot[g]
  BY DEF RInv, CInv, KInv, Shapes
<1>3. CASE /\ place[found] = "kernel"
           /\ place' = [place EXCEPT ![h] = "over", ![found] = "over"]
           /\ cq' = Post(Post(cq, h, "ok"), found, "canceled")
           /\ posted' = Post(Post(posted, h, "ok"), found, "canceled")
  <2>1. found # h
    BY <1>3
  <2>2. /\ place'[h] = "over" /\ (found \in Handles => place'[found] = "over")
        /\ \A g \in Handles \ {h, found} : place'[g] = place[g]
    BY <1>3, SMTT(30) DEF RInv, CInv, KInv, Shapes
  <2>3. /\ \A g \in Handles \ {h, found} : cq'[g] = cq[g] /\ posted'[g] = posted[g]
        /\ found \in Handles => /\ cq'[found] = Append(cq[found], "canceled")
                                /\ posted'[found] = Append(posted[found], "canceled")
    BY <1>3, <2>1 DEF Post, RInv, CInv, KInv, Shapes, OtherShapes
  <2>4. SlotRules(h)'
    BY <2>2 DEF SlotRules
  <2>5. found \in Handles => SlotRules(found)'
    BY <1>2, <1>3, <2>1, <2>2, <2>3, PostedSlot, ZenonT(60) DEF Outcomes
  <2>6. \A g \in Handles \ {h, found} : SlotRules(g)'
    BY <1>2, <2>2, <2>3, Untouched DEF RInv
  <2>7. "canceled" \in Outcomes
    BY DEF Outcomes
  <2>8. \A c \in Clients : ClientRules(c)'
    BY <1>1, <2>3, <2>7, Carried, Typed, ZenonT(60)
  <2>9. QED
    BY <2>4, <2>5, <2>6, <2>8
<1>4. CASE /\ place' = [place EXCEPT ![h] = "over"]
           /\ cq' = Post(cq, h, "error") /\ posted' = Post(posted, h, "error")
  <2>1. place'[h] = "over" /\ \A g \in Handles \ {h} : /\ place'[g] = place[g] /\ cq'[g] = cq[g]
                                                       /\ posted'[g] = posted[g]
    BY <1>4 DEF Post, RInv, CInv, KInv, Shapes, OtherShapes
  <2>2. SlotRules(h)'
    BY <2>1 DEF SlotRules
  <2>3. \A g \in Handles \ {h} : SlotRules(g)'
    BY <1>2, <2>1, Untouched DEF RInv
  <2>4. \A c \in Clients : ClientRules(c)'
    BY <1>1, <2>1, Carried, Typed
  <2>5. QED
    BY <2>2, <2>3, <2>4
<1>5. QED
  BY <1>3, <1>4 DEF Cancel

LEMMA ReceiveRInv == ASSUME RInv, NEW h \in Handles, Receive(h) PROVE RInv'
<1>1. /\ place[h] = "queue" /\ slot' = [slot EXCEPT ![h] = "NotCompleted"]
      /\ UNCHANGED <<handle, answers, phase, kind, results>>
  BY DEF Receive, clients, submissions
<1>2. ASSUME kind[h] # "cancel", place' = [place EXCEPT ![h] = "kernel"], UNCHANGED <<cq, posted>>
      PROVE  (\A g \in Handles : SlotRules(g)') /\ (\A c \in Clients : ClientRules(c)')
  <2>1. /\ place'[h] = "kernel" /\ slot'[h] = "NotCompleted"
        /\ \A g \in Handles \ {h} : place'[g] = place[g] /\ slot'[g] = slot[g]
    BY <1>1, <1>2 DEF RInv, CInv, KInv, Shapes
  <2>2. cq[h] = <<>> /\ results[h] = <<>>
    BY <1>1 DEF RInv, CInv, KInv, Unreceived, SlotRules
  <2>3. SlotRules(h)'
    BY <1>1, <1>2, <2>1, <2>2 DEF SlotRules
  <2>4. \A g \in Handles \ {h} : SlotRules(g)'
    BY <1>1, <1>2, <2>1, Untouched DEF RInv
  <2>5. \A c \in Clients : ClientRules(c)'
    BY <1>1, <1>2, Carried, Typed
  <2>6. QED
    BY <2>3, <2>4, <2>5
<1>3. ASSUME kind[h] = "cancel", Cancel(h)
      PROVE  (\A g \in Handles : SlotRules(g)') /\ (\A c \in Clients : ClientRules(c)')
  BY <1>1, <1>3, CancelRInv
<1>4. (\A g \in Handles : SlotRules(g)') /\ (\A c \in Clients : ClientRules(c)')
  BY <1>2, <1>3 DEF Receive
<1>5. CInv' /\ OtherShapes'
  BY ReceiveCInv, RingOtherShapes DEF RInv
<1>6. QED
  BY <1>4, <1>5 DEF RInv

(* What an operation comes to is no failure of its future. *)
LEMMA NotLost == ASSUME NEW s \in Seq(Outcomes) PROVE s # <<"lost">>
<1> SUFFICES ASSUME s = <<"lost">> PROVE FALSE
  OBVIOUS
<1>1. Len(s) = 1 /\ s[1] = "lost"
  OBVIOUS
<1>2. s[1] \in Outcomes
  BY <1>1
<1>3. QED
  BY <1>1, <1>2 DEF Outcomes

LEMMA EmptyWhenShort == ASSUME NEW S, NEW s \in Seq(S), Len(s) < 1 PROVE s = <<>> /\ Len(s) = 0
<1>1. Len(s) \in Nat
  OBVIOUS
<1>2. Len(s) = 0
  BY <1>1
<1>3. <<>> \in Seq(S) /\ Len(<<>>) = 0 /\ \A i \in 1 .. Len(s) : s[i] = <<>>[i]
  BY <1>2
<1>4. QED
  BY <1>2, <1>3, SameSequence

LEMMA AtMostOne == ASSUME NEW n \in Nat \ {0}, n <= 1 PROVE n = 1
  OBVIOUS

LEMMA TailFacts ==
    ASSUME NEW S, NEW s \in Seq(S), s # <<>>
    PROVE  /\ Tail(s) \in Seq(S) /\ Len(Tail(s)) = Len(s) - 1
           /\ Len(s) \in Nat \ {0} /\ 1 \in 1 .. Len(s)
           /\ \A i \in 1 .. Len(Tail(s)) : Tail(s)[i] = s[i + 1]
           /\ Len(s) = 1 => Tail(s) = <<>> /\ Len(Tail(s)) = 0
<1>1. Len(s) \in Nat \ {0} /\ 1 \in 1 .. Len(s)
  OBVIOUS
<1>2. /\ Tail(s) \in Seq(S) /\ Len(Tail(s)) = Len(s) - 1
      /\ \A i \in 1 .. Len(Tail(s)) : Tail(s)[i] = s[i + 1]
  OBVIOUS
<1>3. ASSUME Len(s) = 1 PROVE Tail(s) = <<>> /\ Len(Tail(s)) = 0
  <2>1. PICK t : t = Tail(s)
    OBVIOUS
  <2>2. t \in Seq(S) /\ Len(t) < 1
    BY <1>2, <1>3, <2>1
  <2>3. t = <<>> /\ Len(t) = 0
    BY <2>2, EmptyWhenShort
  <2>4. QED
    BY <2>1, <2>3
<1>4. QED
  BY <1>1, <1>2, <1>3

LEMMA CompleteRInv == ASSUME RInv, NEW h \in Handles, Complete(h) PROVE RInv'
<1> DEFINE r == Head(cq[h])
<1>1. /\ cq[h] # <<>> /\ cq' = [cq EXCEPT ![h] = Tail(@)]
      /\ slot' = [slot EXCEPT ![h] = Completed(h, r)[1]]
      /\ results' = [results EXCEPT ![h] = Completed(h, r)[2]]
      /\ UNCHANGED <<handle, answers, phase, kind, place, posted>>
  BY DEF Complete, submissions
<1>2. /\ \A g \in Handles \ {h} : cq'[g] = cq[g] /\ slot'[g] = slot[g] /\ results'[g] = results[g]
      /\ cq'[h] = Tail(cq[h]) /\ slot'[h] = Completed(h, r)[1] /\ results'[h] = Completed(h, r)[2]
  BY <1>1 DEF RInv, CInv, KInv, Shapes, MoreShapes
<1>3. cq[h] \in Seq(Outcomes) /\ results[h] \in Seq(Outcomes) /\ r \in Outcomes /\ r = cq[h][1]
  BY <1>1, Typed
<1>4. place[h] \notin {"none", "queue"}
  BY <1>1 DEF RInv, CInv, KInv, Unreceived
<1>5. ASSUME kind[h] # "cancel"
      PROVE  SlotRules(h)' /\ results'[h] = Append(results[h], r)
  <2>1. kind[h] \in {"single", "multi"}
    BY <1>4, <1>5 DEF RInv, CInv, KInv, Shapes, FreshKeys
  <2>2. SlotRules(h)
    BY DEF RInv
  <2>3. /\ slot[h] = "NotCompleted" \/ (kind[h] = "multi" /\ slot[h] = "Multi")
        /\ slot[h] = "NotCompleted" => results[h] = <<>>
    BY <1>1, <1>5, <2>1, <2>2 DEF SlotRules, RInv, CInv, KInv, Shapes
  <2>4. /\ \A i \in 1 .. Len(cq[h]) : cq[h][i] = "canceled" => i = Len(cq[h])
        /\ kind[h] = "single" => Len(cq[h]) <= 1
    BY <1>5, <2>2 DEF SlotRules
  <2>5. /\ Tail(cq[h]) \in Seq(Outcomes) /\ Len(Tail(cq[h])) = Len(cq[h]) - 1
        /\ Len(cq[h]) \in Nat \ {0} /\ 1 \in 1 .. Len(cq[h])
        /\ \A i \in 1 .. Len(Tail(cq[h])) : Tail(cq[h])[i] = cq[h][i + 1]
        /\ Len(cq[h]) = 1 => Tail(cq[h]) = <<>> /\ Len(Tail(cq[h])) = 0
    BY <1>1, <1>3, TailFacts
  <2>6. \A i \in 1 .. Len(cq'[h]) : cq'[h][i] = "canceled" => i = Len(cq'[h])
    BY <1>2, <2>4, <2>5
  <2>7. ASSUME kind[h] = "single" PROVE cq'[h] = <<>> /\ Len(cq'[h]) = 0
    <3>1. Len(cq[h]) = 1
      <4>1. Len(cq[h]) <= 1 /\ Len(cq[h]) \in Nat \ {0}
        BY <2>4, <2>5, <2>7
      <4>2. QED
        BY <4>1, AtMostOne
    <3>2. cq'[h] = Tail(cq[h])
      BY <1>2
    <3>3. QED
      BY <2>5, <3>1, <3>2
  <2>8. r = "canceled" => cq'[h] = <<>>
    BY <1>2, <1>3, <2>4, <2>5
  <2>9. CASE slot[h] = "NotCompleted"
    <3>1. results[h] = <<>> /\ results'[h] = <<r>>
      BY <1>2, <1>5, <2>1, <2>3, <2>9 DEF Completed
    <3>2. slot'[h] = IF kind[h] = "single" THEN "Single" ELSE "Multi"
      BY <1>2, <2>1, <2>9 DEF Completed
    <3>3. Append(<<>>, r) = <<r>> /\ Len(<<r>>) = 1
      OBVIOUS
    <3>4. /\ slot'[h] \notin {"absent", "Draining", "Completed", "NotCompleted"}
          /\ Len(results'[h]) = 1
      BY <3>1, <3>2, <3>3
    <3>6. SlotRules(h)'
      <4>1. CASE kind[h] = "single"
        <5>1. slot'[h] = "Single" /\ cq'[h] = <<>> /\ Len(cq'[h]) <= 1
          BY <2>7, <3>2, <4>1
        <5>2. QED
          BY <1>1, <1>4, <2>6, <3>4, <4>1, <5>1 DEF SlotRules
      <4>2. CASE kind[h] = "multi"
        <5>1. slot'[h] = "Multi"
          BY <3>2, <4>2
        <5>2. QED
          BY <1>1, <1>4, <2>6, <4>2, <5>1 DEF SlotRules
      <4>3. QED
        BY <2>1, <4>1, <4>2
    <3>7. QED
      BY <3>1, <3>3, <3>6
  <2>10. CASE kind[h] = "multi" /\ slot[h] = "Multi"
    <3>1. results'[h] = Append(results[h], r)
      BY <1>2, <2>10 DEF Completed
    <3>2. slot'[h] = IF r = "canceled" THEN "Draining" ELSE "Multi"
      BY <1>2, <2>10 DEF Completed
    <3>3. SlotRules(h)'
      <4>1. slot'[h] \in {"Multi", "Draining"} /\ (slot'[h] = "Draining" => cq'[h] = <<>>)
        BY <2>8, <3>2
      <4>2. QED
        BY <1>1, <1>4, <2>6, <2>10, <4>1 DEF SlotRules
    <3>4. QED
      BY <3>1, <3>3
  <2>11. QED
    BY <2>3, <2>9, <2>10
<1>6. SlotRules(h)'
  <2>1. kind[h] = "cancel" => SlotRules(h)'
    BY <1>1, <1>4 DEF SlotRules
  <2>2. QED
    BY <1>5, <2>1
<1>7. \A g \in Handles \ {h} : SlotRules(g)'
  BY <1>1, <1>2, Untouched DEF RInv
<1>8. \A c \in Clients : ClientRules(c)'
  <2> SUFFICES ASSUME NEW c \in Clients PROVE ClientRules(c)'
    OBVIOUS
  <2>1. CASE handle[c] = h
    <3>1. kind[h] # "cancel"
      <4>1. handle[c] # None
        BY <2>1 DEF Handles, None
      <4>2. QED
        BY <2>1, <4>1 DEF RInv, ClientRules
    <3>2. results'[h] = Append(results[h], r)
      BY <1>5, <3>1
    <3>3. QED
      BY <1>1, <1>2, <2>1, <3>2, Carried
  <2>2. CASE handle[c] # h
    BY <1>1, <1>2, <2>2, Carried, Typed
  <2>3. QED
    BY <2>1, <2>2
<1>9. CInv' /\ OtherShapes'
  BY CompleteCInv, StepOtherShapes DEF RInv, Next
<1>10. QED
  BY <1>6, <1>7, <1>8, <1>9 DEF RInv

LEMMA PollRInv == ASSUME RInv, NEW c \in Clients, Poll(c) PROVE RInv'
<1> PICK h : h = handle[c]
  OBVIOUS
<1>1. phase[c] = "waiting" /\ UNCHANGED <<handle, kind, place, cq, posted>>
  BY DEF Poll, Polled, PollTooEarly, PollPending, PollSingle, PollMulti, submissions, ring
<1>2. /\ h \in Handles /\ h # None /\ \A d \in Clients \ {c} : handle[d] # h
      /\ results[h] \in Seq(Outcomes) /\ answers[c] \in Seq(Outcomes \cup Failures)
      /\ cq[h] \in Seq(Outcomes)
  BY <1>1, Typed DEF RInv, CInv, OwnHandles
<1>3. /\ SlotRules(h) /\ ClientRules(c)
      /\ slot[h] \in {"absent", "NotCompleted", "Single", "Multi", "Draining", "Completed"}
  BY <1>2 DEF RInv, CInv, KInv, Shapes
<1>4. kind[h] = (IF c \in Futures THEN "single" ELSE "multi")
      /\ posted[h] = Told(c) \o results[h] \o cq[h]
  BY <1>2, <1>3 DEF ClientRules
<1>5. c \in Futures => answers[c] = <<>> /\ Told(c) = <<>>
  BY <1>1, <1>3 DEF ClientRules, Told
<1>6. c \notin Futures => answers[c] \in Seq(Outcomes) /\ Told(c) = answers[c]
  <2>1. c \notin Futures => answers[c] \in Seq(Outcomes)
    BY <1>3 DEF ClientRules, Clients
  <2>2. QED
    BY <2>1, NotLost DEF Told
<1>7. /\ \A g \in Handles \ {h} : slot'[g] = slot[g] /\ results'[g] = results[g]
      /\ \A d \in Clients \ {c} : phase'[d] = phase[d] /\ answers'[d] = answers[d]
  BY <1>2 DEF Poll, PollTooEarly, PollPending, PollSingle, PollMulti, slots, RInv, CInv, KInv, Shapes, MoreShapes
<1>8. \A g \in Handles \ {h} : SlotRules(g)'
  BY <1>1, <1>7, Untouched DEF RInv
<1>9. \A d \in Clients \ {c} : ClientRules(d)'
  BY <1>1, <1>2, <1>7, Carried, Typed
<1>10. SlotRules(h)' /\ ClientRules(c)'
  <2>1. ASSUME PollPending(c) PROVE SlotRules(h)' /\ ClientRules(c)'
    <3>1. UNCHANGED <<phase, answers, slot, results>>
      BY <2>1 DEF PollPending
    <3>2. QED
      BY <1>1, <1>2, <1>3, <3>1, Untouched, Carried, Typed
  <2>2. ASSUME PollTooEarly(c) PROVE SlotRules(h)' /\ ClientRules(c)'
    <3>1. /\ c \in Futures /\ slot[h] = "absent" /\ UNCHANGED <<slot, results>>
          /\ phase'[c] = "answered" /\ answers'[c] = <<"lost">>
      BY <2>2 DEF PollTooEarly, slots, RInv, CInv, MoreShapes
    <3>2. SlotRules(h)'
      BY <1>1, <1>3, <3>1, Untouched
    <3>3. Told(c)' = <<>>
      BY <3>1 DEF Told
    <3>4. c \notin Listeners
      BY <3>1, IoOperationAssumption
    <3>5. posted'[h] = Told(c)' \o results'[h] \o cq'[h]
      BY <1>1, <1>4, <1>5, <3>1, <3>3
    <3>6. QED
      BY <1>1, <1>2, <1>4, <3>1, <3>2, <3>4, <3>5 DEF ClientRules
  <2>3. ASSUME PollSingle(c) PROVE SlotRules(h)' /\ ClientRules(c)'
    <3>1. /\ slot[h] = "Single" /\ slot'[h] = "absent" /\ results'[h] = <<>>
          /\ answers'[c] = results[h] /\ phase'[c] = "answered"
      BY <1>2, <2>3 DEF PollSingle, RInv, CInv, KInv, Shapes, MoreShapes
    <3>2. c \in Futures
      BY <1>3, <1>4, <3>1 DEF SlotRules
    <3>3. cq[h] = <<>> /\ kind[h] = "single"
      BY <1>3, <1>4, <3>1, <3>2 DEF SlotRules
    <3>4. SlotRules(h)'
      BY <1>1, <1>3, <3>1, <3>3 DEF SlotRules
    <3>5. Told(c)' = results[h]
      BY <1>2, <3>1, NotLost DEF Told
    <3>6. posted'[h] = Told(c)' \o results'[h] \o cq'[h]
      <4>1. <<>> \o results[h] \o <<>> = results[h] \o <<>> \o <<>>
        BY <1>2
      <4>2. QED
        BY <1>1, <1>4, <1>5, <3>1, <3>2, <3>3, <3>5, <4>1
    <3>7. c \notin Listeners
      BY <3>2, IoOperationAssumption, SMTT(30)
    <3>8. QED
      BY <1>1, <1>2, <1>4, <3>1, <3>2, <3>4, <3>6, <3>7 DEF ClientRules
  <2>4. ASSUME PollMulti(c) PROVE SlotRules(h)' /\ ClientRules(c)'
    <3>1. /\ slot[h] \in {"Multi", "Draining"} /\ results[h] # <<>>
          /\ results'[h] = Tail(results[h]) /\ answers'[c] = Append(answers[c], Head(results[h]))
          /\ slot'[h] = (IF slot[h] = "Draining" /\ Len(results[h]) <= 1 THEN "absent" ELSE slot[h])
          /\ UNCHANGED phase
      BY <1>2, <2>4 DEF PollMulti, RInv, CInv, KInv, Shapes, MoreShapes
    <3>2. c \notin Futures /\ kind[h] = "multi"
      BY <1>3, <1>4, <3>1 DEF SlotRules
    <3>3. /\ Tail(results[h]) \in Seq(Outcomes) /\ Head(results[h]) \in Outcomes
          /\ Len(results[h]) <= 1 => Tail(results[h]) = <<>>
      BY <1>2, <3>1
    <3>4. SlotRules(h)'
      <4>1. place[h] \notin {"none", "queue"}
        BY <1>3, <3>1 DEF SlotRules
      <4>2. QED
        BY <1>1, <1>3, <3>1, <3>2, <3>3, <4>1 DEF SlotRules
    <3>5. answers'[c] \in Seq(Outcomes)
      BY <1>6, <3>1, <3>2, <3>3
    <3>6. Told(c)' = answers'[c]
      BY <3>5, NotLost DEF Told
    <3>7. posted'[h] = Told(c)' \o results'[h] \o cq'[h]
      <4>1. answers[c] \in Telling /\ results[h] \in Telling /\ cq[h] \in Telling
        BY <1>2 DEF Telling
      <4>2. Append(answers[c], Head(results[h])) \o Tail(results[h]) \o cq[h]
              = answers[c] \o results[h] \o cq[h]
        BY <3>1, <4>1, FirstOfTheFirst, ZenonT(60)
      <4>3. QED
        BY <1>1, <1>4, <1>6, <3>1, <3>2, <3>6, <4>2
    <3>8. QED
      BY <1>1, <1>2, <1>4, <3>1, <3>2, <3>4, <3>5, <3>7 DEF ClientRules
  <2>5. QED
    BY <2>1, <2>2, <2>3, <2>4 DEF Poll
<1>11. CInv' /\ OtherShapes'
  BY PollCInv, StepOtherShapes DEF RInv, Next
<1>12. QED
  BY <1>8, <1>9, <1>10, <1>11 DEF RInv

(* A client becomes somebody who waits for a submission of its own. *)
LEMMA AskRInv ==
    ASSUME RInv, NEW c \in Clients, FirstPoll(c) \/ Listen(c)
    PROVE  /\ \A h \in Handles : SlotRules(h)'
           /\ \A d \in Clients : ClientRules(d)'
<1> PICK w \in Workers, what \in {"single", "multi"}, whom \in {{c}, {}} :
       /\ Submit(w, what, whom, None)
       /\ handle' = [handle EXCEPT ![c] = NextHandle(w)]
       /\ what = (IF c \in Futures THEN "single" ELSE "multi")
  BY IoOperationAssumption DEF FirstPoll, Listen
<1> PICK n : n = NextHandle(w)
  OBVIOUS
<1>1. phase[c] = "new" /\ phase' = [phase EXCEPT ![c] = "waiting"] /\ UNCHANGED answers
  BY DEF FirstPoll, Listen
<1>2. what \in {"single", "multi", "cancel"}
  OBVIOUS
<1>3. /\ n \in Handles
      /\ UNCHANGED <<cq, posted, results>>
      /\ posted[n] = <<>> /\ results[n] = <<>> /\ cq[n] = <<>>
      /\ kind'[n] = what
      /\ \A d \in Clients : handle[d] # None =>
            handle[d] # n /\ kind'[handle[d]] = kind[handle[d]]
      /\ \A h \in Handles : SlotRules(h)'
  BY <1>2, SubmitSlots
<1>4. /\ handle'[c] = n /\ phase'[c] = "waiting" /\ answers[c] = <<>>
      /\ \A d \in Clients \ {c} : handle'[d] = handle[d] /\ phase'[d] = phase[d]
  BY <1>1 DEF RInv, CInv, MoreShapes, ClientRules
<1>5. \A d \in Clients \ {c} : ClientRules(d)'
  BY <1>1, <1>3, <1>4, Carried, Typed
<1>6. ClientRules(c)'
  <2>1. Told(c)' = <<>>
    BY <1>1, <1>4 DEF Told
  <2>2. <<>> \in Seq(Outcomes) /\ <<>> \o <<>> \o <<>> = <<>>
    OBVIOUS
  <2>3. posted'[n] = Told(c)' \o results'[n] \o cq'[n]
    BY <1>3, <2>1, <2>2
  <2>4. QED
    BY <1>1, <1>3, <1>4, <2>2, <2>3 DEF ClientRules
<1>7. QED
  BY <1>3, <1>5, <1>6

LEMMA StepRInv == RInv /\ [Next]_vars => RInv'
<1> SUFFICES ASSUME RInv, [Next]_vars PROVE RInv'
  OBVIOUS
<1>1. CInv' /\ OtherShapes'
  BY StepCInv, StepOtherShapes DEF RInv
<1>2. ASSUME UNCHANGED <<place, posted, results, kind, slot, cq, handle, answers>>,
             \A c \in Clients : phase'[c] \in {phase[c], "gone"}
      PROVE  RInv'
  <2>1. \A h \in Handles : SlotRules(h)'
    BY <1>2, Untouched DEF RInv
  <2>2. \A c \in Clients : ClientRules(c)'
    BY <1>2, Carried, Typed
  <2>3. QED
    BY <1>1, <2>1, <2>2 DEF RInv
<1>3. ASSUME NEW c \in Clients, FirstPoll(c) \/ Listen(c) PROVE RInv'
  BY <1>1, <1>3, AskRInv DEF RInv
<1>4. ASSUME NEW c \in Clients, DropFuture(c) PROVE RInv'
  <2>1. /\ phase' = [phase EXCEPT ![c] = "gone"] /\ UNCHANGED <<handle, answers>>
        /\ \A d \in Clients : phase'[d] \in {phase[d], "gone"}
    BY <1>4 DEF DropFuture, RInv, CInv, MoreShapes
  <2>2. ASSUME NEW w \in Workers, Submit(w, "cancel", {}, handle[c]) PROVE RInv'
    <3>1. PICK n : n = NextHandle(w)
      OBVIOUS
    <3>2. /\ UNCHANGED <<cq, posted, results>>
          /\ \A d \in Clients : handle[d] # None =>
                handle[d] # n /\ kind'[handle[d]] = kind[handle[d]]
          /\ \A h \in Handles : SlotRules(h)'
      BY <2>2, <3>1, SubmitSlots
    <3>3. \A d \in Clients : ClientRules(d)'
      BY <2>1, <3>2, Carried, Typed
    <3>4. QED
      BY <1>1, <3>2, <3>3 DEF RInv
  <2>3. CASE UNCHANGED <<submissions, ring, slots>>
    BY <1>2, <2>1, <2>3 DEF submissions, ring, slots
  <2>4. QED
    BY <1>4, <2>2, <2>3 DEF DropFuture
<1>5. ASSUME NEW c \in Clients, Refuse(c) PROVE RInv'
  <2>1. /\ c \in Futures /\ phase[c] = "new" /\ phase'[c] = "answered"
        /\ \A d \in Clients \ {c} : phase'[d] = phase[d] /\ answers'[d] = answers[d]
        /\ UNCHANGED <<place, posted, results, kind, slot, cq, handle>>
    BY <1>5 DEF Refuse, submissions, ring, slots, RInv, CInv, MoreShapes
  <2>2. \A h \in Handles : SlotRules(h)'
    BY <2>1, Untouched DEF RInv
  <2>3. handle[c] = None /\ c \notin Listeners
    BY <2>1, IoOperationAssumption DEF RInv, CInv, OwnHandles
  <2>4. ClientRules(c)'
    BY <2>1, <2>3 DEF ClientRules
  <2>5. \A d \in Clients \ {c} : ClientRules(d)'
    BY <2>1, Carried, Typed
  <2>6. QED
    BY <1>1, <2>2, <2>4, <2>5 DEF RInv
<1>6. ASSUME NEW c \in Clients, StopListening(c) \/ Rewake(c) PROVE RInv'
  <2>1. \A d \in Clients : phase'[d] \in {phase[d], "gone"}
    BY <1>6 DEF StopListening, Rewake, RInv, CInv, MoreShapes
  <2>2. QED
    BY <1>2, <1>6, <2>1 DEF StopListening, Rewake, submissions, ring, slots
<1>7. ASSUME NEW w \in Workers, OtherSubmission(w) PROVE RInv'
  BY <1>2, <1>7 DEF OtherSubmission, clients, ring, slots
<1>8. CASE UNCHANGED vars
  BY <1>2, <1>8 DEF vars, clients, submissions, ring, slots
<1>9. QED
  BY <1>3, <1>4, <1>5, <1>6, <1>7, <1>8, ReceiveRInv, KernelPostsRInv, CompleteRInv, PollRInv
     DEF Next

(* No result is lost, told twice or out of order, however the kernel, the  *)
(* worker, cancellations and polls interleave (IoCompletionSlot::complete, *)
(* IoCompletionState::into_result).                                        *)
THEOREM ResultsKept == Spec => []NoResultLost
<1>1. RInv => NoResultLost
  BY DEF RInv, ClientRules, NoResultLost
<1>2. QED
  BY <1>1, InitRInv, StepRInv, PTL DEF Spec

-----------------------------------------------------------------------------
(* What a future promises. *)

(* Somebody who waits was told nothing yet. *)
Undelivered ==
    \A c \in Futures : phase[c] = "waiting"
        => posted[handle[c]] = results[handle[c]] \o cq[handle[c]]

PInv == RInv /\ Undelivered

LEMMA RInvIsPInv == RInv => PInv
<1> SUFFICES ASSUME RInv, NEW c \in Futures, phase[c] = "waiting"
             PROVE  posted[handle[c]] = results[handle[c]] \o cq[handle[c]]
  BY DEF PInv, Undelivered
<1>1. c \in Clients /\ handle[c] # None
  BY Typed DEF Clients
<1>2. handle[c] \in Handles /\ results[handle[c]] \in Seq(Outcomes) /\ cq[handle[c]] \in Seq(Outcomes)
  BY <1>1, Typed
<1>3. /\ posted[handle[c]] = Told(c) \o results[handle[c]] \o cq[handle[c]]
      /\ answers[c] = <<>>
  BY <1>1 DEF RInv, ClientRules
<1>4. Told(c) = <<>>
  BY <1>3 DEF Told
<1>5. <<>> \o results[handle[c]] = results[handle[c]]
  BY <1>2
<1>6. QED
  BY <1>3, <1>4, <1>5

(* How a future is seen, before a step and after it. *)
First(s) == IF s = <<>> THEN "none" ELSE Head(s)

LEMMA Views ==
    ASSUME PInv, PInv', NEW c \in Futures
    PROVE  /\ phase[c] = "new" => Status(c) = "idle" /\ Outcome(c) = "none"
           /\ phase[c] = "waiting" => Status(c) = "asked" /\ Outcome(c) = First(posted[handle[c]])
           /\ phase[c] = "answered" => Status(c) = "answered" /\ Outcome(c) = First(answers[c])
           /\ phase[c] = "gone" => Status(c) = "gone" /\ Outcome(c) = "none"
           /\ phase'[c] = "waiting" => Status(c)' = "asked" /\ Outcome(c)' = First(posted'[handle'[c]])
           /\ phase'[c] = "answered" => Status(c)' = "answered" /\ Outcome(c)' = First(answers'[c])
           /\ phase'[c] = "gone" => Status(c)' = "gone" /\ Outcome(c)' = "none"
  BY DEF PInv, Undelivered, Status, Outcome, First

Kept(c) == Status(c)' = Status(c) /\ Outcome(c)' = Outcome(c)

LEMMA KeptView ==
    ASSUME PInv, PInv', NEW c \in Futures, phase'[c] = phase[c], answers'[c] = answers[c],
           phase[c] = "waiting" => handle'[c] = handle[c] /\ posted'[handle[c]] = posted[handle[c]]
    PROVE  Kept(c)
<1>1. CASE phase[c] = "waiting"
  BY <1>1, Views DEF Kept
<1>2. CASE phase[c] # "waiting"
  BY <1>2 DEF Kept, Status, Outcome
<1>3. QED
  BY <1>1, <1>2

Served == [Service!Next]_(Service!vars)

LEMMA AllKept == ASSUME \A c \in Futures : Kept(c) PROVE Served
<1>1. /\ [c \in Futures |-> Status(c)]' = [c \in Futures |-> Status(c)]
      /\ [c \in Futures |-> Outcome(c)]' = [c \in Futures |-> Outcome(c)]
  BY DEF Kept
<1>2. QED
  BY <1>1 DEF Served, Service!vars

(* A step seen by one future only. *)
LEMMA OneServed ==
    ASSUME NEW c \in Futures, \A d \in Futures \ {c} : Kept(d),
           \/ /\ Status(c) = "idle" /\ Outcome(c)' = Outcome(c) /\ Status(c)' = "asked"
           \/ /\ Status(c) = "asked" /\ Outcome(c) = "none"
              /\ Status(c)' = Status(c) /\ Outcome(c)' \in Outcomes
           \/ /\ Status(c) = "asked" /\ Outcome(c) # "none"
              /\ Status(c)' = "answered" /\ Outcome(c)' = Outcome(c)
           \/ /\ Status(c) \in {"idle", "asked"} /\ Outcome(c) = "none"
              /\ Status(c)' = "answered" /\ Outcome(c)' \in Failures
           \/ /\ Status(c) \in {"asked", "answered"}
              /\ Status(c)' = "gone" /\ Outcome(c)' = "none"
    PROVE  Served
<1> DEFINE S == [d \in Futures |-> Status(d)]
           O == [d \in Futures |-> Outcome(d)]
<1>1. /\ S' = [S EXCEPT ![c] = Status(c)'] /\ S[c] = Status(c)
      /\ O' = [O EXCEPT ![c] = Outcome(c)'] /\ O[c] = Outcome(c)
  BY DEF Kept
<1>2. /\ Status(c)' = Status(c) => S' = S
      /\ Outcome(c)' = Outcome(c) => O' = O
  BY DEF Kept
<1>3. CASE Status(c) = "idle" /\ Outcome(c)' = Outcome(c) /\ Status(c)' = "asked"
  <2>1. Service!Ask(c)
    BY <1>1, <1>2, <1>3 DEF Service!Ask
  <2>2. QED
    BY <2>1 DEF Served, Service!Next
<1>4. CASE /\ Status(c) = "asked" /\ Outcome(c) = "none"
           /\ Status(c)' = Status(c) /\ Outcome(c)' \in Outcomes
  <2>1. Service!Decide(c)
    BY <1>1, <1>2, <1>4 DEF Service!Decide
  <2>2. QED
    BY <2>1 DEF Served, Service!Next
<1>5. CASE /\ Status(c) = "asked" /\ Outcome(c) # "none"
           /\ Status(c)' = "answered" /\ Outcome(c)' = Outcome(c)
  <2>1. Service!Answer(c)
    BY <1>1, <1>2, <1>5 DEF Service!Answer
  <2>2. QED
    BY <2>1 DEF Served, Service!Next
<1>6. CASE /\ Status(c) \in {"idle", "asked"} /\ Outcome(c) = "none"
           /\ Status(c)' = "answered" /\ Outcome(c)' \in Failures
  <2>1. Service!Fail(c)
    BY <1>1, <1>6 DEF Service!Fail
  <2>2. QED
    BY <2>1 DEF Served, Service!Next
<1>7. CASE /\ Status(c) \in {"asked", "answered"}
           /\ Status(c)' = "gone" /\ Outcome(c)' = "none"
  <2>1. Service!Forget(c)
    BY <1>1, <1>7 DEF Service!Forget
  <2>2. QED
    BY <2>1 DEF Served, Service!Next
<1>8. QED
  BY <1>3, <1>4, <1>5, <1>6, <1>7

LEMMA Firsts ==
    /\ First(<<>>) = "none"
    /\ \A s \in Seq(Outcomes) : s # <<>> => First(s) \in Outcomes /\ First(s) # "none"
    /\ First(<<"lost">>) \in Failures /\ First(<<"refused">>) \in Failures
<1>1. \A s \in Seq(Outcomes) : s # <<>> => First(s) \in Outcomes
  BY DEF First
<1>2. "none" \notin Outcomes
  BY DEF Outcomes
<1>3. Head(<<"lost">>) = "lost" /\ Head(<<"refused">>) = "refused" /\ <<"lost">> # <<>> /\ <<"refused">> # <<>>
  OBVIOUS
<1>4. QED
  BY <1>1, <1>2, <1>3 DEF First, Failures

(* The only result of an operation is posted. *)
LEMMA PostServed ==
    ASSUME PInv, PInv', UNCHANGED <<phase, answers, handle>>,
           NEW h \in Handles, place[h] = "kernel", NEW r \in Outcomes,
           posted'[h] = Append(posted[h], r),
           \A c \in Futures : phase[c] = "waiting" /\ handle[c] # h
               => posted'[handle[c]] = posted[handle[c]]
    PROVE  Served
<1>1. CASE \E c \in Futures : phase[c] = "waiting" /\ handle[c] = h
  <2> PICK c \in Futures : phase[c] = "waiting" /\ handle[c] = h
    BY <1>1
  <2>1. c \in Clients /\ h # None /\ \A d \in Clients \ {c} : handle[d] # h
    BY DEF Clients, Handles, None, PInv, RInv, CInv, OwnHandles
  <2>2. kind[h] = "single"
    BY <2>1 DEF PInv, RInv, ClientRules
  <2>3. slot[h] = "NotCompleted" /\ cq[h] = <<>>
    BY <2>2 DEF PInv, RInv, CInv, KInv, InKernel
  <2>4. results[h] = <<>>
    BY <2>2, <2>3 DEF PInv, RInv, SlotRules
  <2>5. posted[h] = <<>>
    <3>1. posted[h] = <<>> \o <<>>
      BY <2>3, <2>4 DEF PInv, Undelivered
    <3>2. QED
      BY <3>1
  <2>6. posted'[h] = <<r>> /\ First(posted'[h]) \in Outcomes
    BY <2>5 DEF First
  <2>7. /\ Status(c) = "asked" /\ Outcome(c) = "none"
        /\ Status(c)' = "asked" /\ Outcome(c)' \in Outcomes
    BY <2>5, <2>6, Firsts, Views
  <2>8. \A d \in Futures \ {c} : Kept(d)
    BY <2>1, KeptView DEF Clients
  <2>9. QED
    BY <2>7, <2>8, OneServed
<1>2. CASE ~ \E c \in Futures : phase[c] = "waiting" /\ handle[c] = h
  BY <1>2, KeptView, AllKept
<1>3. QED
  BY <1>1, <1>2

LEMMA RingServed ==
    ASSUME PInv, PInv', NEW h \in Handles, Receive(h) \/ KernelPosts(h) \/ Complete(h)
    PROVE  Served
<1>1. UNCHANGED <<phase, answers, handle>>
  BY DEF Receive, KernelPosts, Complete, clients
<1>2. \A c \in Futures : phase[c] = "waiting" => handle[c] # None /\ handle[c] \in Handles
  BY Typed DEF PInv, Clients
<1>3. CASE UNCHANGED posted
  BY <1>1, <1>3, KeptView, AllKept
<1>4. CASE KernelPosts(h)
  <2> PICK r \in {"ok", "error"} : posted' = Post(posted, h, r)
    BY <1>4 DEF KernelPosts
  <2>1. /\ r \in Outcomes /\ place[h] = "kernel" /\ posted'[h] = Append(posted[h], r)
        /\ \A g \in Handles \ {h} : posted'[g] = posted[g]
    BY <1>4 DEF KernelPosts, Outcomes, Post, PInv, RInv, OtherShapes
  <2>2. QED
    BY <1>1, <1>2, <2>1, PostServed
<1>5. CASE place[h] = "queue" /\ kind[h] = "cancel" /\ Cancel(h)
  <2> PICK found : found = <<h[1], cancels[h][2]>>
    OBVIOUS
  <2>1. \A c \in Futures : phase[c] = "waiting" => handle[c] # h
    BY <1>2, <1>5 DEF PInv, RInv, ClientRules, Clients
  <2>2. CASE /\ place[found] = "kernel" /\ found \in Handles
             /\ posted' = Post(Post(posted, h, "ok"), found, "canceled")
    <3>1. found # h /\ "canceled" \in Outcomes
      BY <1>5, <2>2 DEF Outcomes
    <3>2. /\ posted'[found] = Append(posted[found], "canceled")
          /\ \A g \in Handles \ {h, found} : posted'[g] = posted[g]
      BY <2>2, <3>1 DEF Post, PInv, RInv, OtherShapes
    <3>3. \A c \in Futures : phase[c] = "waiting" /\ handle[c] # found
             => posted'[handle[c]] = posted[handle[c]]
      BY <1>2, <2>1, <3>2
    <3>4. QED
      BY <1>1, <2>2, <3>1, <3>2, <3>3, PostServed
  <2>3. CASE \/ /\ found \notin Handles
                /\ posted' = Post(Post(posted, h, "ok"), found, "canceled")
             \/ posted' = Post(posted, h, "error")
    <3>1. \A g \in Handles \ {h} : posted'[g] = posted[g]
      BY <2>3 DEF Post, PInv, RInv, OtherShapes
    <3>2. \A c \in Futures : Kept(c)
      BY <1>1, <1>2, <2>1, <3>1, KeptView
    <3>3. QED
      BY <3>2, AllKept
  <2>4. QED
    BY <1>5, <2>2, <2>3 DEF Cancel
<1>6. QED
  BY <1>3, <1>4, <1>5 DEF Receive, Complete

LEMMA PollServed == ASSUME PInv, PInv', NEW c \in Clients, Poll(c) PROVE Served
<1>1. phase[c] = "waiting" /\ UNCHANGED <<handle, posted>>
  BY DEF Poll, Polled, PollTooEarly, PollPending, PollSingle, PollMulti, ring
<1>2. \A d \in Clients \ {c} : phase'[d] = phase[d] /\ answers'[d] = answers[d]
  BY DEF Poll, PollTooEarly, PollPending, PollSingle, PollMulti, PInv, RInv, CInv, MoreShapes
<1>3. \A d \in Futures \ {c} : Kept(d)
  BY <1>1, <1>2, KeptView DEF Clients
<1>4. CASE c \notin Futures
  BY <1>3, <1>4, AllKept
<1>5. CASE c \in Futures
  <2>1. PICK h : h = handle[c]
    OBVIOUS
  <2>2. h \in Handles /\ h # None /\ results[h] \in Seq(Outcomes)
    BY <1>1, <2>1, Typed DEF PInv
  <2>3. /\ kind[h] = "single" /\ SlotRules(h)
        /\ posted[h] = results[h] \o cq[h]
    BY <1>1, <1>5, <2>1, <2>2 DEF PInv, RInv, ClientRules, Undelivered
  <2>4. Status(c) = "asked" /\ Outcome(c) = First(posted[h])
    BY <1>1, <1>5, <2>1, Views
  <2>5. ASSUME PollPending(c) PROVE Served
    <3>1. Kept(c)
      BY <1>1, <1>5, <2>5, KeptView DEF PollPending
    <3>2. QED
      BY <1>3, <3>1, AllKept
  <2>6. ASSUME PollTooEarly(c) PROVE Served
    <3>1. slot[h] = "absent" /\ phase'[c] = "answered" /\ answers'[c] = <<"lost">>
      BY <2>1, <2>6 DEF PollTooEarly, PInv, RInv, CInv, MoreShapes
    <3>2. posted[h] = <<>>
      BY <2>3, <3>1 DEF SlotRules
    <3>3. Outcome(c) = "none" /\ Status(c)' = "answered" /\ Outcome(c)' \in Failures
      BY <1>5, <2>4, <3>1, <3>2, Firsts, Views
    <3>4. QED
      BY <1>3, <1>5, <2>4, <3>3, OneServed
  <2>7. ASSUME PollSingle(c) PROVE Served
    <3>1. slot[h] = "Single" /\ phase'[c] = "answered" /\ answers'[c] = results[h]
      BY <2>1, <2>7 DEF PollSingle, PInv, RInv, CInv, MoreShapes
    <3>2. cq[h] = <<>> /\ Len(results[h]) = 1
      BY <2>3, <3>1 DEF SlotRules
    <3>3. results[h] # <<>> /\ posted[h] = results[h]
      <4>1. results[h] # <<>>
        BY <3>2
      <4>2. results[h] \o <<>> = results[h]
        BY <2>2
      <4>3. QED
        BY <2>3, <3>2, <4>1, <4>2
    <3>4. Outcome(c) # "none" /\ Status(c)' = "answered" /\ Outcome(c)' = Outcome(c)
      BY <1>5, <2>2, <2>4, <3>1, <3>3, Firsts, Views
    <3>5. QED
      BY <1>3, <1>5, <2>4, <3>4, OneServed
  <2>8. ~PollMulti(c)
    BY <2>1, <2>3 DEF PollMulti, SlotRules
  <2>9. QED
    BY <2>5, <2>6, <2>7, <2>8 DEF Poll
<1>6. QED
  BY <1>4, <1>5

LEMMA ClientServed ==
    ASSUME PInv, PInv', NEW c \in Clients,
           FirstPoll(c) \/ Refuse(c) \/ Listen(c) \/ DropFuture(c) \/ StopListening(c) \/ Rewake(c)
    PROVE  Served
<1>1. UNCHANGED posted /\ \A d \in Clients \ {c} : /\ phase'[d] = phase[d] /\ answers'[d] = answers[d]
                                                    /\ handle'[d] = handle[d]
  BY DEF FirstPoll, Refuse, Listen, DropFuture, StopListening, Rewake, Submit, ring,
         PInv, RInv, CInv, MoreShapes
<1>2. \A d \in Futures \ {c} : Kept(d)
  BY <1>1, KeptView DEF Clients
<1>3. CASE c \notin Futures
  BY <1>2, <1>3, AllKept
<1>4. CASE c \in Futures
  <2>1. ASSUME FirstPoll(c) PROVE Served
    <3> PICK w \in Workers : /\ Submit(w, "single", {c}, None)
                             /\ handle' = [handle EXCEPT ![c] = NextHandle(w)]
      BY <2>1 DEF FirstPoll
    <3>1. PICK n : n = NextHandle(w)
      OBVIOUS
    <3>2. phase[c] = "new" /\ phase'[c] = "waiting" /\ handle'[c] = n
      BY <2>1, <3>1 DEF FirstPoll, PInv, RInv, CInv, MoreShapes
    <3>3. posted[n] = <<>>
      BY <3>1, SubmitSlots DEF PInv
    <3>4. /\ Status(c) = "idle" /\ Outcome(c) = "none"
          /\ Status(c)' = "asked" /\ Outcome(c)' = "none"
      BY <1>1, <1>4, <3>2, <3>3, Firsts, Views
    <3>5. QED
      BY <1>2, <1>4, <3>4, OneServed
  <2>2. ASSUME Refuse(c) PROVE Served
    <3>1. phase[c] = "new" /\ phase'[c] = "answered" /\ answers'[c] = <<"refused">>
      BY <2>2 DEF Refuse, PInv, RInv, CInv, MoreShapes
    <3>2. /\ Status(c) = "idle" /\ Outcome(c) = "none"
          /\ Status(c)' = "answered" /\ Outcome(c)' \in Failures
      BY <1>4, <3>1, Firsts, Views
    <3>3. QED
      BY <1>2, <1>4, <3>2, OneServed
  <2>3. ASSUME DropFuture(c) PROVE Served
    <3>1. phase[c] \in {"waiting", "answered"} /\ phase'[c] = "gone"
      BY <2>3 DEF DropFuture, PInv, RInv, CInv, MoreShapes
    <3>2. /\ Status(c) \in {"asked", "answered"}
          /\ Status(c)' = "gone" /\ Outcome(c)' = "none"
      BY <1>4, <3>1, Views
    <3>3. QED
      BY <1>2, <1>4, <3>2, OneServed
  <2>4. ASSUME Rewake(c) PROVE Served
    <3>1. Kept(c)
      BY <1>4, <2>4, KeptView DEF Rewake, ring
    <3>2. QED
      BY <1>2, <3>1, AllKept
  <2>5. ~Listen(c) /\ ~StopListening(c)
    BY <1>4, IoOperationAssumption DEF Listen, StopListening
  <2>6. QED
    BY <2>1, <2>2, <2>3, <2>4, <2>5
<1>5. QED
  BY <1>3, <1>4

LEMMA StepServed == ASSUME PInv, PInv', [Next]_vars PROVE Served
<1>1. ASSUME UNCHANGED <<phase, answers, handle, posted>> PROVE Served
  BY <1>1, KeptView, AllKept
<1>2. ASSUME NEW w \in Workers, OtherSubmission(w) PROVE Served
  BY <1>1, <1>2 DEF OtherSubmission, clients, ring
<1>3. CASE UNCHANGED vars
  BY <1>1, <1>3 DEF vars, clients, ring
<1>4. QED
  BY <1>2, <1>3, RingServed, PollServed, ClientServed DEF Next

(* A future is told what became of its operation, once, and fails only     *)
(* when nothing became of it yet, whatever was cancelled or dropped        *)
(* (IoOperationFuture::poll, IoOperationFuture::drop).                     *)
THEOREM OneShotKept == Spec => ImplementsOneShot
<1>1. Init => Service!Init
  BY DEF Init, Service!Init, Status, Outcome, Clients
<1>2. PInv /\ PInv' /\ [Next]_vars => [Service!Next]_(Service!vars)
  BY StepServed DEF Served
<1>3. QED
  BY <1>1, <1>2, InitRInv, StepRInv, RInvIsPInv, PTL DEF Spec, ImplementsOneShot, Service!Spec
=============================================================================

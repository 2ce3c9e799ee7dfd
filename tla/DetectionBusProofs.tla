-------------------------- MODULE DetectionBusProofs --------------------------
(***************************************************************************)
(* In the integrated mode the behavioural engine's lock never stands in    *)
(* the way: whoever holds it can take its next step.  The argument is the  *)
(* shape of the stacks.  A thread that holds the lock is in an emission of *)
(* a detection that is not a teardown, so the emission does not come back  *)
(* to the lock; and once the lock can be held at all, nobody subscribes    *)
(* any more, so the emission is not kept out by a waiting writer.          *)
(***************************************************************************)
EXTENDS DetectionBus, TLAPS

FrameSet == [op : Ops, det : Detections, at : Nat \ {0}]

-----------------------------------------------------------------------------
(* What the three stack operations do.                                     *)

\* A frame put on a stack.
LEMMA PushStack ==
    ASSUME NEW s \in Seq(FrameSet), NEW f \in FrameSet
    PROVE  /\ <<f>> \o s \in Seq(FrameSet)
           /\ Len(<<f>> \o s) = Len(s) + 1
           /\ (<<f>> \o s)[1] = f
           /\ \A i \in 1..Len(s) : (<<f>> \o s)[i + 1] = s[i]
  OBVIOUS

\* The innermost frame of a stack, and the stack without it.
LEMMA PopStack ==
    ASSUME NEW s \in Seq(FrameSet), s # <<>>
    PROVE  /\ Tail(s) \in Seq(FrameSet)
           /\ Len(Tail(s)) = Len(s) - 1
           /\ \A i \in 1..(Len(s) - 1) : Tail(s)[i] = s[i + 1]
           /\ Head(s) = s[1]
           /\ Head(s) \in FrameSet
           /\ Len(s) >= 1
  OBVIOUS

\* One frame in place of the innermost.
LEMMA ReplaceStack ==
    ASSUME NEW s \in Seq(FrameSet), s # <<>>, NEW f \in FrameSet
    PROVE  /\ <<f>> \o Tail(s) \in Seq(FrameSet)
           /\ Len(<<f>> \o Tail(s)) = Len(s)
           /\ (<<f>> \o Tail(s))[1] = f
           /\ \A i \in 2..Len(s) : (<<f>> \o Tail(s))[i] = s[i]
<1>1. Tail(s) \in Seq(FrameSet) /\ Len(Tail(s)) = Len(s) - 1
      /\ (\A i \in 1..(Len(s) - 1) : Tail(s)[i] = s[i + 1]) /\ Len(s) >= 1
  BY PopStack
<1>2. /\ <<f>> \o Tail(s) \in Seq(FrameSet)
      /\ Len(<<f>> \o Tail(s)) = Len(Tail(s)) + 1
      /\ (<<f>> \o Tail(s))[1] = f
      /\ \A i \in 1..Len(Tail(s)) : (<<f>> \o Tail(s))[i + 1] = Tail(s)[i]
  BY <1>1, PushStack
<1>3. ASSUME NEW i \in 2..Len(s) PROVE (<<f>> \o Tail(s))[i] = s[i]
  <2>1. i - 1 \in 1..(Len(s) - 1) /\ (i - 1) + 1 = i
    BY <1>1
  <2> QED
    BY <1>1, <1>2, <2>1
<1> QED
  BY <1>1, <1>2, <1>3

\* Two frames in place of the innermost: a call made by it.
LEMMA CallStack ==
    ASSUME NEW s \in Seq(FrameSet), s # <<>>, NEW f \in FrameSet, NEW g \in FrameSet
    PROVE  /\ <<f, g>> \o Tail(s) \in Seq(FrameSet)
           /\ Len(<<f, g>> \o Tail(s)) = Len(s) + 1
           /\ (<<f, g>> \o Tail(s))[1] = f
           /\ (<<f, g>> \o Tail(s))[2] = g
           /\ \A i \in 2..Len(s) : (<<f, g>> \o Tail(s))[i + 1] = s[i]
<1>1. Tail(s) \in Seq(FrameSet) /\ Len(Tail(s)) = Len(s) - 1
      /\ (\A i \in 1..(Len(s) - 1) : Tail(s)[i] = s[i + 1]) /\ Len(s) >= 1
  BY PopStack
<1>2. /\ <<f, g>> \in Seq(FrameSet)
      /\ Len(<<f, g>>) = 2 /\ <<f, g>>[1] = f /\ <<f, g>>[2] = g
  OBVIOUS
<1>3. ASSUME NEW a \in Seq(FrameSet), NEW b \in Seq(FrameSet)
      PROVE /\ a \o b \in Seq(FrameSet)
            /\ Len(a \o b) = Len(a) + Len(b)
            /\ \A i \in 1..Len(a) : (a \o b)[i] = a[i]
            /\ \A i \in 1..Len(b) : (a \o b)[Len(a) + i] = b[i]
  OBVIOUS
<1>4. ASSUME NEW i \in 2..Len(s) PROVE (<<f, g>> \o Tail(s))[i + 1] = s[i]
  <2>1. i - 1 \in 1..(Len(s) - 1) /\ (i - 1) + 1 = i /\ 2 + (i - 1) = i + 1
    BY <1>1
  <2> QED
    BY <1>1, <1>2, <1>3, <2>1
<1> QED
  BY <1>1, <1>2, <1>3, <1>4

-----------------------------------------------------------------------------
(* Types.                                                                  *)

LEMMA InnermostFrame ==
    ASSUME TypeOK, NEW t \in Threads, stack[t] # <<>>
    PROVE  /\ stack[t] \in Seq(FrameSet)
           /\ Top(t) \in FrameSet
           /\ Top(t) = stack[t][1]
           /\ Top(t).det \in Detections
           /\ Top(t).at \in Nat \ {0}
           /\ Returned(t) \in FrameSet
           /\ Returned(t).op = Top(t).op
           /\ Returned(t).det = Top(t).det
<1>1. stack[t] \in Seq(FrameSet)
  BY DEF TypeOK, FrameSet
<1>2. Top(t) \in FrameSet /\ Top(t) = stack[t][1]
  BY <1>1, PopStack DEF Top
<1>3. QED
  BY <1>1, <1>2 DEF FrameSet, Returned

LEMMA FrameType ==
    ASSUME NEW o \in Ops, NEW d \in Detections, NEW n \in Nat \ {0}
    PROVE  /\ Frame(o, d, n) \in FrameSet
           /\ Frame(o, d, n).op = o
           /\ Frame(o, d, n).det = d
  BY DEF Frame, FrameSet

\* A step that leaves everything but the stack of t keeps the types, when the
\* new stack is one.
LEMMA OneStack ==
    ASSUME TypeOK, NEW t \in Threads, NEW n \in Seq(FrameSet),
           stack' = [stack EXCEPT ![t] = n]
    PROVE  /\ stack' \in [Threads -> Seq(FrameSet)]
           /\ stack'[t] = n
           /\ \A u \in Threads : u # t => stack'[u] = stack[u]
  BY DEF TypeOK, FrameSet

LEMMA InsideTypes == ASSUME TypeOK, NEW t \in Threads, Inside(t) PROVE TypeOK'
<1> USE DEF At
<1> DEFINE Stacks == stack' \in [Threads -> Seq(FrameSet)]
<1>a. ASSUME Stacks, UNCHANGED <<subs, pending, main, queue, drain, batch, scores, suppressed>>
      PROVE TypeOK'
  BY <1>a DEF TypeOK, FrameSet
<1>b. ASSUME stack[t] # <<>>, NEW f \in FrameSet, Replace(t, f) PROVE Stacks
  <2>1. <<f>> \o Tail(stack[t]) \in Seq(FrameSet)
    BY <1>b, InnermostFrame, ReplaceStack
  <2> QED
    BY <1>b, <2>1, OneStack DEF Replace
<1>c. ASSUME stack[t] # <<>>, Pop(t) PROVE Stacks
  <2>1. Tail(stack[t]) \in Seq(FrameSet)
    BY <1>c, InnermostFrame, PopStack
  <2> QED
    BY <1>c, <2>1, OneStack DEF Pop
<1>d. ASSUME stack[t] # <<>>, NEW f \in FrameSet, NEW g \in FrameSet,
             stack' = [stack EXCEPT ![t] = <<f, g>> \o Tail(@)]
      PROVE Stacks
  <2>1. <<f, g>> \o Tail(stack[t]) \in Seq(FrameSet)
    BY <1>d, InnermostFrame, CallStack
  <2> QED
    BY <1>d, <2>1, OneStack
<1>1. ASSUME RLock(t) PROVE TypeOK'
  <2>1. Frame("each", Top(t).det, 1) \in FrameSet
    BY <1>1, InnermostFrame, FrameType DEF RLock, Ops
  <2> QED
    BY <1>1, <2>1, <1>a, <1>b DEF RLock
<1>2. ASSUME DeliverToLog(t) PROVE TypeOK'
  BY <1>2, <1>a, <1>b, InnermostFrame DEF DeliverToLog, Turn
<1>3. ASSUME DeliverToGraph(t) PROVE TypeOK'
  <2>1. CASE Replace(t, Returned(t))
    BY <1>3, <2>1, <1>a, <1>b, InnermostFrame DEF DeliverToGraph, Turn
  <2>2. CASE ~Replace(t, Returned(t))
    <3> DEFINE n == <<Returned(t)>> \o Tail(stack[t])
               i == Frame("rlock", [kind |-> "incident", src |-> Top(t).det.src], 1)
    <3>1. PICK g \in Incidents : stack[g] = <<>>
             /\ stack' = [stack EXCEPT ![t] = n, ![g] = <<i>>]
      BY <1>3, <2>2 DEF DeliverToGraph
    <3>2. n \in Seq(FrameSet)
      BY <1>3, InnermostFrame, ReplaceStack DEF DeliverToGraph, Turn
    <3>3. i \in FrameSet
      BY <1>3, InnermostFrame DEF DeliverToGraph, Turn, Frame, FrameSet, Ops, Detections, Kinds
    <3>4. <<i>> \in Seq(FrameSet)
      BY <3>3
    <3>5. stack \in [Threads -> Seq(FrameSet)]
      BY DEF TypeOK, FrameSet
    <3> HIDE DEF n, i
    <3>6. Stacks
      BY <3>1, <3>2, <3>4, <3>5
    <3> QED
      BY <3>6, <1>3, <1>a DEF DeliverToGraph
  <2> QED
    BY <2>1, <2>2
<1>4. ASSUME DeliverToBehaviour(t) PROVE TypeOK'
  <2>1. stack[t] # <<>> /\ Top(t).det \in Detections
        /\ Frame("behave", Top(t).det, 1) \in FrameSet /\ Returned(t) \in FrameSet
    BY <1>4, InnermostFrame, FrameType DEF DeliverToBehaviour, Turn, Ops
  <2>2. Stacks
    <3>1. CASE EntersEngine(Top(t).det)
      BY <1>4, <2>1, <1>d, <3>1 DEF DeliverToBehaviour
    <3>2. CASE ~EntersEngine(Top(t).det)
      BY <1>4, <2>1, <1>b, <3>2 DEF DeliverToBehaviour
    <3> QED
      BY <3>1, <3>2
  <2>3. queue' \in Seq(Addresses)
    <3>1. CASE UNCHANGED queue
      BY <3>1 DEF TypeOK
    <3>2. CASE queue' = Append(queue, Top(t).det.src)
      BY <2>1, <3>2 DEF TypeOK, Detections
    <3> QED
      BY <1>4, <3>1, <3>2 DEF DeliverToBehaviour
  <2> QED
    BY <2>2, <2>3, <1>4 DEF DeliverToBehaviour, TypeOK, FrameSet
<1>5. ASSUME DeliverToDns(t) PROVE TypeOK'
  <2>1. stack[t] # <<>> /\ Frame("dns", Top(t).det, 1) \in FrameSet /\ Returned(t) \in FrameSet
    BY <1>5, InnermostFrame, FrameType DEF DeliverToDns, Turn, Ops
  <2> QED
    BY <1>5, <2>1, <1>a, <1>d DEF DeliverToDns
<1>6. ASSUME RUnlock(t) PROVE TypeOK'
  BY <1>6, <1>a, <1>c DEF RUnlock
<1>7. ASSUME BehaveLock(t) PROVE TypeOK'
  <2>1. Frame("behaving", Top(t).det, 1) \in FrameSet
    BY <1>7, InnermostFrame, FrameType DEF BehaveLock, Ops
  <2> QED
    BY <1>7, <2>1, <1>a, <1>b DEF BehaveLock
<1>8. ASSUME Behave(t) PROVE TypeOK'
  <2> DEFINE f == Frame("rlock", [kind |-> "distbrute", src |-> "Multiple"], 1)
             g == Frame("settled", Top(t).det, 1)
  <2>1. stack[t] # <<>> /\ f \in FrameSet /\ g \in FrameSet
    BY <1>8, InnermostFrame DEF Behave, Ops, Frame, FrameSet, Detections, Kinds, Addresses
  <2>2. Pop(t) \/ stack' = [stack EXCEPT ![t] = <<f, g>> \o Tail(@)]
    BY <1>8 DEF Behave, Calling
  <2> HIDE DEF f, g
  <2> QED
    BY <1>8, <2>1, <2>2, <1>a, <1>c, <1>d DEF Behave
<1>9. ASSUME BehaveUnlock(t) PROVE TypeOK'
  BY <1>9, <1>a, <1>c DEF BehaveUnlock
<1>10. ASSUME DnsRecord(t) PROVE TypeOK'
  <2>1. Stacks
    BY <1>10, <1>c DEF DnsRecord
  <2>2. suppressed' \subseteq {"nxflood", "axfr"} \X Addresses
    <3>1. Top(t).det.src \in Addresses
      BY <1>10, InnermostFrame DEF DnsRecord, Detections
    <3>2. CASE Top(t).det.kind \in {"nxflood", "axfr"}
      <4>1. <<Top(t).det.kind, Top(t).det.src>> \in {"nxflood", "axfr"} \X Addresses
        BY <3>1, <3>2
      <4>2. suppressed' = suppressed \cup {<<Top(t).det.kind, Top(t).det.src>>}
        BY <1>10, <3>2 DEF DnsRecord
      <4> QED
        BY <4>1, <4>2 DEF TypeOK
    <3>3. CASE Top(t).det.kind \notin {"nxflood", "axfr"}
      BY <1>10, <3>3 DEF DnsRecord, TypeOK
    <3> QED
      BY <3>2, <3>3
  <2> QED
    BY <1>10, <2>1, <2>2 DEF DnsRecord, TypeOK, FrameSet
<1>11. ASSUME TrackLock(t) PROVE TypeOK'
  <2>1. Frame("tracking", Top(t).det, 1) \in FrameSet
    BY <1>11, InnermostFrame, FrameType DEF TrackLock, Ops
  <2> QED
    BY <1>11, <2>1, <1>a, <1>b DEF TrackLock
<1>12. ASSUME TrackCheck(t) PROVE TypeOK'
  <2>1. stack[t] # <<>> /\ Frame("rlock", Top(t).det, 1) \in FrameSet /\ Returned(t) \in FrameSet
    BY <1>12, InnermostFrame, FrameType DEF TrackCheck, Ops
  <2> QED
    BY <1>12, <2>1, <1>a, <1>b, <1>d DEF TrackCheck, Calling
<1>13. ASSUME TrackUnlock(t) PROVE TypeOK'
  BY <1>13, <1>a, <1>c DEF TrackUnlock
<1> QED
  BY <1>1, <1>2, <1>3, <1>4, <1>5, <1>6, <1>7, <1>8, <1>9, <1>10, <1>11, <1>12, <1>13 DEF Inside

\* What a handler reports of the traffic it meets is a kind of detection.
LEMMA MeetsKinds == ASSUME NEW h \in Handlers PROVE Meets(h) \ {"chunk"} \subseteq Kinds
  BY ConstantsOK DEF Meets, Kinds

\* A call that a thread outside every call begins.
LEMMA BeginTypes ==
    ASSUME TypeOK, NEW t \in Threads, stack[t] = <<>>, NEW f \in FrameSet, Push(t, f)
    PROVE  stack' \in [Threads -> Seq(FrameSet)] /\ Len(stack'[t]) = 1 /\ stack'[t][1] = f
           /\ \A u \in Threads : u # t => stack'[u] = stack[u]
<1>1. stack[t] \in Seq(FrameSet) /\ Len(stack[t]) = 0
  BY DEF TypeOK, FrameSet
<1>2. /\ <<f>> \o stack[t] \in Seq(FrameSet) /\ Len(<<f>> \o stack[t]) = 1
      /\ (<<f>> \o stack[t])[1] = f
  BY <1>1, PushStack
<1> QED
  BY <1>2, OneStack DEF Push

\* While the drain loop is in a flush, every vector left has its score.
Matched == drain \in {"scored", "locked"} => Len(scores) = Len(batch)

LEMMA OutsideTypes ==
    ASSUME TypeOK, Matched,
           \/ \E h \in Handlers : HandlerEmits(h) \/ Track(h)
           \/ HoneypotEmits
           \/ Subscribing
           \/ Drain
           \/ Forget
    PROVE  TypeOK'
<1>1. ASSUME NEW t \in Threads, NEW k \in Kinds, NEW s \in Sources, Emit(t, k, s) PROVE TypeOK'
  <2>1. Frame("rlock", [kind |-> k, src |-> s], 1) \in FrameSet
    BY DEF Frame, FrameSet, Ops, Detections, Addresses
  <2> QED
    BY <1>1, <2>1, BeginTypes DEF Emit, TypeOK, FrameSet
<1>2. ASSUME NEW h \in Handlers, HandlerEmits(h) PROVE TypeOK'
  BY <1>1, <1>2, MeetsKinds DEF HandlerEmits, Threads
<1>3. ASSUME NEW h \in Handlers, Track(h) PROVE TypeOK'
  <2>1. PICK s \in Sources : Push(h, Frame("track", [kind |-> "alert", src |-> s], 1))
    BY <1>3 DEF Track
  <2>2. Frame("track", [kind |-> "alert", src |-> s], 1) \in FrameSet
    BY DEF Frame, FrameSet, Ops, Detections, Addresses, Kinds
  <2> QED
    BY <1>3, <2>1, <2>2, BeginTypes DEF Track, TypeOK, FrameSet, Threads
<1>4. ASSUME HoneypotEmits PROVE TypeOK'
  BY <1>1, <1>4 DEF HoneypotEmits, Threads, Kinds
<1>5. ASSUME Subscribing PROVE TypeOK'
  <2>1. subs' = subs \/ subs' = Append(subs, "behaviour") \/ subs' = Append(subs, "dns")
    BY <1>5 DEF Subscribing, MainLock, MainSubscribe, DrainLock, DrainSubscribe
  <2>2. ASSUME NEW e \in Subscribers PROVE Append(subs, e) \in Seq(Subscribers)
    BY DEF TypeOK
  <2>3. subs' \in Seq(Subscribers)
    BY <2>1, <2>2 DEF TypeOK, Subscribers
  <2> QED
    BY <1>5, <2>3 DEF Subscribing, MainLock, MainSubscribe, DrainLock, DrainSubscribe, TypeOK
<1>6. ASSUME DrainVector PROVE TypeOK'
  <2>1. /\ scores \in Seq(Scored \cup {"none"}) /\ scores # <<>>
        /\ batch \in Seq(Addresses) /\ batch # <<>>
    BY <1>6 DEF DrainVector, TypeOK, Matched
  <2>2. /\ batch' \in Seq(Addresses) /\ scores' \in Seq(Scored \cup {"none"})
        /\ Head(scores) \in Scored \cup {"none"} /\ Head(batch) \in Addresses
    BY <1>6, <2>1 DEF DrainVector
  <2>3. stack' \in [Threads -> Seq(FrameSet)]
    <3>1. CASE UNCHANGED stack
      BY <3>1 DEF TypeOK, FrameSet
    <3>2. CASE ~UNCHANGED stack
      <4> DEFINE f == Frame("rlock", [kind |-> Head(scores), src |-> Head(batch)], 1)
      <4>1. Head(scores) \in Kinds /\ Push("drain", f)
        BY <1>6, <2>2, <3>2, ConstantsOK DEF DrainVector, Kinds
      <4>2. f \in FrameSet
        BY <2>2, <4>1 DEF Frame, FrameSet, Ops, Detections
      <4>3. stack["drain"] = <<>> /\ "drain" \in Threads
        BY <1>6 DEF DrainVector, Threads
      <4> HIDE DEF f
      <4> QED
        BY <4>1, <4>2, <4>3, BeginTypes
    <3> QED
      BY <3>1, <3>2
  <2> QED
    BY <1>6, <2>2, <2>3 DEF DrainVector, TypeOK, FrameSet
<1>7. ASSUME DrainReceive PROVE TypeOK'
  <2>1. batch' \in Seq(Addresses) /\ queue' \in Seq(Addresses)
    BY <1>7 DEF DrainReceive, TypeOK
  <2> QED
    BY <1>7, <2>1 DEF DrainReceive, TypeOK
<1>8. ASSUME DrainScore PROVE TypeOK'
  <2>1. scores' \in Seq(Scored \cup {"none"})
    BY <1>8 DEF DrainScore, TypeOK
  <2> QED
    BY <1>8, <2>1 DEF DrainScore, TypeOK
<1>9. ASSUME DrainError PROVE TypeOK'
  <2>1. batch' \in Seq(Addresses)
    BY <1>9 DEF DrainError
  <2> QED
    BY <1>9, <2>1 DEF DrainError, TypeOK
<1>10. ASSUME DrainMutex \/ DrainUnlock \/ Forget PROVE TypeOK'
  BY <1>10 DEF DrainMutex, DrainUnlock, Forget, TypeOK
<1> QED
  BY <1>2, <1>3, <1>4, <1>5, <1>6, <1>7, <1>8, <1>9, <1>10 DEF Drain

LEMMA NextMatched == TypeOK /\ Matched /\ [Next]_vars => Matched'
<1> SUFFICES ASSUME TypeOK, Matched, [Next]_vars PROVE Matched'
  OBVIOUS
<1>1. CASE UNCHANGED <<drain, batch, scores>>
  BY <1>1 DEF Matched
<1>2. ASSUME DrainVector PROVE Matched'
  BY <1>2 DEF DrainVector, Matched, TypeOK
<1>3. ASSUME DrainScore PROVE Matched'
  BY <1>3 DEF DrainScore, Matched, TypeOK
<1>4. ASSUME DrainReceive \/ DrainError \/ DrainMutex \/ DrainUnlock \/ Subscribing PROVE Matched'
  BY <1>4 DEF DrainReceive, DrainError, DrainMutex, DrainUnlock, Matched, TypeOK,
       Subscribing, MainLock, MainSubscribe, DrainLock, DrainSubscribe
<1>5. ASSUME NEW t \in Threads, Inside(t) PROVE UNCHANGED <<drain, batch, scores>>
  BY <1>5 DEF Inside, RLock, DeliverToLog, DeliverToGraph, DeliverToBehaviour, DeliverToDns,
       RUnlock, BehaveLock, Behave, BehaveUnlock, DnsRecord, TrackLock, TrackCheck, TrackUnlock
<1>6. ASSUME NEW h \in Handlers, HandlerEmits(h) \/ Track(h) PROVE UNCHANGED <<drain, batch, scores>>
  BY <1>6 DEF HandlerEmits, Emit, Track
<1>7. ASSUME HoneypotEmits \/ Forget \/ UNCHANGED vars PROVE UNCHANGED <<drain, batch, scores>>
  BY <1>7 DEF HoneypotEmits, Emit, Forget, vars
<1> QED
  BY <1>1, <1>2, <1>3, <1>4, <1>5, <1>6, <1>7 DEF Next, Drain

LEMMA InitTypes == Init => TypeOK /\ Matched
<1> SUFFICES ASSUME Init PROVE TypeOK /\ Matched
  OBVIOUS
<1>1. subs \in Seq(Subscribers)
  BY DEF Init, Subscribers
<1>2. stack \in [Threads -> Seq([op : Ops, det : Detections, at : Nat \ {0}])]
  BY DEF Init
<1> QED
  BY <1>1, <1>2 DEF Init, TypeOK, Matched

LEMMA NextTypes == TypeOK /\ Matched /\ [Next]_vars => TypeOK'
<1> SUFFICES ASSUME TypeOK, Matched, [Next]_vars PROVE TypeOK'
  OBVIOUS
<1>1. CASE UNCHANGED vars
  BY <1>1 DEF vars, TypeOK
<1> QED
  BY <1>1, InsideTypes, OutsideTypes DEF Next

\* Every variable of the bus keeps its type, in both modes.
THEOREM TypeCorrect == Spec => []TypeOK
<1>1. Spec => [](TypeOK /\ Matched)
  BY InitTypes, NextTypes, NextMatched, PTL DEF Spec
<1> QED
  BY <1>1, PTL

-----------------------------------------------------------------------------
(* The shapes of a stack in the integrated mode, the innermost call first: *)
(* nothing, an emission, TrackConnection, an emission inside it, the       *)
(* teardown callback inside an emission, and an emission inside that.      *)

Emitting(f) == f.op \in {"rlock", "each"}

Shape(s) ==
    \/ Len(s) = 0
    \/ Len(s) = 1 /\ Emitting(s[1])
    \/ Len(s) = 1 /\ s[1].op \in {"track", "tracking"} /\ s[1].det.kind = "alert"
    \/ /\ Len(s) = 2
       /\ Emitting(s[1]) /\ s[1].det.kind = "alert"
       /\ s[2].op = "tracking" /\ s[2].det.kind = "alert"
    \/ /\ Len(s) = 2
       /\ s[1].op \in {"behave", "behaving", "settled"}
       /\ s[2].op = "each"
    \/ /\ Len(s) = 3
       /\ Emitting(s[1]) /\ s[1].det.kind = "distbrute"
       /\ s[2].op = "settled"
       /\ s[3].op = "each"

Integrated ==
    /\ drain = "off"
    /\ pending \in {"nobody", "main"}
    /\ pending = "main" => main = "setup"
    /\ \A i \in DOMAIN subs : subs[i] # "dns"
    /\ main = "setup" =>
          /\ \A i \in DOMAIN subs : subs[i] # "behaviour"
          /\ \A t \in Threads : Len(stack[t]) = 0 \/ (Len(stack[t]) = 1 /\ Emitting(stack[t][1]))
    /\ \A t \in Threads : Shape(stack[t])

LEMMA ShapeMeansRuns == TypeOK /\ Integrated => EngineHolderRuns
<1> SUFFICES ASSUME TypeOK, Integrated, NEW t \in BehaviourHolders PROVE ~Waits(t)
  BY DEF EngineHolderRuns
<1>1. t \in Threads /\ stack[t] \in Seq(FrameSet)
  BY DEF BehaviourHolders, TypeOK, FrameSet
<1>2. PICK i \in 1..Len(stack[t]) : stack[t][i].op \in {"behaving", "settled", "tracking"}
  BY <1>1 DEF BehaviourHolders, In
<1>3. Shape(stack[t]) /\ stack[t] # <<>> /\ Head(stack[t]) = stack[t][1]
  BY <1>1, <1>2 DEF Integrated
<1>4. stack[t][1].op \notin {"behave", "track", "dns"}
  BY <1>1, <1>2, <1>3 DEF Shape, Emitting
<1>5. main = "started"
  <2> SUFFICES ASSUME main = "setup" PROVE FALSE
    BY DEF TypeOK
  <2>1. Len(stack[t]) = 0 \/ (Len(stack[t]) = 1 /\ Emitting(stack[t][1]))
    BY <1>1 DEF Integrated
  <2>2. i = 1 /\ Emitting(stack[t][1])
    BY <1>2, <2>1
  <2> QED
    BY <1>2, <2>2 DEF Emitting
<1> QED
  BY <1>3, <1>4, <1>5 DEF Waits, At, Integrated

\* What a step inside a call does to the shape of its stack.
LEMMA InsideShape ==
    ASSUME TypeOK, Integrated, NEW t \in Threads, Inside(t)
    PROVE  Integrated'
<1> USE DEF At
<1>t. stack[t] \in Seq(FrameSet) /\ stack \in [Threads -> Seq(FrameSet)] /\ Shape(stack[t])
  BY DEF TypeOK, FrameSet, Integrated
\* It is enough to look at the stacks, and at the stack of t when only that changes.
<1>a. ASSUME \A u \in Threads : Shape(stack'[u]),
             main = "setup" => \A u \in Threads :
                Len(stack'[u]) = 0 \/ (Len(stack'[u]) = 1 /\ Emitting(stack'[u][1])),
             UNCHANGED <<drain, pending, main, subs>>
      PROVE Integrated'
  BY <1>a DEF Integrated
<1>b. ASSUME NEW n \in Seq(FrameSet), stack' = [stack EXCEPT ![t] = n], Shape(n),
             main = "setup" => Len(n) = 0 \/ (Len(n) = 1 /\ Emitting(n[1])),
             UNCHANGED <<drain, pending, main, subs>>
      PROVE Integrated'
  <2>1. stack'[t] = n /\ \A u \in Threads : u # t => stack'[u] = stack[u]
    BY <1>b, <1>t
  <2> QED
    BY <1>a, <1>b, <2>1 DEF Integrated
\* A frame that keeps the innermost call what it is keeps the shape.
<1>c. ASSUME stack[t] # <<>>, NEW f \in FrameSet, Replace(t, f),
             Emitting(f) <=> Emitting(Top(t)), Emitting(f) \/ f.op = Top(t).op,
             f.det = Top(t).det, UNCHANGED <<drain, pending, main, subs>>
      PROVE Integrated'
  <2> DEFINE n == <<f>> \o Tail(stack[t])
  <2>1. /\ n \in Seq(FrameSet) /\ Len(n) = Len(stack[t]) /\ n[1] = f
        /\ \A i \in 2..Len(stack[t]) : n[i] = stack[t][i]
    BY <1>c, <1>t, ReplaceStack
  <2>2. stack' = [stack EXCEPT ![t] = n]
    BY <1>c DEF Replace
  <2>3. Top(t) = stack[t][1]
    BY <1>c, InnermostFrame
  <2> HIDE DEF n
  <2>4. Shape(n)
    BY <1>c, <1>t, <2>1, <2>3 DEF Shape, Emitting
  <2>5. main = "setup" => Len(n) = 0 \/ (Len(n) = 1 /\ Emitting(n[1]))
    BY <1>c, <1>t, <2>1, <2>3 DEF Integrated
  <2> QED
    BY <1>b, <1>c, <2>1, <2>2, <2>4, <2>5
\* The innermost call returns.
<1>d. ASSUME stack[t] # <<>>, Pop(t), Shape(Tail(stack[t])),
             main = "setup" => Len(Tail(stack[t])) = 0,
             UNCHANGED <<drain, pending, main, subs>>
      PROVE Integrated'
  <2>1. stack' = [stack EXCEPT ![t] = Tail(stack[t])]
    BY <1>d DEF Pop
  <2>2. Tail(stack[t]) \in Seq(FrameSet)
    BY <1>d, <1>t, PopStack
  <2> DEFINE n == Tail(stack[t])
  <2>3. n \in Seq(FrameSet) /\ stack' = [stack EXCEPT ![t] = n] /\ Shape(n)
        /\ (main = "setup" => Len(n) = 0)
    BY <1>d, <2>1, <2>2
  <2> HIDE DEF n
  <2> QED
    BY <1>b, <1>d, <2>3
\* While the engine is being built, a call is a bare emission.
<1>e. ASSUME stack[t] # <<>>, ~Emitting(Top(t)) PROVE main # "setup"
  BY <1>e, <1>t, InnermostFrame DEF Integrated
\* Whose turn it is is a subscriber.
<1>s. ASSUME NEW e, Turn(t, e) PROVE \E i \in DOMAIN subs : subs[i] = e
  <2>1. Top(t).at \in Nat \ {0} /\ Top(t).at <= Len(subs) /\ subs[Top(t).at] = e
    BY <1>s, InnermostFrame DEF Turn
  <2>2. DOMAIN subs = 1..Len(subs) /\ Len(subs) \in Nat
    BY DEF TypeOK
  <2> QED
    BY <2>1, <2>2
<1>1. ASSUME RLock(t) PROVE Integrated'
  <2>1. Frame("each", Top(t).det, 1) \in FrameSet /\ Emitting(Frame("each", Top(t).det, 1))
        /\ Frame("each", Top(t).det, 1).det = Top(t).det /\ Emitting(Top(t))
    BY <1>1, InnermostFrame, FrameType DEF RLock, Ops, Emitting, Top
  <2> QED
    BY <1>1, <2>1, <1>c DEF RLock
<1>2. ASSUME DeliverToLog(t) PROVE Integrated'
  <2>1. /\ stack[t] # <<>> /\ Top(t).op = "each" /\ Returned(t).op = "each"
        /\ Returned(t).det = Top(t).det /\ Returned(t) \in FrameSet
    BY <1>2, InnermostFrame DEF DeliverToLog, Turn, Top
  <2> QED
    BY <1>2, <2>1, <1>c DEF DeliverToLog, Emitting
<1>3. ASSUME DeliverToGraph(t) PROVE Integrated'
  <2>1. CASE Replace(t, Returned(t))
    BY <1>3, <2>1, <1>c, InnermostFrame DEF DeliverToGraph, Turn, Emitting
  <2>2. CASE ~Replace(t, Returned(t))
    <3> DEFINE n == <<Returned(t)>> \o Tail(stack[t])
               f == Frame("rlock", [kind |-> "incident", src |-> Top(t).det.src], 1)
    <3>1. PICK g \in Incidents : stack[g] = <<>>
             /\ stack' = [stack EXCEPT ![t] = n, ![g] = <<f>>]
      BY <1>3, <2>2 DEF DeliverToGraph
    <3>2. /\ stack[t] # <<>> /\ Top(t) = stack[t][1] /\ Top(t).op = "each"
          /\ Returned(t).op = "each" /\ Returned(t).det = Top(t).det /\ Returned(t) \in FrameSet
      BY <1>3, InnermostFrame DEF DeliverToGraph, Turn, Top
    <3>3. /\ n \in Seq(FrameSet) /\ Len(n) = Len(stack[t]) /\ n[1] = Returned(t)
          /\ \A i \in 2..Len(stack[t]) : n[i] = stack[t][i]
      BY <1>t, <3>2, ReplaceStack
    <3>4. Emitting(f) /\ Len(<<f>>) = 1 /\ <<f>>[1] = f
      BY DEF Frame, Emitting
    <3> HIDE DEF n, f
    <3>5. Shape(n) /\ (main = "setup" => Len(n) = 1 /\ Emitting(n[1]))
      BY <1>t, <3>2, <3>3 DEF Shape, Emitting, Integrated
    <3>6. Shape(<<f>>)
      BY <3>4 DEF Shape
    <3>7. ASSUME NEW u \in Threads
          PROVE stack'[u] = stack[u] \/ stack'[u] = n \/ stack'[u] = <<f>>
      BY <1>t, <3>1
    <3> QED
      BY <1>3, <1>a, <3>4, <3>5, <3>6, <3>7 DEF DeliverToGraph, Integrated
  <2> QED
    BY <2>1, <2>2
<1>4. ASSUME DeliverToBehaviour(t) PROVE Integrated'
  <2>1. /\ stack[t] # <<>> /\ Top(t) = stack[t][1] /\ Top(t).op = "each"
        /\ Returned(t).op = "each" /\ Returned(t).det = Top(t).det /\ Returned(t) \in FrameSet
    BY <1>4, InnermostFrame DEF DeliverToBehaviour, Turn, Top
  <2>2. CASE ~EntersEngine(Top(t).det)
    BY <1>4, <2>1, <2>2, <1>c DEF DeliverToBehaviour, Emitting
  <2>3. CASE EntersEngine(Top(t).det)
    <3> DEFINE f == Frame("behave", Top(t).det, 1)
               n == <<f, Returned(t)>> \o Tail(stack[t])
    <3>1. f \in FrameSet /\ f.op = "behave"
      BY <2>1, InnermostFrame, FrameType DEF Ops
    <3>2. n \in Seq(FrameSet) /\ Len(n) = Len(stack[t]) + 1 /\ n[1] = f /\ n[2] = Returned(t)
      BY <1>t, <2>1, <3>1, CallStack
    <3>3. stack' = [stack EXCEPT ![t] = n]
      BY <1>4, <2>3 DEF DeliverToBehaviour
    <3>4. Len(stack[t]) = 1
      BY <1>t, <2>1, <2>3 DEF Shape, Emitting, EntersEngine
    <3>5. main # "setup"
      BY <1>4, <1>s DEF DeliverToBehaviour, Integrated
    <3> HIDE DEF f, n
    <3>6. Shape(n)
      BY <2>1, <3>1, <3>2, <3>4 DEF Shape
    <3> QED
      BY <1>4, <1>b, <3>2, <3>3, <3>5, <3>6 DEF DeliverToBehaviour
  <2> QED
    BY <2>2, <2>3
<1>5. ~DeliverToDns(t)
  BY <1>s DEF DeliverToDns, Integrated
<1>6. ASSUME RUnlock(t) PROVE Integrated'
  <2>1. stack[t] # <<>> /\ stack[t][1].op = "each"
    BY <1>6, InnermostFrame DEF RUnlock, Top
  <2>2. /\ Len(Tail(stack[t])) = Len(stack[t]) - 1
        /\ \A i \in 1..(Len(stack[t]) - 1) : Tail(stack[t])[i] = stack[t][i + 1]
    BY <1>t, <2>1, PopStack
  <2>3. Shape(Tail(stack[t]))
    BY <1>t, <2>1, <2>2 DEF Shape, Emitting
  <2>4. ASSUME main = "setup" PROVE Len(Tail(stack[t])) = 0
    <3>1. Len(stack[t]) = 0 \/ Len(stack[t]) = 1
      BY <2>4 DEF Integrated
    <3>2. Len(stack[t]) # 0
      BY <1>t, <2>1
    <3> QED
      BY <2>2, <3>1, <3>2
  <2> QED
    BY <1>6, <1>d, <2>1, <2>3, <2>4 DEF RUnlock
<1>7. ASSUME BehaveLock(t) PROVE Integrated'
  <2> DEFINE f == Frame("behaving", Top(t).det, 1)
             n == <<f>> \o Tail(stack[t])
  <2>1. /\ stack[t] # <<>> /\ stack[t][1].op = "behave" /\ ~Emitting(Top(t))
        /\ f \in FrameSet /\ f.op = "behaving"
    BY <1>7, InnermostFrame, FrameType DEF BehaveLock, Top, Ops, Emitting
  <2>2. /\ n \in Seq(FrameSet) /\ Len(n) = Len(stack[t]) /\ n[1] = f
        /\ \A i \in 2..Len(stack[t]) : n[i] = stack[t][i]
    BY <1>t, <2>1, ReplaceStack
  <2>3. stack' = [stack EXCEPT ![t] = n]
    BY <1>7 DEF BehaveLock, Replace
  <2> HIDE DEF f, n
  <2>4. Shape(n)
    BY <1>t, <2>1, <2>2 DEF Shape, Emitting
  <2> QED
    BY <1>7, <1>b, <1>e, <2>1, <2>2, <2>3, <2>4 DEF BehaveLock
<1>8. ASSUME Behave(t) PROVE Integrated'
  <2> DEFINE f == Frame("rlock", [kind |-> "distbrute", src |-> "Multiple"], 1)
             g == Frame("settled", Top(t).det, 1)
             n == <<f, g>> \o Tail(stack[t])
  <2>1. /\ stack[t] # <<>> /\ stack[t][1].op = "behaving" /\ ~Emitting(Top(t))
        /\ f \in FrameSet /\ g \in FrameSet
        /\ f.op = "rlock" /\ f.det.kind = "distbrute" /\ g.op = "settled"
    BY <1>8, InnermostFrame DEF Behave, Top, Emitting, Ops, Frame, FrameSet, Detections, Kinds, Addresses
  <2>2. Len(stack[t]) = 2 /\ stack[t][2].op = "each"
    BY <1>t, <2>1 DEF Shape, Emitting
  <2>3. CASE Pop(t)
    <3>1. Len(Tail(stack[t])) = 1 /\ Tail(stack[t])[1].op = "each"
      <4>1. 1 \in 1..(Len(stack[t]) - 1) /\ 1 + 1 = 2
        BY <2>2
      <4>2. Tail(stack[t])[1] = stack[t][1 + 1] /\ Len(Tail(stack[t])) = Len(stack[t]) - 1
        BY <1>t, <2>1, <4>1, PopStack
      <4> QED
        BY <2>2, <4>1, <4>2
    <3> QED
      BY <1>8, <1>d, <1>e, <2>1, <2>3, <3>1 DEF Behave, Shape, Emitting
  <2>4. CASE stack' = [stack EXCEPT ![t] = n]
    <3>1. /\ n \in Seq(FrameSet) /\ Len(n) = Len(stack[t]) + 1 /\ n[1] = f /\ n[2] = g
          /\ \A i \in 2..Len(stack[t]) : n[i + 1] = stack[t][i]
      BY <1>t, <2>1, CallStack
    <3>2. n[3] = stack[t][2]
      BY <2>2, <3>1
    <3> HIDE DEF f, g, n
    <3>3. Shape(n)
      BY <2>1, <2>2, <3>1, <3>2 DEF Shape, Emitting
    <3> QED
      BY <1>8, <1>b, <1>e, <2>1, <2>4, <3>1, <3>3 DEF Behave
  <2> QED
    BY <1>8, <2>3, <2>4 DEF Behave, Calling
<1>9. ASSUME BehaveUnlock(t) PROVE Integrated'
  <2>1. stack[t] # <<>> /\ stack[t][1].op = "settled" /\ ~Emitting(Top(t))
    BY <1>9, InnermostFrame DEF BehaveUnlock, Top, Emitting
  <2>2. Len(stack[t]) = 2 /\ stack[t][2].op = "each"
    BY <1>t, <2>1 DEF Shape, Emitting
  <2>3. Len(Tail(stack[t])) = 1 /\ Tail(stack[t])[1].op = "each"
    <3>1. 1 \in 1..(Len(stack[t]) - 1) /\ 1 + 1 = 2
      BY <2>2
    <3>2. Tail(stack[t])[1] = stack[t][1 + 1] /\ Len(Tail(stack[t])) = Len(stack[t]) - 1
      BY <1>t, <2>1, <3>1, PopStack
    <3> QED
      BY <2>2, <3>1, <3>2
  <2> QED
    BY <1>9, <1>d, <1>e, <2>1, <2>3 DEF BehaveUnlock, Shape, Emitting
<1>10. ~DnsRecord(t)
  <2> SUFFICES ASSUME DnsRecord(t) PROVE FALSE
    OBVIOUS
  <2>1. stack[t] # <<>> /\ stack[t][1].op = "dns"
    BY InnermostFrame DEF DnsRecord, Top
  <2> QED
    BY <1>t, <2>1 DEF Shape, Emitting
<1>11. ASSUME TrackLock(t) PROVE Integrated'
  <2> DEFINE f == Frame("tracking", Top(t).det, 1)
             n == <<f>> \o Tail(stack[t])
  <2>1. /\ stack[t] # <<>> /\ stack[t][1].op = "track" /\ ~Emitting(Top(t)) /\ Top(t) = stack[t][1]
        /\ f \in FrameSet /\ f.op = "tracking" /\ f.det = Top(t).det
    BY <1>11, InnermostFrame, FrameType DEF TrackLock, Top, Ops, Emitting
  <2>2. n \in Seq(FrameSet) /\ Len(n) = Len(stack[t]) /\ n[1] = f
    BY <1>t, <2>1, ReplaceStack
  <2>3. stack' = [stack EXCEPT ![t] = n]
    BY <1>11 DEF TrackLock, Replace
  <2> HIDE DEF f, n
  <2>4. Shape(n)
    BY <1>t, <2>1, <2>2 DEF Shape, Emitting
  <2> QED
    BY <1>11, <1>b, <1>e, <2>1, <2>2, <2>3, <2>4 DEF TrackLock
<1>12. ASSUME TrackCheck(t) PROVE Integrated'
  <2> DEFINE f == Frame("rlock", Top(t).det, 1)
             n == <<f, Returned(t)>> \o Tail(stack[t])
  <2>1. /\ stack[t] # <<>> /\ stack[t][1].op = "tracking" /\ ~Emitting(Top(t)) /\ Top(t) = stack[t][1]
        /\ f \in FrameSet /\ f.op = "rlock" /\ f.det = Top(t).det
        /\ Returned(t) \in FrameSet /\ Returned(t).op = "tracking" /\ Returned(t).det = Top(t).det
    BY <1>12, InnermostFrame, FrameType DEF TrackCheck, Top, Ops, Emitting
  <2>2. Len(stack[t]) = 1 /\ stack[t][1].det.kind = "alert"
    BY <1>t, <2>1 DEF Shape, Emitting
  <2>3. CASE Replace(t, Returned(t))
    BY <1>12, <1>c, <2>1, <2>3 DEF TrackCheck, Emitting
  <2>4. CASE stack' = [stack EXCEPT ![t] = n]
    <3>1. n \in Seq(FrameSet) /\ Len(n) = Len(stack[t]) + 1 /\ n[1] = f /\ n[2] = Returned(t)
      BY <1>t, <2>1, CallStack
    <3> HIDE DEF f, n
    <3>2. Shape(n)
      BY <2>1, <2>2, <3>1 DEF Shape, Emitting
    <3> QED
      BY <1>12, <1>b, <1>e, <2>1, <2>4, <3>1, <3>2 DEF TrackCheck
  <2> QED
    BY <1>12, <2>3, <2>4 DEF TrackCheck, Calling
<1>13. ASSUME TrackUnlock(t) PROVE Integrated'
  <2>1. stack[t] # <<>> /\ stack[t][1].op = "tracking" /\ ~Emitting(Top(t))
    BY <1>13, InnermostFrame DEF TrackUnlock, Top, Emitting
  <2>2. Len(stack[t]) = 1
    BY <1>t, <2>1 DEF Shape, Emitting
  <2>3. Len(Tail(stack[t])) = 0
    BY <1>t, <2>1, <2>2, PopStack
  <2> QED
    BY <1>13, <1>d, <2>1, <2>3 DEF TrackUnlock, Shape
<1> QED
  BY <1>1, <1>2, <1>3, <1>4, <1>5, <1>6, <1>7, <1>8, <1>9, <1>10, <1>11, <1>12, <1>13 DEF Inside

LEMMA OutsideShape ==
    ASSUME TypeOK, Integrated,
           \/ \E h \in Handlers : HandlerEmits(h) \/ Track(h)
           \/ HoneypotEmits
           \/ Subscribing
           \/ Drain
           \/ Forget
    PROVE  Integrated'
\* A call that begins, and that is an emission while the engine is being built.
<1>1. ASSUME NEW t \in Threads, stack[t] = <<>>, NEW f \in FrameSet, Push(t, f),
             Emitting(f) \/ (main # "setup" /\ f.op = "track" /\ f.det.kind = "alert"),
             UNCHANGED <<drain, pending, main, subs>>
      PROVE Integrated'
  <2>1. /\ Len(stack'[t]) = 1 /\ stack'[t][1] = f
        /\ \A u \in Threads : u # t => stack'[u] = stack[u]
    BY <1>1, BeginTypes
  <2>2. Shape(stack'[t])
    BY <1>1, <2>1 DEF Shape
  <2> QED
    BY <1>1, <2>1, <2>2 DEF Integrated
<1>2. ASSUME NEW t \in Threads, NEW k \in Kinds, NEW s \in Sources, Emit(t, k, s) PROVE Integrated'
  <2>1. [kind |-> k, src |-> s] \in Detections
    BY DEF Detections, Addresses
  <2>2. /\ Frame("rlock", [kind |-> k, src |-> s], 1) \in FrameSet
        /\ Emitting(Frame("rlock", [kind |-> k, src |-> s], 1))
    BY <2>1, FrameType DEF Ops, Emitting
  <2> QED
    BY <1>1, <1>2, <2>2 DEF Emit
<1>3. ASSUME NEW h \in Handlers, HandlerEmits(h) PROVE Integrated'
  BY <1>2, <1>3, MeetsKinds DEF HandlerEmits, Threads
<1>4. ASSUME NEW h \in Handlers, Track(h) PROVE Integrated'
  <2>1. PICK s \in Sources : Push(h, Frame("track", [kind |-> "alert", src |-> s], 1))
    BY <1>4 DEF Track
  <2>2. [kind |-> "alert", src |-> s] \in Detections
    BY DEF Detections, Addresses, Kinds
  <2> DEFINE f == Frame("track", [kind |-> "alert", src |-> s], 1)
  <2>3. f \in FrameSet /\ f.op = "track" /\ f.det.kind = "alert"
    BY <2>2, FrameType DEF Ops
  <2> HIDE DEF f
  <2> QED
    BY <1>1, <1>4, <2>1, <2>3 DEF Track, Threads, f
<1>5. ASSUME HoneypotEmits PROVE Integrated'
  BY <1>2, <1>5 DEF HoneypotEmits, Threads, Kinds
<1>6. ASSUME MainLock PROVE Integrated'
  BY <1>6 DEF MainLock, Integrated
<1>7. ASSUME MainSubscribe PROVE Integrated'
  <2>1. \A i \in DOMAIN subs' : subs'[i] # "dns"
    BY <1>7 DEF MainSubscribe, Integrated, TypeOK
  <2> QED
    BY <1>7, <2>1 DEF MainSubscribe, Integrated
<1>8. ~DrainLock /\ ~DrainSubscribe /\ ~Drain
  BY DEF DrainLock, DrainSubscribe, Drain, DrainReceive, DrainScore, DrainError,
      DrainMutex, DrainVector, DrainUnlock, Integrated
<1>9. ASSUME Forget PROVE Integrated'
  BY <1>9 DEF Forget, Integrated
<1> QED
  BY <1>3, <1>4, <1>5, <1>6, <1>7, <1>8, <1>9 DEF Subscribing

\* The mode never changes: a process that runs the drain loop goes on running it.
LEMMA ModeStays == [Next]_vars /\ drain' = "off" => drain = "off"
  BY DEF Next, vars, Inside, RLock, DeliverToLog, DeliverToGraph, DeliverToBehaviour,
      DeliverToDns, RUnlock, BehaveLock, Behave, BehaveUnlock, DnsRecord, TrackLock,
      TrackCheck, TrackUnlock, HandlerEmits, Track, HoneypotEmits, Emit, Subscribing,
      MainLock, MainSubscribe, DrainLock, DrainSubscribe, Drain, DrainReceive,
      DrainScore, DrainError, DrainMutex, DrainVector, DrainUnlock, Forget

\* In the integrated mode, whoever holds the behavioural engine's lock can take
\* its next step, whatever the number of handlers, graph goroutines and sources.
THEOREM EngineNeverStuck == Spec => []EngineHolderRuns
<1> DEFINE IInv == drain = "off" => Integrated
<1>1. Init => IInv
  <2> SUFFICES ASSUME Init, drain = "off" PROVE Integrated
    OBVIOUS
  <2>1. \A t \in Threads : Len(stack[t]) = 0 /\ Shape(stack[t])
    BY DEF Init, Shape
  <2>2. \A i \in DOMAIN subs : subs[i] # "dns" /\ subs[i] # "behaviour"
    BY DEF Init
  <2>3. drain = "off" /\ pending = "nobody" /\ main = "setup"
    BY DEF Init
  <2> QED
    BY <2>1, <2>2, <2>3 DEF Integrated
<1>2. TypeOK /\ IInv /\ [Next]_vars => IInv'
  <2> SUFFICES ASSUME TypeOK, IInv, [Next]_vars, drain' = "off" PROVE Integrated'
    OBVIOUS
  <2>1. Integrated
    BY ModeStays
  <2>2. CASE UNCHANGED vars
    BY <2>1, <2>2 DEF vars, Integrated
  <2> QED
    BY <2>1, <2>2, InsideShape, OutsideShape DEF Next
<1>3. TypeOK /\ IInv => EngineHolderRuns
  BY ShapeMeansRuns DEF EngineHolderRuns
<1> QED
  BY <1>1, <1>2, <1>3, TypeCorrect, PTL DEF Spec

=============================================================================

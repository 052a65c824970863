------------------------------- MODULE Queue -------------------------------
(***************************************************************************)
(* queue::Queue<T> (src/common/queue/queue.h): a FIFO under mutex_ with a  *)
(* condition variable for each side.  A section under mutex_ is one step;  *)
(* Push() signals queue_not_empty_ after it has released mutex_, PopTimed()*)
(* signals queue_not_full_ before.  A blocked thread that is in no wait    *)
(* set has been woken (or has just been called) and will look again.       *)
(***************************************************************************)
EXTENDS Integers, Sequences, FiniteSets

CONSTANTS
    Producers, Consumers, Elements, NoElement,
    MaxLength,      \* max_length_; 0 is "no limit"
    MaxPushes       \* bound: calls of Push() by each producer

ASSUME SidesAssumption ==
    IsFiniteSet(Producers) /\ IsFiniteSet(Consumers) /\ Producers \cap Consumers = {}
ASSUME LengthAssumption == MaxLength \in Nat /\ MaxPushes \in Nat
ASSUME ElementAssumption == NoElement \notin Elements

VARIABLES
    queue,
    ppc,            \* Push(): "out", "in" (to push or to wait), "notify" (line 47)
    element,        \* its argument
    pushes,         \* calls of Push() so far
    cpc,            \* PopTimed(): "out" or "in"
    result,         \* what the last PopTimed() of each consumer gave
    not_full,       \* the producers asleep on queue_not_full_
    not_empty       \* the consumers asleep on queue_not_empty_

vars == <<queue, ppc, element, pushes, cpc, result, not_full, not_empty>>

(* The members hold values of their types, queue_ is never longer than its   *)
(* limit, whoever pushes at the same time (lines 36-44), and only threads    *)
(* inside a call sleep.                                                      *)
TypeOK ==
    /\ queue \in Seq(Elements)
    /\ MaxLength # 0 => Len(queue) <= MaxLength
    /\ ppc \in [Producers -> {"out", "in", "notify"}]
    /\ element \in [Producers -> Elements]
    /\ pushes \in [Producers -> 0..MaxPushes]
    /\ cpc \in [Consumers -> {"out", "in"}]
    /\ result \in [Consumers -> Elements \cup {NoElement}]
    /\ not_full \subseteq {p \in Producers : ppc[p] = "in"}
    /\ not_empty \subseteq {c \in Consumers : cpc[c] = "in"}

Init ==
    /\ queue = <<>>
    /\ ppc = [p \in Producers |-> "out"]
    /\ element \in [Producers -> Elements]
    /\ pushes = [p \in Producers |-> 0]
    /\ cpc = [c \in Consumers |-> "out"]
    /\ result = [c \in Consumers |-> NoElement]
    /\ not_full = {} /\ not_empty = {}

-----------------------------------------------------------------------------
(* notify_one() on a condition variable with these sleepers: who still sleeps. *)
NotifyOne(sleepers) == IF sleepers = {} THEN {{}} ELSE {sleepers \ {s} : s \in sleepers}

(* Mutant: the limit is off by one. *)
IsFullOffByOne == MaxLength # 0 /\ Len(queue) > MaxLength

(* Lines 36 and 39. *)
IsFull == MaxLength # 0 /\ Len(queue) >= MaxLength

PushCall(p, e) ==
    /\ ppc[p] = "out" /\ pushes[p] < MaxPushes
    /\ ppc' = [ppc EXCEPT ![p] = "in"]
    /\ element' = [element EXCEPT ![p] = e]
    /\ pushes' = [pushes EXCEPT ![p] = @ + 1]
    /\ UNCHANGED <<queue, cpc, result, not_full, not_empty>>

(* Lines 33-44: with mutex_, sleep while the queue is full, then push. *)
Push(p) ==
    /\ ppc[p] = "in" /\ p \notin not_full
    /\ \/ /\ IsFull
          /\ not_full' = not_full \cup {p}
          /\ UNCHANGED <<queue, ppc>>
       \/ /\ ~IsFull
          /\ queue' = Append(queue, element[p])
          /\ ppc' = [ppc EXCEPT ![p] = "notify"]
          /\ UNCHANGED not_full
    /\ UNCHANGED <<element, pushes, cpc, result, not_empty>>

(* Mutant: Push() signals only the push that ended the emptiness. *)
NotifyOnlyFirst == IF Len(queue) = 1 THEN NotifyOne(not_empty) ELSE {not_empty}

(* Line 47. *)
NotifyNotEmpty == NotifyOne(not_empty)

(* Line 47: signal after mutex_ has been released, and return. *)
PushNotify(p) ==
    /\ ppc[p] = "notify"
    /\ ppc' = [ppc EXCEPT ![p] = "out"]
    /\ not_empty' \in NotifyNotEmpty
    /\ UNCHANGED <<queue, element, pushes, cpc, result, not_full>>

-----------------------------------------------------------------------------
PopCall(c) ==
    /\ cpc[c] = "out"
    /\ cpc' = [cpc EXCEPT ![c] = "in"]
    /\ UNCHANGED <<queue, ppc, element, pushes, result, not_full, not_empty>>

(* Mutant: PopTimed() does not signal. *)
NotifyNoProducer == {not_full}

(* Line 92. *)
NotifyNotFull == NotifyOne(not_full)

(* Lines 87-94: take the first element and signal, all under mutex_. *)
Take(c) ==
    /\ queue # <<>>
    /\ result' = [result EXCEPT ![c] = Head(queue)]
    /\ queue' = Tail(queue)
    /\ not_full' \in NotifyNotFull
    /\ cpc' = [cpc EXCEPT ![c] = "out"]

(* Lines 74-85: with mutex_, sleep while the queue is empty, then take. *)
PopTimed(c) ==
    /\ cpc[c] = "in" /\ c \notin not_empty
    /\ \/ /\ queue = <<>>
          /\ not_empty' = not_empty \cup {c}
          /\ UNCHANGED <<queue, cpc, result, not_full>>
       \/ /\ Take(c)
          /\ UNCHANGED not_empty
    /\ UNCHANGED <<ppc, element, pushes>>

(* Mutant: a timeout fails without another look at the queue. *)
MayFailAnyway == TRUE

(* wait_for() evaluates its predicate once more when the time is up. *)
MayFail == queue = <<>>

(* Lines 79-84: the timeout, of a consumer that is asleep or has just been woken. *)
PopTimeout(c) ==
    /\ cpc[c] = "in"
    /\ not_empty' = not_empty \ {c}
    /\ \/ Take(c)
       \/ /\ MayFail
          /\ cpc' = [cpc EXCEPT ![c] = "out"]
          /\ result' = [result EXCEPT ![c] = NoElement]
          /\ UNCHANGED <<queue, not_full>>
    /\ UNCHANGED <<ppc, element, pushes>>

(* A condition variable may wake a waiter without a notification. *)
SpuriousWakeup ==
    /\ \/ \E p \in not_full : not_full' = not_full \ {p} /\ UNCHANGED not_empty
       \/ \E c \in not_empty : not_empty' = not_empty \ {c} /\ UNCHANGED not_full
    /\ UNCHANGED <<queue, ppc, element, pushes, cpc, result>>

Next ==
    \/ \E p \in Producers, e \in Elements : PushCall(p, e)
    \/ \E p \in Producers : Push(p) \/ PushNotify(p)
    \/ \E c \in Consumers : PopCall(c) \/ PopTimed(c) \/ PopTimeout(c)
    \/ SpuriousWakeup

(* A thread that is awake inside a call gets mutex_ and goes on.  Nobody is  *)
(* obliged to call, and no timeout is obliged to happen (Pop() waits hours). *)
Fairness ==
    /\ \A p \in Producers : WF_vars(Push(p)) /\ WF_vars(PushNotify(p))
    /\ \A c \in Consumers : WF_vars(PopTimed(c))

Spec == Init /\ [][Next]_vars
FairSpec == Spec /\ Fairness

-----------------------------------------------------------------------------
(* Queue<T> keeps the promise of BoundedBuffer.  A call has taken effect     *)
(* when its thread has changed queue_.                                       *)
Buffer == INSTANCE BoundedBuffer WITH
    buffer <- queue,
    push <- [p \in Producers |-> IF ppc[p] = "notify" THEN "done" ELSE ppc[p]],
    pop <- cpc

(* Every step of the condition-variable protocol (lines 31-95) is a step of  *)
(* the atomic buffer or invisible in it.                                     *)
ImplementsBuffer == Buffer!Spec

(* While a consumer sleeps, every element has someone on the way to take it: *)
(* a producer about to signal (line 47) or a consumer already awake.         *)
NoSleepOnElements ==
    not_empty # {} =>
        Len(queue) <= Cardinality({p \in Producers : ppc[p] = "notify"})
                      + Cardinality({c \in Consumers : cpc[c] = "in"} \ not_empty)

(* While a producer sleeps, every free place has a producer awake to fill it *)
(* (the notification of line 92 is not lost on a full queue).                *)
NoSleepOnRoom ==
    not_full # {} =>
        MaxLength - Len(queue) <= Cardinality({p \in Producers : ppc[p] = "in"} \ not_full)

(* Nobody sleeps on a queue that has what he waits for and nobody awake to   *)
(* take or fill it, although each push and pop notifies one thread at most,  *)
(* outside the lock or before a timeout (lines 47, 79-84 and 92).            *)
NotificationsSuffice == NoSleepOnElements /\ NoSleepOnRoom

(* Nobody sleeps for ever on an element: a sleeping Pop() wakes up or the    *)
(* queue is emptied by others, also when other pops time out (lines 79-84).  *)
SleeperGetsElement ==
    \A c \in Consumers :
        (c \in not_empty /\ queue # <<>>) ~> (c \notin not_empty \/ queue = <<>>)

(* Nobody sleeps for ever on a free place: a sleeping Push() wakes up or the *)
(* queue is filled by others (lines 38-39 and 92).                           *)
SleeperGetsRoom ==
    \A p \in Producers : (p \in not_full /\ ~IsFull) ~> (p \notin not_full \/ IsFull)

(* Neither side of the queue is left asleep by the other (lines 31-95). *)
SleepersWake == SleeperGetsElement /\ SleeperGetsRoom
=============================================================================

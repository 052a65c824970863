--------------------------- MODULE BoundedBuffer ---------------------------
(***************************************************************************)
(* What queue::Queue<T> (src/common/queue/queue.h) promises its callers:   *)
(* Push() puts its element at the end, once, and only while there is room; *)
(* PopTimed() takes the first element, or fails and then found the queue   *)
(* empty.  How threads sleep and wake is not part of the promise.          *)
(***************************************************************************)
EXTENDS Integers, Sequences

CONSTANTS
    Producers, Consumers,
    Elements,
    NoElement,      \* the outcome of a PopTimed() that returned false
    MaxLength       \* max_length_; 0 is "no limit"

VARIABLES
    buffer,
    push,           \* each producer: "out" of Push(), "in" it, or "done" with its element
    element,        \* each producer's argument
    pop,            \* each consumer: "out" of PopTimed() or "in" it
    result          \* what each consumer's last PopTimed() gave

vars == <<buffer, push, element, pop, result>>

Init ==
    /\ buffer = <<>>
    /\ push = [p \in Producers |-> "out"]
    /\ element \in [Producers -> Elements]
    /\ pop = [c \in Consumers |-> "out"]
    /\ result = [c \in Consumers |-> NoElement]

HasRoom == MaxLength = 0 \/ Len(buffer) < MaxLength

CallPush(p, e) ==
    /\ push[p] = "out"
    /\ push' = [push EXCEPT ![p] = "in"]
    /\ element' = [element EXCEPT ![p] = e]
    /\ UNCHANGED <<buffer, pop, result>>

Put(p) ==
    /\ push[p] = "in" /\ HasRoom
    /\ buffer' = Append(buffer, element[p])
    /\ push' = [push EXCEPT ![p] = "done"]
    /\ UNCHANGED <<element, pop, result>>

ReturnPush(p) ==
    /\ push[p] = "done"
    /\ push' = [push EXCEPT ![p] = "out"]
    /\ UNCHANGED <<buffer, element, pop, result>>

CallPop(c) ==
    /\ pop[c] = "out"
    /\ pop' = [pop EXCEPT ![c] = "in"]
    /\ UNCHANGED <<buffer, push, element, result>>

Take(c) ==
    /\ pop[c] = "in" /\ buffer # <<>>
    /\ buffer' = Tail(buffer)
    /\ pop' = [pop EXCEPT ![c] = "out"]
    /\ result' = [result EXCEPT ![c] = Head(buffer)]
    /\ UNCHANGED <<push, element>>

Fail(c) ==
    /\ pop[c] = "in" /\ buffer = <<>>
    /\ pop' = [pop EXCEPT ![c] = "out"]
    /\ result' = [result EXCEPT ![c] = NoElement]
    /\ UNCHANGED <<buffer, push, element>>

Next ==
    \/ \E p \in Producers, e \in Elements : CallPush(p, e)
    \/ \E p \in Producers : Put(p) \/ ReturnPush(p)
    \/ \E c \in Consumers : CallPop(c) \/ Take(c) \/ Fail(c)

Spec == Init /\ [][Next]_vars
=============================================================================

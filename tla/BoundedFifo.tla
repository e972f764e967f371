---------------------------- MODULE BoundedFifo ----------------------------
(***************************************************************************)
(* What the single-producer single-consumer ring promises the two threads  *)
(* of the datalogger (ring_buffer.h:33-45): a first-in first-out queue of  *)
(* at most Room elements.  A push either appends its argument or is        *)
(* refused because the queue is full; a pop returns the oldest element or, *)
(* of an empty queue, Nothing.  A push is refused when it is called and    *)
(* takes effect in one later step, a pop takes effect in one step.         *)
(***************************************************************************)
EXTENDS Naturals, Sequences

CONSTANTS
    Element,    \* what can be pushed
    Room,       \* how many elements fit
    Nothing     \* what a pop of an empty queue returns

VARIABLES
    queue,      \* the elements pushed and not yet popped, oldest first
    pushing,    \* a push is under way
    src,        \* the argument of the producer's last push
    pushed,     \* the result of the producer's last push
    popped      \* the result of the consumer's last pop

vars == <<queue, pushing, src, pushed, popped>>

TypeOK ==
    /\ queue \in Seq(Element)
    /\ Len(queue) <= Room
    /\ pushing \in BOOLEAN
    /\ src \in Element
    /\ pushed \in {"none", "ok", "full"}
    /\ popped \in Element \cup {Nothing}

Init ==
    /\ queue = <<>>
    /\ pushing = FALSE
    /\ src \in Element
    /\ pushed = "none"
    /\ popped = Nothing

Refuse(e) ==
    /\ ~pushing
    /\ Len(queue) = Room
    /\ src' = e
    /\ pushed' = "full"
    /\ UNCHANGED <<queue, pushing, popped>>

Call(e) ==
    /\ ~pushing
    /\ Len(queue) < Room
    /\ src' = e
    /\ pushing' = TRUE
    /\ UNCHANGED <<queue, pushed, popped>>

Push ==
    /\ pushing
    /\ queue' = Append(queue, src)
    /\ pushed' = "ok"
    /\ pushing' = FALSE
    /\ UNCHANGED <<src, popped>>

Pop ==
    /\ queue # <<>>
    /\ popped' = Head(queue)
    /\ queue' = Tail(queue)
    /\ UNCHANGED <<pushing, src, pushed>>

PopNothing ==
    /\ queue = <<>>
    /\ popped' = Nothing
    /\ UNCHANGED <<queue, pushing, src, pushed>>

Next ==
    \/ \E e \in Element : Refuse(e) \/ Call(e)
    \/ Push
    \/ Pop
    \/ PopNothing

Spec == Init /\ [][Next]_vars
============================================================================

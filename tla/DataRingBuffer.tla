--------------------------- MODULE DataRingBuffer ---------------------------
(***************************************************************************)
(* DataRingBuffer<T>: a first-in, first-out buffer of fixed capacity that  *)
(* forgets its oldest item when one is pushed into it while it is full.    *)
(* Every method holds the buffer's own mutex, so it is one step; here it   *)
(* is an operator on the buffer's members.  Contents is the reference: the *)
(* items a buffer holds, oldest first.                                     *)
(***************************************************************************)
EXTENDS Integers, Sequences

CONSTANTS
    Items,      \* what is put into a buffer
    Blank,      \* what a slot holds before it is written
    Capacity    \* maxSize_

ASSUME RingAssumption == Capacity \in Nat \ {0} /\ Blank \notin Items

Slots == 0 .. Capacity - 1

Rings == [buffer : [Slots -> Items \cup {Blank}], head : Slots, tail : Slots,
          full : BOOLEAN]

NewRing == [buffer |-> [i \in Slots |-> Blank], head |-> 0, tail |-> 0,
            full |-> FALSE]

\* (i + 1) % maxSize_ and (i + n) % maxSize_, of indices below maxSize_.
After(i) == IF i + 1 = Capacity THEN 0 ELSE i + 1
Plus(i, n) == IF i + n >= Capacity THEN i + n - Capacity ELSE i + n

IsEmpty(r) == ~r.full /\ r.head = r.tail

\* Faulty variant of push(): a full buffer keeps its tail.
PushOver(r, x) ==
    [r EXCEPT !.buffer[r.head] = x, !.head = After(@),
              !.full = After(r.head) = r.tail]

Push(r, x) ==
    LET tail == IF r.full THEN After(r.tail) ELSE r.tail
        head == After(r.head)
    IN  [buffer |-> [r.buffer EXCEPT ![r.head] = x], head |-> head,
         tail |-> tail, full |-> head = tail]

\* get(): what it returns, and the buffer it leaves.  An empty buffer returns
\* what is in its first slot.
Got(r) == IF IsEmpty(r) THEN r.buffer[0] ELSE r.buffer[r.tail]
PoppedNot(r) == [r EXCEPT !.full = FALSE]   \* faulty variant: the tail stays
Popped(r) ==
    IF IsEmpty(r) THEN r ELSE [r EXCEPT !.full = FALSE, !.tail = After(@)]

\* clear() leaves the slots as they are.
Cleared(r) == [r EXCEPT !.head = 0, !.tail = 0, !.full = FALSE]

\* back(): the slot before the head, whether or not the buffer is empty.
Back(r) == r.buffer[IF r.head = 0 THEN Capacity - 1 ELSE r.head - 1]

Size(r) ==
    IF r.full THEN Capacity
    ELSE IF r.head >= r.tail THEN r.head - r.tail
    ELSE Capacity + r.head - r.tail

Contents(r) == [i \in 1 .. Size(r) |-> r.buffer[Plus(r.tail, i - 1)]]
=============================================================================

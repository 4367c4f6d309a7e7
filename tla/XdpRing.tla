------------------------------ MODULE XdpRing ------------------------------
(***************************************************************************)
(* The four AF_XDP rings, as xdp_fill, xdp_rx, xdp_tx, xdp_tx_sg and       *)
(* xdp_complete_tx compute with them: two free-running u32 counters and    *)
(* Size slots.  The counters are modulo Wrap (2^32 in the code), the slot  *)
(* of a counter is its value & RING_MASK.                                  *)
(***************************************************************************)
EXTENDS Integers, Sequences, FiniteSets

CONSTANTS Size,     \* slots of each ring (RING_MASK + 1)
          Wrap,     \* the counters are modulo this
          NULL      \* the content of a slot nobody has written

ASSUME SizeAssumption == Size \in Nat \ {0}
ASSUME WrapAssumption == Wrap \in Nat /\ Wrap > Size /\ Wrap % Size = 0

Slot(c) == c % Size

\* prod - cons, in u32
Count(r) == (r.prod - r.cons) % Wrap

\* fault: one slot too many is taken for free
FreeEntriesOffByOne(r) == Size + 1 - Count(r)

\* UMEM_CHUNK_COUNT - (prod - cons)
FreeEntries(r) == Size - Count(r)

\* The slots the consumer may read.
Pending(r) == {Slot(r.cons + i) : i \in 0 .. Count(r) - 1}

\* The k entries of ring r from counter c on.
Entries(r, c, k) == [i \in 1 .. k |-> r.slot[Slot(c + i - 1)]]

\* The ring with the entries es stored from the producer on.
Store(r, es) ==
  [r EXCEPT !.slot =
     [s \in DOMAIN @ |->
        IF \E i \in DOMAIN es : s = Slot(r.prod + i - 1)
        THEN es[CHOOSE i \in DOMAIN es : s = Slot(r.prod + i - 1)]
        ELSE @[s]]]

Produce(r, k) == [r EXCEPT !.prod = (@ + k) % Wrap]
Consume(r, k) == [r EXCEPT !.cons = (@ + k) % Wrap]

EmptyRing == [prod |-> 0, cons |-> 0, slot |-> [s \in 0 .. Size - 1 |-> NULL]]

Smaller(a, b) == IF a < b THEN a ELSE b
Elems(s) == {s[i] : i \in DOMAIN s}
=============================================================================

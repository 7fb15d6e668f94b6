----------------------------- MODULE IPSelection -----------------------------
(***************************************************************************)
(* The choice of a free static address for a deployment, from              *)
(* internal/commands/ipselection.go.  An address is the sequence of its    *)
(* bytes, a static range of the cloud-config a sequence of one address (an *)
(* entry without a dash) or of the two addresses around the dash.  Parsing *)
(* the JSON of the bosh CLI and the YAML inside it is left out.            *)
(***************************************************************************)
EXTENDS Naturals, Sequences

CONSTANTS
  Width,    \* bytes of an address: 4
  Base,     \* values of a byte: 256
  Limit     \* the safety limit of parseIPRange: 1000

ASSUME WidthAssumption == Width \in Nat \ {0}
ASSUME BaseAssumption == Base \in Nat /\ Base > 1
ASSUME LimitAssumption == Limit \in Nat \ {0}

Byte == 0 .. Base - 1
Address == [1 .. Width -> Byte]

-----------------------------------------------------------------------------
\* The bytes that wrap around when one is added: the last ones that are full.
Carried(a) == {i \in 1 .. Width : \A j \in i .. Width : a[j] = Base - 1}

\* Mutant: only the last byte counts.
IncrementLastByte(a) == [a EXCEPT ![Width] = (@ + 1) % Base]

IncrementIP(a) ==
  [i \in 1 .. Width |->
     IF i \in Carried(a) THEN 0
     ELSE IF i = Width \/ i + 1 \in Carried(a) THEN a[i] + 1
     ELSE a[i]]

\* The loop of parseIPRange: the address after n turns, and the number of turns
\* before it meets the end of the range or has passed the safety limit.
Nth(first, n) ==
  LET nth[k \in Nat] == IF k = 0 THEN first ELSE IncrementIP(nth[k - 1]) IN nth[n]

Turns(first, last) ==
  LET meets == {n \in 0 .. Limit : Nth(first, n) = last}
  IN  IF meets = {} THEN Limit + 1
      ELSE CHOOSE n \in meets : \A m \in meets : n <= m

\* Mutant: the loop stops before the end of the range.
ParseIPRangeOpen(range) ==
  IF Len(range) # 2 THEN range
  ELSE [i \in 1 .. Turns(range[1], range[2]) |-> Nth(range[1], i - 1)]

\* The end of the range is appended wherever the loop stopped.
ParseIPRange(range) ==
  IF Len(range) # 2 THEN range
  ELSE LET n == Turns(range[1], range[2])
       IN  [i \in 1 .. n + 1 |-> IF i <= n THEN Nth(range[1], i - 1) ELSE range[2]]

\* What SelectAvailableIP can return: the first address of the range that is not in
\* use, none when all are.
SelectAvailableIP(range, used) ==
  LET ips  == ParseIPRange(range)
      free == {i \in 1 .. Len(ips) : ips[i] \notin used}
  IN  {ips[i] : i \in {i \in free : \A j \in free : i <= j}}

-----------------------------------------------------------------------------
\* The reference: addresses in their numerical order.
ValueOf(a) ==
  LET val[k \in 0 .. Width] == IF k = 0 THEN 0 ELSE val[k - 1] * Base + a[k]
  IN  val[Width]

InRange(a, range) ==
  IF Len(range) # 2 THEN a = range[1]
  ELSE ValueOf(range[1]) <= ValueOf(a) /\ ValueOf(a) <= ValueOf(range[2])

\* A range that is in order and no longer than the safety limit.
ProperRange(range) ==
  Len(range) = 2 =>
    /\ ValueOf(range[1]) <= ValueOf(range[2])
    /\ ValueOf(range[2]) - ValueOf(range[1]) <= Limit + 1

LowestFree(range, used) ==
  LET free == {a \in Address : InRange(a, range) /\ a \notin used}
  IN  {a \in free : \A b \in free : ValueOf(a) <= ValueOf(b)}
=============================================================================

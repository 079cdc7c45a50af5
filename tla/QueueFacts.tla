----------------------------- MODULE QueueFacts -----------------------------
(***************************************************************************)
(* What appending to a queue and taking from its front do to its last      *)
(* element.  Used by the proofs about events and credentials that are      *)
(* handed out in order.                                                    *)
(***************************************************************************)
EXTENDS Naturals, Sequences, TLAPS

(* The last element of a queue after an element is added at the end.       *)
LEMMA LastOfAppend ==
  ASSUME NEW S, NEW s \in Seq(S), NEW e \in S
  PROVE  /\ Append(s, e) # <<>>
         /\ Append(s, e)[Len(Append(s, e))] = e
OBVIOUS

(* Taking an element from the front of a queue leaves the last one, if the *)
(* queue had more than one.                                                *)
LEMMA LastOfTail ==
  ASSUME NEW S, NEW s \in Seq(S), s # <<>>
  PROVE  IF Tail(s) # <<>> THEN Tail(s)[Len(Tail(s))] = s[Len(s)]
                           ELSE Head(s) = s[Len(s)]
<1>1. /\ Tail(s) \in Seq(S)
      /\ Len(s) \in Nat \ {0}
      /\ Len(Tail(s)) = Len(s) - 1
  OBVIOUS
<1>2. \A i \in 1 .. Len(s) - 1 : Tail(s)[i] = s[i + 1]
  OBVIOUS
<1>3. CASE Tail(s) = <<>>
  <2>1. Len(s) \in Nat
    OBVIOUS
  <2>2. Len(<<>>) = 0
    OBVIOUS
  <2>3. Len(s) - 1 = 0
    BY <1>1, <1>3, <2>2, Zenon
  <2>4. Len(s) = 1
    BY <2>1, <2>3
  <2>5. Head(s) = s[1]
    OBVIOUS
  <2>6. QED
    BY <1>3, <2>4, <2>5, Zenon
<1>4. CASE Tail(s) # <<>>
  <2>1. Len(s) - 1 \in 1 .. Len(s) - 1
    BY <1>1, <1>4
  <2>2. Tail(s)[Len(s) - 1] = s[(Len(s) - 1) + 1]
    BY <1>2, <2>1
  <2>3. QED
    BY <1>1, <1>4, <2>2
<1>5. QED
  BY <1>3, <1>4
=============================================================================

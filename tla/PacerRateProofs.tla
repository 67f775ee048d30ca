--------------------------- MODULE PacerRateProofs ---------------------------
(***************************************************************************)
(* Proofs about the pacer for every set of rates up to MaxRate and every   *)
(* number of intervals.                                                    *)
(***************************************************************************)
EXTENDS PacerRate, TLAPS

\* An interval's share is ten times the rate: the fixed-point multiplier is
\* ten times the number of ticks, so no precision is lost here
\* (clt_mgr_reqrate_pacer_update, the value of t).
LEMMA ShareIsExact ==
    ASSUME NEW r \in Nat \ {0}
    PROVE  IntervalShare(r) = 10 * r
  BY DEF IntervalShare, CDiv, REQRATE_INT, REQRATE_FIXED_MULT

\* What a pacer update computes from an interval that stayed within its
\* permits: the error is only ever clamped from above.
LEMMA UpdateFacts ==
    ASSUME NEW r \in Nat \ {0}, NEW p \in PacerType,
           0 <= p.error, p.error <= 10 * r,
           0 <= p.cur,
           p.cur * REQRATE_FIXED_MULT <= p.error + 10 * r
    PROVE  LET raw == p.error - p.cur * REQRATE_FIXED_MULT + 10 * r
               q == PacerUpdate(r, p)
           IN  /\ q \in PacerType
               /\ q.cur = 0
               /\ q.error = IF raw > 10 * r THEN 10 * r ELSE raw
               /\ 0 <= q.error /\ q.error <= 10 * r
               /\ q.target = r \div REQRATE_INT
                               + q.error \div REQRATE_FIXED_MULT
               /\ 0 <= q.target
  <1> DEFINE raw == p.error - p.cur * REQRATE_FIXED_MULT + 10 * r
             err == IF raw > 10 * r THEN 10 * r ELSE raw
  <1>1. raw \in Int /\ raw >= 0
    BY DEF PacerType, REQRATE_FIXED_MULT
  <1>2. /\ err \in Int /\ 0 <= err /\ err <= 10 * r
        /\ Clamp(raw, 10 * r) = err
    BY <1>1 DEF Clamp
  <1> HIDE DEF raw, err
  <1>3. /\ CDiv(r, REQRATE_INT) = r \div REQRATE_INT
        /\ CDiv(err, REQRATE_FIXED_MULT) = err \div REQRATE_FIXED_MULT
        /\ r \div REQRATE_INT \in Nat
        /\ err \div REQRATE_FIXED_MULT \in Nat
    BY <1>2 DEF CDiv, REQRATE_INT, REQRATE_FIXED_MULT
  <1>4. PacerUpdate(r, p) =
          [error |-> err, cur |-> 0,
           target |-> r \div REQRATE_INT + err \div REQRATE_FIXED_MULT]
    BY <1>2, <1>3, ShareIsExact DEF PacerUpdate, raw
  <1>5. err = IF raw > 10 * r THEN 10 * r ELSE raw
    BY DEF err
  <1> QED
    BY <1>2, <1>3, <1>4, <1>5 DEF PacerType, raw

\* A target bounds the permits of its interval by the share and the error.
LEMMA TargetBound ==
    ASSUME NEW r \in Nat \ {0}, NEW e \in Nat, NEW g \in Int,
           g = r \div REQRATE_INT + e \div REQRATE_FIXED_MULT
    PROVE  /\ g * REQRATE_FIXED_MULT <= e + 10 * r
           /\ r >= REQRATE_INT => g * REQRATE_FIXED_MULT >= e + 1
  BY DEF REQRATE_INT, REQRATE_FIXED_MULT

\* The type invariant of the pacer's state machine together with the ledger
\* that makes it inductive.
THEOREM PacerLedger == Spec => [](TypeOK /\ Ledger)
  <1> DEFINE IInv == TypeOK /\ Ledger
  <1> USE RatesAssumption
  <1>1. Init => IInv
    <2> SUFFICES ASSUME Init PROVE IInv
      OBVIOUS
    <2>1. rate \in Nat \ {0} /\ IntervalShare(rate) = 10 * rate
      BY ShareIsExact DEF Init
    <2> QED
      BY <2>1 DEF Init, TypeOK, Ledger, ErrorWithinInterval, PacerZero,
                  PacerType, REQRATE_INT, REQRATE_FIXED_MULT
  <1>2. IInv /\ [Next]_vars => IInv'
    <2> SUFFICES ASSUME IInv, [Next]_vars PROVE IInv'
      OBVIOUS
    <2>1. rate \in Nat \ {0} /\ IntervalShare(rate) = 10 * rate
      BY ShareIsExact DEF TypeOK
    <2>2. /\ pacer.error \in Nat /\ pacer.error <= 10 * rate
          /\ pacer.cur \in Nat /\ pacer.target \in Nat
          /\ pacer.cur <= pacer.target
      BY <2>1 DEF TypeOK, Ledger, ErrorWithinInterval, PacerType
    <2>3. CASE Tick
      <3> DEFINE raw == pacer.error - pacer.cur * REQRATE_FIXED_MULT
                          + 10 * rate
      <3>0. /\ rate' = rate /\ ticks' = ticks + 1
            /\ issued' = issued + pacer.cur
            /\ pacer' = PacerUpdate(rate, pacer)
            /\ saturated' = (saturated /\ pacer.cur >= pacer.target)
        BY <2>3 DEF Tick
      <3>1. pacer.target * REQRATE_FIXED_MULT <= pacer.error + 10 * rate
        <4>1. CASE ticks = 0
          BY <4>1, <2>1, <2>2
             DEF TypeOK, Ledger, PacerZero, REQRATE_FIXED_MULT
        <4>2. CASE ticks > 0
          BY <4>2, <2>1, <2>2, TargetBound DEF TypeOK, Ledger
        <4> QED
          BY <4>1, <4>2 DEF TypeOK
      <3>2. pacer.cur * REQRATE_FIXED_MULT <= pacer.error + 10 * rate
        BY <3>1, <2>1, <2>2 DEF REQRATE_FIXED_MULT
      <3>3. /\ pacer' \in PacerType
            /\ pacer'.cur = 0
            /\ pacer'.error = IF raw > 10 * rate THEN 10 * rate ELSE raw
            /\ 0 <= pacer'.error /\ pacer'.error <= 10 * rate
            /\ pacer'.target = rate \div REQRATE_INT
                                 + pacer'.error \div REQRATE_FIXED_MULT
            /\ 0 <= pacer'.target
        BY <3>0, <3>2, <2>1, <2>2, UpdateFacts DEF TypeOK
      <3>4. (ticks + 1) * rate = ticks * rate + rate /\ ticks * rate \in Int
        BY <2>1 DEF TypeOK
      <3>5. TypeOK'
        BY <3>0, <3>3, <2>2 DEF TypeOK
      <3>6. pacer'.error + REQRATE_FIXED_MULT * issued'
              <= 10 * (ticks' * rate')
        BY <3>0, <3>3, <3>4, <2>1, <2>2
           DEF TypeOK, Ledger, REQRATE_FIXED_MULT
      <3>7. ASSUME saturated', rate >= REQRATE_INT
            PROVE  pacer'.error + REQRATE_FIXED_MULT * issued'
                     = 10 * (ticks' * rate')
        <4>0. saturated /\ pacer.cur >= pacer.target
          BY <3>7, <3>0, Zenon
        <4>1. saturated /\ pacer.cur = pacer.target
          <5>1. pacer.cur = pacer.target
            BY <4>0, <2>2
          <5> QED
            BY <4>0, <5>1
        <4>2. pacer.target * REQRATE_FIXED_MULT >= pacer.error
          <5>1. CASE ticks = 0
            BY <5>1, <2>2 DEF TypeOK, Ledger, PacerZero, REQRATE_FIXED_MULT
          <5>2. CASE ticks > 0
            BY <5>2, <2>1, <2>2, <3>7, TargetBound
               DEF TypeOK, Ledger, REQRATE_FIXED_MULT
          <5> QED
            BY <5>1, <5>2 DEF TypeOK
        <4>3. raw <= 10 * rate
          BY <4>1, <4>2, <2>1, <2>2 DEF REQRATE_FIXED_MULT
        <4>4. pacer'.error = raw
          BY <4>3, <3>3, <2>1, <2>2 DEF REQRATE_FIXED_MULT
        <4>5. pacer.error + REQRATE_FIXED_MULT * issued = 10 * (ticks * rate)
          BY <4>1, <3>7 DEF Ledger
        <4> QED
          BY <4>4, <4>5, <3>0, <3>4, <2>1, <2>2
             DEF TypeOK, REQRATE_FIXED_MULT
      <3>8. ErrorWithinInterval'
        BY <3>0, <3>3, <2>1 DEF ErrorWithinInterval
      <3> QED
        BY <3>0, <3>3, <3>5, <3>6, <3>7, <3>8 DEF Ledger, TypeOK
    <2>4. CASE Permit
      <3>1. /\ UNCHANGED <<rate, ticks, issued, saturated>>
            /\ pacer.cur < pacer.target
            /\ pacer' = [pacer EXCEPT !.cur = @ + 1]
        BY <2>4, <2>1 DEF Permit, PacerCheck, PacerInc, PacerAdd
      <3>2. /\ pacer' \in PacerType
            /\ pacer'.error = pacer.error /\ pacer'.target = pacer.target
            /\ pacer'.cur = pacer.cur + 1
        BY <3>1 DEF TypeOK, PacerType
      <3>3. ticks # 0
        BY <3>1 DEF Ledger, PacerZero
      <3> QED
        BY <3>1, <3>2, <3>3, <2>1, <2>2
           DEF TypeOK, Ledger, ErrorWithinInterval
    <2>5. CASE UNCHANGED vars
      BY <2>5 DEF vars, TypeOK, Ledger, ErrorWithinInterval
    <2> QED
      BY <2>3, <2>4, <2>5 DEF Next, Done
  <1> QED
    BY <1>1, <1>2, PTL DEF Spec

\* Whatever the rate and the demand, the pacer keeps its types; in particular
\* the requests it lets pass in an interval are never a negative number.
THEOREM PacerTyped == Spec => []TypeOK
  BY PacerLedger, PTL

\* The pacer never lets the long-run request rate exceed the configured one
\* by more than one interval's worth, whatever the demand.
THEOREM PacerNeverExceedsRate == Spec => []RateNeverExceeded
  <1>1. TypeOK /\ Ledger => RateNeverExceeded
    <2> SUFFICES ASSUME TypeOK, Ledger PROVE RateNeverExceeded
      OBVIOUS
    <2>1. rate \in Nat \ {0}
      BY RatesAssumption DEF TypeOK
    <2>2. pacer.error \in Nat /\ pacer.cur \in Nat /\ pacer.target \in Nat
          /\ pacer.cur <= pacer.target
      BY DEF TypeOK, Ledger, ErrorWithinInterval, PacerType
    <2>3. (ticks + 1) * rate = ticks * rate + rate /\ ticks * rate \in Int
      BY <2>1 DEF TypeOK
    <2>4. CASE ticks = 0
      BY <2>4, <2>1
         DEF TypeOK, Ledger, PacerZero, RateNeverExceeded, REQRATE_INT
    <2>5. CASE ticks > 0
      <3>1. pacer.target * REQRATE_FIXED_MULT <= pacer.error + 10 * rate
        BY <2>5, <2>1, <2>2, TargetBound DEF Ledger
      <3> QED
        BY <3>1, <2>1, <2>2, <2>3
           DEF TypeOK, Ledger, RateNeverExceeded, REQRATE_INT,
               REQRATE_FIXED_MULT
    <2> QED
      BY <2>4, <2>5 DEF TypeOK
  <1> QED
    BY <1>1, PacerLedger, PTL

\* Under saturating demand a rate of at least one permit per tick is delivered
\* in full; the clamp costs nothing.
THEOREM PacerDeliversRate == Spec => []RateDelivered
  <1>1. TypeOK /\ Ledger => RateDelivered
    <2> SUFFICES ASSUME TypeOK, Ledger, saturated, rate >= REQRATE_INT
                 PROVE  REQRATE_INT * (issued + pacer.target) >= ticks * rate
      BY DEF RateDelivered
    <2>1. rate \in Nat \ {0} /\ ticks * rate \in Int
      BY RatesAssumption DEF TypeOK
    <2>2. pacer.error \in Nat /\ pacer.cur \in Nat /\ pacer.target \in Nat
      BY DEF TypeOK, Ledger, ErrorWithinInterval, PacerType
    <2>3. CASE ticks = 0
      BY <2>3, <2>1
         DEF TypeOK, Ledger, PacerZero, REQRATE_INT
    <2>4. CASE ticks > 0
      <3>1. pacer.target * REQRATE_FIXED_MULT >= pacer.error + 1
        BY <2>4, <2>1, <2>2, TargetBound DEF Ledger
      <3> QED
        BY <3>1, <2>1, <2>2
           DEF TypeOK, Ledger, REQRATE_INT, REQRATE_FIXED_MULT
    <2> QED
      BY <2>3, <2>4 DEF TypeOK
  <1> QED
    BY <1>1, PacerLedger, PTL
==============================================================================

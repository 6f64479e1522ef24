---------------------------- MODULE AccountProofs ----------------------------
(* The accounting identity of Account for every portfolio set, capital, stake   *)
(* and profit.                                                                  *)
EXTENDS Account, TLAPS

\* The four variables keep their types in every behaviour.
LEMMA AccountTyping ==
    ASSUME StartingCapital \in Nat, Stake \subseteq Nat, Profit \subseteq Int
    PROVE  Spec => []TypeOK
<1>1. Init => TypeOK
  BY DEF Init, TypeOK
<1>2. TypeOK /\ [Next]_vars => TypeOK'
  <2> SUFFICES ASSUME TypeOK, [Next]_vars PROVE TypeOK'
    OBVIOUS
  <2> USE DEF TypeOK
  <2>1. ASSUME NEW p \in Portfolio, Fund(p) PROVE TypeOK'
    BY <2>1 DEF Fund
  <2>2. ASSUME NEW p \in Portfolio, NEW stake \in Stake, Reserve(p, stake) PROVE TypeOK'
    BY <2>2 DEF Reserve, Available
  <2>3. ASSUME NEW p \in Portfolio, NEW stake \in Stake, NEW pnl \in Profit, Release(p, stake, pnl)
        PROVE TypeOK'
    BY <2>3 DEF Release
  <2>4. CASE UNCHANGED vars
    BY <2>4 DEF vars
  <2>5. QED
    BY <2>1, <2>2, <2>3, <2>4 DEF Next
<1>3. QED
  BY <1>1, <1>2, PTL DEF Spec

\* Cash and reserved stakes are never negative, and together they are always the
\* starting capital plus what settlements have brought: no step of a portfolio
\* that keeps this contract makes or loses money.
THEOREM AccountConserved ==
    ASSUME StartingCapital \in Nat, Stake \subseteq Nat, Profit \subseteq Int
    PROVE  Spec => []Conserved
<1>1. Init => Conserved
  <2> SUFFICES ASSUME Init, NEW p \in Portfolio PROVE Conserved!(p)
    BY DEF Conserved
  <2> QED
    BY DEF Init
<1>2. TypeOK /\ Conserved /\ [Next]_vars => Conserved'
  <2> SUFFICES ASSUME TypeOK, Conserved, [Next]_vars PROVE Conserved'
    OBVIOUS
  <2> USE DEF TypeOK, Conserved
  <2>1. ASSUME NEW p \in Portfolio, Fund(p) PROVE Conserved'
    BY <2>1 DEF Fund
  <2>2. ASSUME NEW p \in Portfolio, NEW stake \in Stake, Reserve(p, stake) PROVE Conserved'
    BY <2>2 DEF Reserve, Available
  <2>3. ASSUME NEW p \in Portfolio, NEW stake \in Stake, NEW pnl \in Profit, Release(p, stake, pnl)
        PROVE Conserved'
    BY <2>3 DEF Release
  <2>4. CASE UNCHANGED vars
    BY <2>4 DEF vars
  <2>5. QED
    BY <2>1, <2>2, <2>3, <2>4 DEF Next
<1>3. QED
  BY AccountTyping, <1>1, <1>2, PTL DEF Spec
=============================================================================

--------------------------- MODULE EpsEnergyProofs ---------------------------
(***************************************************************************)
(* Theorems about EpsEnergy, for all sets of devices, readings and widths. *)
(***************************************************************************)
EXTENDS EpsEnergy, EpsSums

\* What each device used, as an integer.
Used == [d \in Devices |-> e1[d] - e0[d]]

TypeInv == /\ e0 \in [Devices -> Readings] /\ e1 \in [Devices -> Readings]
           /\ pc \in {"read", "insert", "lost", "committed", "end"}
           /\ todo \in SUBSET Devices
           /\ DOMAIN stored \subseteq Devices

\* Where the loop after the job is: the total is that of the devices it has passed.
Passed == IF pc = "read" THEN Devices \ todo ELSE Devices
TotalInv == total_uj = SumFunctionOnSet(Used, Passed) % Modulus

StoredInv == \A d \in DOMAIN stored : stored[d] = [e0 |-> Text(e0[d]), e1 |-> Text(e1[d])]
LoggedInv == pc = "end" => logged = Strtoull(Sum)

EnergyInv == TypeInv /\ TotalInv /\ StoredInv /\ LoggedInv

-----------------------------------------------------------------------------
(* Arithmetic modulo a width.                                              *)

LEMMA ModIs ==
    ASSUME NEW a \in Int, NEW m \in Nat \ {0}
    PROVE  /\ a % m \in 0..(m - 1) /\ a \div m \in Int
           /\ a = m * (a \div m) + (a % m)
OBVIOUS

LEMMA ModUnique ==
    ASSUME NEW m \in Nat \ {0}, NEW q \in Int, NEW r \in 0..(m - 1)
    PROVE  (m * q + r) % m = r
<1>1. PICK a \in Int : a = m * q + r OBVIOUS
<1>2. a % m = r BY <1>1
<1> QED BY <1>1, <1>2

\* A remainder may be taken at each addition or once, at the end.
LEMMA ModAdd ==
    ASSUME NEW a \in Int, NEW b \in Int, NEW m \in Nat \ {0}
    PROVE  ((a % m) + b) % m = (a + b) % m
<1> DEFINE c == (a % m) + b
           q == a \div m
           p == c \div m
           r == c % m
<1>1. q \in Int /\ a % m \in Int /\ a = m * q + (a % m) BY ModIs
<1>2. c \in Int BY <1>1
<1>3. p \in Int /\ r \in 0..(m - 1) /\ c = m * p + r BY <1>2, ModIs
<1>4. a + b = m * q + c BY <1>1
<1>5. m * q + m * p = m * (q + p) BY <1>1, <1>3
<1> HIDE DEF q, p, c, r
<1>6. a + b = m * (q + p) + r
  <2>1. m * q \in Int /\ m * p \in Int BY <1>1, <1>3
  <2> QED BY <1>3, <1>4, <1>5, <2>1
<1>7. (m * (q + p) + r) % m = r
  <2>1. q + p \in Int BY <1>1, <1>3
  <2> QED BY <1>3, <2>1, ModUnique
<1>8. (a + b) % m = r BY <1>6, <1>7, Zenon
<1> QED BY <1>8 DEF r, c

-----------------------------------------------------------------------------
(* The invariant.                                                          *)

LEMMA Numbers == Modulus \in Nat \ {0} /\ Readings \subseteq Nat /\ Readings \subseteq Int
BY WidthsAssumption

LEMMA UsedInt == ASSUME TypeInv PROVE \A d \in Devices : Used[d] \in Int /\ Used[d] = e1[d] - e0[d]
<1>1. \A d \in Devices : e0[d] \in Readings /\ e1[d] \in Readings BY DEF TypeInv
<1>2. \A d \in Devices : e0[d] \in Int /\ e1[d] \in Int BY <1>1, Numbers
<1> QED BY <1>2 DEF Used

LEMMA InitEnergy == Init => EnergyInv
<1> SUFFICES ASSUME Init PROVE EnergyInv OBVIOUS
<1>1. TypeInv /\ StoredInv /\ LoggedInv BY DEF Init, TypeInv, StoredInv, LoggedInv
<1>2. TotalInv
  <2>1. SumFunctionOnSet(Used, Passed) = 0
    <3>1. Passed = {} BY DEF Init, Passed
    <3> QED BY <3>1, SumEmpty, Zenon
  <2>2. 0 % Modulus = 0 BY Numbers
  <2> QED BY <2>1, <2>2 DEF TotalInv, Init
<1> QED BY <1>1, <1>2 DEF EnergyInv

LEMMA ReadsTotal == ASSUME EnergyInv, NEW d \in Devices, ReadsAgain(d) PROVE TotalInv'
<1> DEFINE P == Devices \ todo
           S == SumFunctionOnSet(Used, P)
<1>1. Used' = Used BY DEF ReadsAgain, Used
<1>2. Passed = P /\ Passed' = P \union {d} /\ d \notin P
  BY DEF ReadsAgain, Passed, EnergyInv, TypeInv
<1>3. IsFiniteSet(P) BY DevicesAssumption, FS_Subset
<1>4. \A x \in Devices : Used[x] \in Int BY UsedInt DEF EnergyInv
<1>5. SumFunctionOnSet(Used, P \union {d}) = S + Used[d]
  <2>1. \A x \in P \union {d} : Used[x] \in Int BY <1>4
  <2> QED BY <1>2, <1>3, <2>1, SumAdd
<1>6. S \in Int /\ Used[d] \in Int BY <1>3, <1>4, SumInt
<1>7. total_uj = S % Modulus
  <2>1. total_uj = SumFunctionOnSet(Used, Passed) % Modulus BY DEF EnergyInv, TotalInv
  <2> QED BY <1>2, <2>1, Zenon
<1>8. total_uj' = (total_uj + Used[d]) % Modulus
  <2>1. e0[d] \in Int /\ e1[d] \in Int /\ Used[d] = e1[d] - e0[d]
    BY UsedInt, Numbers DEF EnergyInv, TypeInv
  <2>2. total_uj \in Int BY <1>6, <1>7, Numbers
  <2>3. total_uj + e1[d] - e0[d] = total_uj + Used[d] BY <2>1, <2>2
  <2> QED BY <2>3 DEF ReadsAgain
<1>9. total_uj' = (S + Used[d]) % Modulus
  <2>1. ((S % Modulus) + Used[d]) % Modulus = (S + Used[d]) % Modulus
    BY <1>6, Numbers, ModAdd
  <2> QED BY <1>7, <1>8, <2>1, Zenon
<1>10. SumFunctionOnSet(Used, Passed)' = SumFunctionOnSet(Used, P \union {d})
  BY <1>1, <1>2, Zenon
<1> QED BY <1>5, <1>9, <1>10, Zenon DEF TotalInv

\* The other steps leave the total and what it is a total of alone.
LEMMA OthersTotal ==
    ASSUME EnergyInv, UNCHANGED <<e0, e1, total_uj>>, Passed' = Passed PROVE TotalInv'
<1>1. Used' = Used BY DEF Used
<1>2. SumFunctionOnSet(Used, Passed)' = SumFunctionOnSet(Used, Passed) BY <1>1, Zenon
<1> QED BY <1>2, Zenon DEF TotalInv, EnergyInv

LEMMA NextEnergy == EnergyInv /\ [Next]_vars => EnergyInv'
<1> SUFFICES ASSUME EnergyInv, [Next]_vars PROVE EnergyInv' OBVIOUS
<1> USE DEF EnergyInv, TypeInv, StoredInv, LoggedInv, Passed
<1>1. ASSUME NEW d \in Devices, ReadsAgain(d) PROVE EnergyInv'
  <2>1. TotalInv' BY <1>1, ReadsTotal
  <2>2. TypeInv' /\ StoredInv' /\ LoggedInv' BY <1>1 DEF ReadsAgain, Text
  <2> QED BY <2>1, <2>2
<1>2. CASE Begins
  <2>1. TotalInv' BY <1>2, OthersTotal DEF Begins
  <2>2. TypeInv' /\ StoredInv' /\ LoggedInv' BY <1>2 DEF Begins, Text
  <2> QED BY <2>1, <2>2
<1>3. ASSUME NEW d \in Devices, Inserts(d) PROVE EnergyInv'
  <2>1. TotalInv' BY <1>3, OthersTotal DEF Inserts
  <2>2. TypeInv' /\ StoredInv' /\ LoggedInv' BY <1>3 DEF Inserts, Text
  <2> QED BY <2>1, <2>2
<1>4. CASE Commits
  <2>1. TotalInv' BY <1>4, OthersTotal DEF Commits
  <2>2. TypeInv' /\ StoredInv' /\ LoggedInv' BY <1>4 DEF Commits, Text
  <2> QED BY <2>1, <2>2
<1>5. CASE CtldSums
  <2>1. TotalInv' BY <1>5, OthersTotal DEF CtldSums
  <2>2. TypeInv' /\ StoredInv' BY <1>5 DEF CtldSums, Text
  <2>3. Sum' = Sum BY <1>5 DEF CtldSums, Sum
  <2>4. LoggedInv' BY <1>5, <2>3 DEF CtldSums
  <2> QED BY <2>1, <2>2, <2>4
<1>6. CASE UNCHANGED vars
  <2>1. TotalInv' BY <1>6, OthersTotal DEF vars
  <2>2. TypeInv' /\ StoredInv' /\ LoggedInv' BY <1>6 DEF vars, Text, Sum
  <2> QED BY <2>1, <2>2
<1> QED BY <1>1, <1>2, <1>3, <1>4, <1>5, <1>6 DEF Next, Ended

\* What is written, read and stored for each device fits, from the first reading on.
THEOREM EnergyInvariant == Spec => []EnergyInv
BY InitEnergy, NextEnergy, PTL DEF Spec
-----------------------------------------------------------------------------
(* The results.                                                            *)

LEMMA SumOfStored ==
    ASSUME EnergyInv, Accepted, \A d \in Devices : e0[d] < TextMax /\ e1[d] < TextMax
    PROVE  Sum = SumFunctionOnSet(Used, Devices)
<1> DEFINE f == [d \in DOMAIN stored |-> stored[d].e1 - stored[d].e0]
<1>1. \A d \in Devices : Used[d] \in Int /\ Used[d] = e1[d] - e0[d] BY UsedInt DEF EnergyInv
<1>2. \A d \in Devices : stored[d] = [e0 |-> e0[d], e1 |-> e1[d]]
  BY DEF EnergyInv, StoredInv, Accepted, Text
<1>3. \A d \in Devices : Used[d] \in Int /\ Used[d] = f[d]
  BY <1>1, <1>2 DEF Accepted
<1>4. DOMAIN f = Devices BY DEF Accepted
<1>5. SumFunctionOnSet(Used, Devices) = SumFunctionOnSet(f, Devices)
  <2> HIDE DEF f
  <2> QED BY <1>3, DevicesAssumption, SumSame
<1>6. Sum = SumFunctionOnSet(f, DOMAIN f) BY Zenon DEF Sum, SumFunction
<1> QED BY <1>4, <1>5, <1>6, Zenon

\* strtoull does to the database's signed sum what the EFP's additions do modulo 2^64.
LEMMA StrtoullWraps ==
    ASSUME NEW v \in Int, v > -Modulus, v < Modulus PROVE Strtoull(v) = v % Modulus<1>1. (IF v < 0 THEN -v ELSE v) < Modulus BY Numbers
<1> QED BY <1>1, Numbers DEF Strtoull

\* The two totals of a job, one kept modulo 2^64 by the EFP and one summed up by the
\* database and read back, are equal; and they are the energy used if no counter
\* went back.
THEOREM TotalsEqual == Spec => []TotalsAgree
<1> DEFINE Fits == Accepted /\ \A d \in Devices : e0[d] < TextMax /\ e1[d] < TextMax
           U == SumFunctionOnSet(Used, Devices)
<1>1. ASSUME EnergyInv, Fits, Sum > -Modulus, Sum < Modulus
      PROVE  /\ logged = total_uj
             /\ (\A d \in Devices : e0[d] <= e1[d])
                => total_uj = SumFunction(e1) - SumFunction(e0)
  <2>1. Sum = U BY <1>1, SumOfStored
  <2>2. \A d \in Devices : Used[d] \in Int /\ Used[d] = e1[d] - e0[d]
    BY <1>1, UsedInt DEF EnergyInv
  <2>3. U \in Int BY <2>2, DevicesAssumption, SumInt
  <2>4. total_uj = U % Modulus
    <3>1. total_uj = SumFunctionOnSet(Used, Passed) % Modulus BY <1>1 DEF EnergyInv, TotalInv
    <3>2. Passed = Devices BY <1>1 DEF Accepted, Passed
    <3> QED BY <3>1, <3>2, Zenon
  <2>5. logged = U % Modulus
    <3>1. logged = Strtoull(Sum) BY <1>1 DEF EnergyInv, LoggedInv, Accepted
    <3>2. Strtoull(Sum) = Sum % Modulus BY <1>1, <2>1, <2>3, StrtoullWraps
    <3> QED BY <2>1, <3>1, <3>2, Zenon
  <2>6. ASSUME \A d \in Devices : e0[d] <= e1[d]
        PROVE  total_uj = SumFunction(e1) - SumFunction(e0)
    <3>1. \A d \in Devices : e0[d] \in Int /\ e1[d] \in Int
      BY <1>1, Numbers DEF EnergyInv, TypeInv
    <3>2. U \in Nat
      <4>1. \A d \in Devices : Used[d] \in Nat BY <2>2, <2>6, <3>1
      <4> QED BY <4>1, DevicesAssumption, SumNat
    <3>3. total_uj = U BY <1>1, <2>1, <2>4, <3>2, Numbers
    <3>4. U = SumFunctionOnSet(e1, Devices) - SumFunctionOnSet(e0, Devices)
      BY <2>2, <3>1, DevicesAssumption, SumMinus
    <3>5. DOMAIN e0 = Devices /\ DOMAIN e1 = Devices BY <1>1 DEF EnergyInv, TypeInv
    <3>6. /\ SumFunction(e1) = SumFunctionOnSet(e1, Devices)
          /\ SumFunction(e0) = SumFunctionOnSet(e0, Devices)
      BY <3>5, Zenon DEF SumFunction
    <3> QED BY <3>3, <3>4, <3>6, Zenon
  <2> QED BY <2>4, <2>5, <2>6
<1>2. EnergyInv => TotalsAgree BY <1>1 DEF TotalsAgree
<1> QED BY <1>2, EnergyInvariant, PTL
==============================================================================

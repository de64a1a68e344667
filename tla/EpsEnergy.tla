------------------------------ MODULE EpsEnergy ------------------------------
(***************************************************************************)
(* The arithmetic of a job's energy on one node: the EFP adds up the       *)
(* differences of its readings as unsigned integers (eps_efp.c), prints    *)
(* the readings into buffers for columns that are signed, and slurmctld    *)
(* reads the database's sum back as an unsigned integer (eps_db.c).        *)
(***************************************************************************)
EXTENDS Integers, FiniteSets, Functions

CONSTANTS Devices,
          Readings,     \* values a device's energy counter may have
          Modulus,      \* 2^64: unsigned long long, uint64_t
          Signed,       \* 2^63: BIGINT is smaller
          TextMax       \* 10^19: shorter numbers fit in char[20]

ASSUME WidthsAssumption ==
    /\ Modulus \in Nat /\ Signed \in 1..Modulus /\ TextMax \in 1..Modulus
    /\ Readings \subseteq 0..(Modulus - 1)

\* EMA lists the devices of a node in an array.
ASSUME DevicesAssumption == IsFiniteSet(Devices)

VARIABLES
    e0, e1,     \* the readings, before and after the job
    pc,
    todo,       \* devices left in the loop the EFP is in
    total_uj,   \* the EFP's total
    stored,     \* rows of measurements: [Devices -> [e0, e1]] for those inserted
    logged      \* what slurmctld logs

vars == <<e0, e1, pc, todo, total_uj, stored, logged>>

Init == /\ e0 \in [Devices -> Readings] /\ e1 \in [Devices -> Readings]
        /\ pc = "read" /\ todo = Devices /\ total_uj = 0
        /\ stored = <<>> /\ logged = 0

-----------------------------------------------------------------------------
\* The loop after the job: total_uj += e1[i] - e0[i].
ReadsAgain(d) ==
    /\ pc = "read" /\ d \in todo
    /\ todo' = todo \ {d}
    /\ total_uj' = (total_uj + e1[d] - e0[d]) % Modulus
    /\ UNCHANGED <<e0, e1, pc, stored, logged>>

Begins ==
    /\ pc = "read" /\ todo = {}
    /\ pc' = "insert" /\ todo' = Devices
    /\ UNCHANGED <<e0, e1, total_uj, stored, logged>>

\* snprintf cuts off the last digit of a number that is too long.
Text(v) == IF v < TextMax THEN v ELSE v \div 10

\* insert_measurement_data: a number that is out of the column's range is an error,
\* which ends the transaction and the EFP.
Inserts(d) ==
    /\ pc = "insert" /\ d \in todo
    /\ todo' = todo \ {d}
    /\ IF Text(e0[d]) < Signed /\ Text(e1[d]) < Signed
       THEN /\ stored' = [x \in DOMAIN stored \union {d} |->
                             IF x = d THEN [e0 |-> Text(e0[d]), e1 |-> Text(e1[d])] ELSE stored[x]]
            /\ pc' = pc
       ELSE stored' = <<>> /\ pc' = "lost"
    /\ UNCHANGED <<e0, e1, total_uj, logged>>

Commits ==
    /\ pc = "insert" /\ todo = {} /\ pc' = "committed"
    /\ UNCHANGED <<e0, e1, todo, total_uj, stored, logged>>

\* SUM(e1 - e0): numeric, exact and signed.
Sum == SumFunction([d \in DOMAIN stored |-> stored[d].e1 - stored[d].e0])

\* Defect: the text is read as a signed number, and 0 when it is negative.
Strtoull_Signed(v) == IF v >= 0 THEN v ELSE 0

\* strtoull takes a minus sign and negates in its type; too large a number is the
\* largest of the type.
Strtoull(v) == LET m == IF v < 0 THEN -v ELSE v
               IN  IF m >= Modulus THEN Modulus - 1 ELSE v % Modulus

\* get_total_energy_consumption, for the log; without rows the total is 0.
CtldSums ==
    /\ pc \in {"committed", "lost"} /\ pc' = "end"
    /\ logged' = Strtoull(Sum)
    /\ UNCHANGED <<e0, e1, todo, total_uj, stored>>

Ended == pc = "end" /\ UNCHANGED vars

Next == Begins \/ Commits \/ CtldSums \/ Ended \/ \E d \in Devices : ReadsAgain(d) \/ Inserts(d)
Spec == Init /\ [][Next]_vars

-----------------------------------------------------------------------------
Accepted == pc = "end" /\ DOMAIN stored = Devices

\* The EFP's own total and the one slurmctld logs for the job are the same, also when
\* counters went back, although one is added up modulo 2^64 and the other signed and
\* exactly; and when no counter did, they are the energy that was used.  Of jobs with
\* a reading of more digits than its buffer has room for nothing is said: the reading is
\* stored without its last digit, as a tenth of what it was.
TotalsAgree ==
    /\ Accepted /\ \A d \in Devices : e0[d] < TextMax /\ e1[d] < TextMax
    /\ Sum > -Modulus /\ Sum < Modulus
    => /\ logged = total_uj
       /\ (\A d \in Devices : e0[d] <= e1[d]) => total_uj = SumFunction(e1) - SumFunction(e0)
==============================================================================
